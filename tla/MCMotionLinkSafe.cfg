\* Every fault.  With one id, every trajectory of every life has the same id:
\* the worst case of ids given again after a restart.
SPECIFICATION HistorySpec
CONSTANTS
  MaxTrajId = 1
  MaxStart = 2
  HeartbeatTimeout = 1
  OdomTimeout = 1
  MaxStep = 1
  MaxDelay = 1
  BadPaths = TRUE
INVARIANTS
  MotionIsGranted
PROPERTIES
  NoResurrection
