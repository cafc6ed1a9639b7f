SPECIFICATION Spec
CONSTANTS
  Owners = {bridge, proxy}
  Bridge = bridge
  Proxy = proxy
  Inodes = {f1, f2}
  NoInode = NoInode
  AutoStand = TRUE
  RequireStanding = TRUE
  SendZeroOnStart = TRUE
  CmdTimeout = 1
  CheckPeriod = 1
  RetryPeriod = 1
  MaxDelay = 1
  MaxInit = 1
  MaxSock = 1
  ClockStep = 1
  MaxSteps = 1
INVARIANTS
  SingleOwner
  StaleMotionBounded
  OrderlyStop
  StandsBeforeMoving
SYMMETRY FileSymmetry
