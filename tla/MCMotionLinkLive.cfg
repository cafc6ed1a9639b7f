\* No trajectory is rejected; poses time out and both processes restart.
SPECIFICATION FairSpec
CONSTANTS
  MaxTrajId = 1
  MaxStart = 2
  HeartbeatTimeout = 2
  OdomTimeout = 1
  MaxStep = 1
  MaxDelay = 1
  BadPaths = FALSE
PROPERTIES
  GrantIsFollowed
