SPECIFICATION ExecutorFairSpec
CONSTANTS
  NaviModes = {3}
  RequireTf = TRUE
  FailSafe = TRUE
  MaxFail = 1
  NumWaypoints = 1
  MaxTrajId = 2
  RevModulus = 1
  Tasks = {r1}
  Missions = {m1}
  TopicTasks = FALSE
  ClockJumps = FALSE
  CancelStopTimeout = 1
  StuckTimeout = 1
  MaxFinished = 4
PROPERTIES
  LocalisationLossAnswered
