SPECIFICATION ServerSpec
CONSTANTS
  NaviModes = {3}
  RequireTf = TRUE
  FailSafe = TRUE
  MaxFail = 2
  NumWaypoints = 1
  MaxTrajId = 2
  RevModulus = 1
  Tasks = {r1}
  Missions = {m1, m2}
  TopicTasks = FALSE
  ClockJumps = TRUE
  CancelStopTimeout = 1
  StuckTimeout = 1
  MaxFinished = 4
SYMMETRY RouteSymmetry
VIEW ReadState
INVARIANTS
  SuccessIsEarned
  DecidedMissionNotDriven
PROPERTIES
  DrivesPlanner
  NoOrphanMission
