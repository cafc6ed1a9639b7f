SPECIFICATION Spec
CONSTANTS
  NaviModes = {3}
  RequireTf = TRUE
  FailSafe = TRUE
  MaxFail = 2
  NumWaypoints = 1
  MaxTrajId = 3
  RevModulus = 4
  Tasks = {g1, g2}
  Missions = {m1}
  TopicTasks = TRUE
  ClockJumps = FALSE
PROPERTIES
  GrantServesCurrentTask
