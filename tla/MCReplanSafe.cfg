SPECIFICATION FairSpec
CONSTANTS
  NaviModes = {1, 2, 3}
  RequireTf = TRUE
  FailSafe = TRUE
  MaxFail = 2
  NumWaypoints = 3
  MaxTrajId = 3
  RevModulus = 2
  Tasks = {g1, g2}
  Missions = {m1}
  TopicTasks = TRUE
  ClockJumps = TRUE
INVARIANTS
  TypeOK
  AuthorityCurrent
  ExecKeepsProgress
  EmergencyHeld
  LocalisedOutsideInit
  ActiveRoutePursued
  TerminalRouteNotDriven
  FailureLimit
PROPERTIES
  AuthorityFollowsBspline
  ServesAsAuthority
  TakeoverAdvancesRevision
  PlanningDecides
  EmergencyLeft
