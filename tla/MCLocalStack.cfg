SPECIFICATION StackSpec
CONSTANTS
  \* GridMap
  Parts = 2
  Size <- MCSize
  Radius2 = 2
  ZUp = 0
  ZDown = 0
  HitStep = 2
  MissStep = 1
  LogMax = 2
  LogOcc = 1
  SlideThresh = 1
  UpdateRange <- MCUpdateRange
  MaxRay2 = 4
  Sources = {"world cloud", "cloud and pose", "depth"}
  Positions <- MCPositions
  MaxPoints = 1
  StaleMarks <- MCStaleMarks
  Edited = TRUE
  RevModulus = 1
  \* DynAStar
  PoolSize <- MCPoolSize
  MapCells <- MCMapCells
  MaxExpansions = 8
  Offsets = {0, 1}
  Worlds <- MCWorlds
  Requests <- MCRequests
  MaxRounds = 2
  \* LocalPlanning
  MaxIterations = 2
  MaxLineSearch = 2
  CheckAfter = 1
  MaxRestarts = 1
  MaxRebounds = 1
  \* CollisionSegments
  Points = 10
  Samples = 3
  \* CommandGovernor and TrackControl
  MaxSpeed = 12
  MinSpeed = 2
  SpeedUp = 1
  SpeedDown = 1
  MaxYaw = 20
  MinYaw = 4
  SyncYaw = 4
  SignBand = 1
  DeadYaw = 1
  StartYaw = 3
  StopYaw = 1
  ReversalYaw = 5
  YawStep = 2
  Smoothing = 3
  Cruise = 8
  YawReserve = 1
  AlignEnter = 32
  AlignExit = 18
  SlowdownStart = 8
  LateralLimit = 320
  BrakingLimit = 96
  FinishDist = 3
  Patience = 20
  Observations <- MCObservations
  \* ReferenceRoute
  MaxRoutePoints = 20
  MaxAdvance = 2
  CreditScale = 1
  Deadband = 1
  InitialCredit = 1
  \* RouteProgress
  MissionRoutes <- MCMissionRoutes
  SearchAhead = 3
  SearchBehind = 1
  MaxLateral = 1
  SeamGate = 1
  MaxChecks = 9
  Laps = 2
  Yard <- MCYard
  Stride = 1
  MaxDriven = 11
  \* RoutePursuit
  RouteMessages <- MCRouteMessages
  ClosedTolerance = 0
  PointSpacing = 1
  MinLength = 3
  Departure = 2
  MinRatio = 80
  FinishDistance = 1
  FinishRemaining = 1
  Horizon = 6
  MinTarget = 1
  Obstacles <- MCObstacles
  Field <- MCField
  MaxWay = 7
  \* LocalProgress
  Trajectories <- MCTrajectories
  EndDistance = 1
  EndRemaining = 4
  Ground <- MCGround
  MaxTrajectories = 2
  MaxDistance = 1
  \* MergeReference
  MergeRoutes <- MCMergeRoutes
  MinForward = 1
  MaxForward = 5
  Clearance = 1
  Extensions = 3
  Spacing = 2
  MaxSamples = 7
  MergeRange <- MCMergeRange
INVARIANTS
  SlideKeepsOverlap
  NoGhostInflation
  SearchSound
  FailsOnlyWhenCutOff
  LeftoversContained
  CollisionsAnswered
  NoStopAndGo
  SweepCoversCommand
  ProgressIsTrue
  FinishIsEarned
  ObedientRobotGoesOn
  LocalProgressIsEarned
  MergeHolds
PROPERTIES
  SpeedsUpGently
VIEW AtWork
CHECK_DEADLOCK FALSE
