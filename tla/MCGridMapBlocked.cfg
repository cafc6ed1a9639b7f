SPECIFICATION GridSpec
CONSTANTS
  Parts = 2
  Size <- MCSize
  Radius2 = 2
  ZUp = 0
  ZDown = 0
  HitStep = 2
  MissStep = 1
  LogMax = 2
  LogOcc = 1
  SlideThresh = 1
  UpdateRange <- MCUpdateRange
  MaxRay2 = 4
  Sources = {"world cloud"}
  Positions <- MCPositions
  MaxPoints = 2
  StaleMarks <- MCStaleMarks
  Edited = FALSE
  RevModulus = 1
INVARIANTS
  ObstaclesBlock
CHECK_DEADLOCK FALSE
