SPECIFICATION Spec
CONSTANTS
  None = None
  BurstWindow = 1
  StateDedupe = 1
  DispenseDedupe = 1
  CloseGrace = 2
  ExcessAfter = 30
  StepSamples = 5
  StepSize = 18
  Robots <- MCRobots
  MaxRebuilds = 1
INVARIANTS
  ScaleIsSound
  FloorIsAFlatline
  StaleRestsOnAPour
  VisitsNeedABody
CHECK_DEADLOCK FALSE
