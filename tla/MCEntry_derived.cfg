SPECIFICATION Spec
CONSTANTS
  None = None
  BurstWindow = 1
  StateDedupe = 1
  DispenseDedupe = 1
  CloseGrace = 3
  ExcessAfter = 2
  StepSamples = 2
  StepSize = 18
  Documents <- MCDocuments
  Activities <- MCActivities
  Tracked <- MCTracked
  Stored <- MCStored
  Gauges <- MCGauges
  MaxTime = 3
  MaxMessages = 4
  MaxEvents = 1
INVARIANTS
  SightingNeedsItsBurst
  SettledIsComplete
  GaugeSurvives
  ExcessNeedsARun
CHECK_DEADLOCK FALSE
