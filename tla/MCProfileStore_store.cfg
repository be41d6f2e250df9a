SPECIFICATION FairSpec
CONSTANTS
  c1 = c1
  c2 = c2
  r1 = r1
  box = box
  None = None
  Damaged = Damaged
  Commands = {c1, c2}
  OpsOf <- TwoTerminals
  Robots = {r1}
  Names = {box}
  Distances = {1, 3, 9}
  Plausible = {1, 3}
  MinSpan = 1
  MaxSpan = 2
  StartProfiles <- OneRobot
  MaxCalls = 3
INVARIANTS
  DefaultHasAProfile
PROPERTIES
  NoLostUpdate
  CalibrationLeavesAScale
  EveryMutationEnds
CHECK_DEADLOCK FALSE
