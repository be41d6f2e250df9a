SPECIFICATION Spec
CONSTANTS
  bonnet = bonnet
  drawer = drawer
  Never = Never
  Faults = {bonnet}
  Gauges = {}
  Urgent <- FaultUrgent
  Hold <- FaultHolds
  Levels = {0, 1, 2}
  Threshold = 2
  Margin = 2
  DayLength = 6
  SetTimes = {1, 4}
  MinAge = 2
  Grace = 1
  Interval = 2
  Phones = {phone}
  LastTime = 10
INVARIANTS
  NothingOverdue
  NothingUnheard
PROPERTIES
  TellsEpisodes
  HoldsAreRespected
CHECK_DEADLOCK FALSE
