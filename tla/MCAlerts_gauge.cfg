SPECIFICATION Spec
CONSTANTS
  bonnet = bonnet
  drawer = drawer
  Never = Never
  Faults = {}
  Gauges = {drawer}
  Urgent <- GaugeUrgent
  Hold <- GaugeHolds
  Levels = {0, 1, 2}
  Threshold = 2
  Margin = 2
  DayLength = 6
  SetTimes = {1, 4}
  MinAge = 2
  Grace = 2
  Interval = 2
  Phones = {phone}
  LastTime = 12
INVARIANTS
  StoredIsAnnounced
PROPERTIES
  RemindersKeepTheirPace
  GaugesDoNotFlap
  SilencedStaySilent
CHECK_DEADLOCK FALSE
