SPECIFICATION Spec
CONSTANTS
  button = button
  switch = switch
  timer = timer
  NoOne = NoOne
  Callers = {switch, timer}
  Refreshers = {r1, r2}
  OpsOf <- BatchOps
  MaxCalls <- BatchTimes
  Days = 2
  Retries = 2
  ReportsOdometer = TRUE
  MaxEvents = 0
  MaxCmds = 2
  MaxMsgs = 2
INVARIANTS
  ReportedScheduleIsTheRobots
PROPERTIES
  ExclusivePublishing
CHECK_DEADLOCK FALSE
