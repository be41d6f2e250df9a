SPECIFICATION Spec
CONSTANTS
  button = button
  switch = switch
  timer = timer
  NoOne = NoOne
  Callers = {button, switch}
  Refreshers = {r1}
  OpsOf <- FaultOps
  MaxCalls <- FaultTimes
  Days = 1
  Retries = 1
  ReportsOdometer = TRUE
  MaxEvents = 1
  MaxCmds = 2
  MaxMsgs = 2
INVARIANTS
  PressActsAtMostOnce
  NoTaskOutlivesShutdown
PROPERTIES
  TakesTurns
  PressPromises
CHECK_DEADLOCK FALSE
