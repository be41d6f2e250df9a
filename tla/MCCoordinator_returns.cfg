SPECIFICATION FairSpec
CONSTANTS
  button = button
  switch = switch
  timer = timer
  NoOne = NoOne
  Callers = {button}
  Refreshers = {r1}
  OpsOf <- TwiceOps
  MaxCalls <- TwiceTimes
  Days = 1
  Retries = 1
  ReportsOdometer = TRUE
  MaxEvents = 1
  MaxCmds = 2
  MaxMsgs = 1
INVARIANTS
  SuccessRestsOnNewEvidence
PROPERTIES
  EveryCallReturns
CHECK_DEADLOCK FALSE
