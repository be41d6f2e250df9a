SPECIFICATION Spec
CONSTANTS
  Invocations <- Typed
  Theirs <- HomeAssistants
  DaysWritten <- TwoDays
  Registers = {23, 26, 30, 32}
  Retries = 2
  MaxCommands = 2
  MaxEvents = 1
  MaxQueue = 2
INVARIANTS
  VerifiedIsTheRobots
  RunsWhatWasPressed
PROPERTIES
  LockedRobotIsSpared
CHECK_DEADLOCK FALSE
