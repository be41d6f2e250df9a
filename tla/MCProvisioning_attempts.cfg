SPECIFICATION FairSpec
CONSTANTS
  WithIdentity = TRUE
  Chars <- Short
  Bytes <- Short
  Chunk = 2
  Wait = 3
  Lease = 2
  MaxAttempts = 3
INVARIANTS
  JoinFailureLeavesBroker
  UntouchedUnlessConfirmed
  StoredWasAccepted
PROPERTIES
  OnboardsWhole
  AttemptsEnd
CHECK_DEADLOCK FALSE
