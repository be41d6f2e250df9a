SPECIFICATION FairSpec
CONSTANTS
  WithIdentity = FALSE
  Chars <- Short
  Bytes <- Wide
  Chunk = 2
  Wait = 3
  Lease = 2
  MaxAttempts = 1
PROPERTIES
  UploadsEnd
CHECK_DEADLOCK FALSE
