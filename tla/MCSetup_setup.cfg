SPECIFICATION Spec
CONSTANTS
  own = own
  here = here
  there = there
  robot = robot
  None = None
  Foreign = {own}
  Hosts = {here, there}
  Robots = {robot}
  Offered <- AllOffered
  MaxRuns = 4
INVARIANTS
  KeyBelongsToAuthority
  NoRobotIsStranded
  StoredIdentitiesChain
  SetupIsIdempotent
CHECK_DEADLOCK FALSE
