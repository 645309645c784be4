CONSTANTS
  alice = alice
  backend = backend
  ask1 = ask1
  ask2 = ask2
  None = None
  Person <- MCPerson
  Group <- MCGroup
  Call <- MCCall
  MaxChanges = 2
  MaxFailures = 1
  MaxRestarts = 1
SPECIFICATION FairSpec
CHECK_DEADLOCK FALSE
INVARIANTS
  TypeOK
  NeverDoubled
  IndexIsLastBuild
PROPERTIES
  CatchesUp
