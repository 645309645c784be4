CONSTANTS
  dana = dana
  eli = eli
  visit1 = visit1
  visit2 = visit2
  read1 = read1
  read2 = read2
  None = None
  Member <- MCMember
  Owner = dana
  Reader <- MCReader
  Attempt <- MCAttempt
  StateTtl = 1
  MaxNow = 2
  MaxFailures = 1
  MaxRestarts = 1
SPECIFICATION Spec
SYMMETRY Symmetry
CHECK_DEADLOCK FALSE
INVARIANTS
  TypeOK
  SavesAreFresh
  PickedUp
