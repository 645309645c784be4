CONSTANTS
  eng = eng
  req1 = req1
  None = None
  Channel <- MCChannel
  Scheduled <- MCChannel
  Cross <- MCNone
  Request <- MCRequest
  Noise <- MCNone
  Limit = 2
  MaxPosted = 2
  MaxFailures = 0
  MaxRestarts = 1
SPECIFICATION Spec
INVARIANTS
  ServedFromIndex
