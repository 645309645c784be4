CONSTANTS
  eng = eng
  req1 = req1
  None = None
  Channel <- MCChannel
  Scheduled <- MCChannel
  Cross <- MCChannel
  Request <- MCRequest
  Noise <- MCNoise
  Limit = 2
  MaxPosted = 3
  MaxFailures = 1
  MaxRestarts = 1
SPECIFICATION FairSpec
INVARIANTS
  TypeOK
  MarkIsCovered
  StoredOnce
PROPERTIES
  OnlyGrows
  RequestsAnswered
  ScheduledCatchUp
