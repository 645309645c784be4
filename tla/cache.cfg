CONSTANTS
  bot = bot
  consumer = consumer
  call1 = call1
  call2 = call2
  call3 = call3
  Empty = Empty
  Torn = Torn
  None = None
  Process <- MCProcess
  Call <- MCCall
  Ttl = 1
  MaxNow = 2
  MaxRenames = 1
  MaxFailures = 1
  MaxCrashes = 1
SPECIFICATION Spec
SYMMETRY Symmetry
CHECK_DEADLOCK FALSE
INVARIANTS
  TypeOK
  NeverStale
  SoleWriterIsSafe
