CONSTANTS
  None = None
  cli = cli
  bot = bot
  watchers = watchers
  Bot = bot
  Command = {cli}
  Watcher = {watchers}
  JobId <- MCJobId
  Caller <- MCCaller
  MaxNow = 3
  Life = 2
  MaxCrashes = 1
  MaxCalls = 1
SPECIFICATION FairSpec
CHECK_DEADLOCK FALSE
INVARIANTS
  TypeOK
  JobsOnDiskAreRegistered
PROPERTIES
  OneShotsRunOnce
  KeptUntilExpiry
  StoreSpec
  ExpiredJobsLeave
