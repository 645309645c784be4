CONSTANTS
  None = None
  bot = bot
  watchers = watchers
  cli = cli
  Bot = bot
  Command = {}
  Watcher = {}
  JobId <- MCOneJob
  Caller <- MCOneCaller
  MaxNow = 1
  Life = 1
  MaxCrashes = 1
  MaxCalls = 0
SPECIFICATION RestartedSpec
CHECK_DEADLOCK FALSE
PROPERTIES
  RestartsIntoService
