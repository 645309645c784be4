CONSTANTS
  notes = notes
  triage = triage
  wake1 = wake1
  wake2 = wake2
  None = None
  Watcher <- MCOneWatcher
  Threads = 1
  Threshold = 1
  Wake <- MCWake
  MaxSize = 2
  MaxCrashes = 1
  MaxCommands = 0
SPECIFICATION Spec
CHECK_DEADLOCK FALSE
PROPERTIES
  DroppedInBurstsOnly
