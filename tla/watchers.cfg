CONSTANTS
  notes = notes
  triage = triage
  wake1 = wake1
  wake2 = wake2
  None = None
  Watcher <- MCWatcher
  Threads = 2
  Threshold = 1
  Wake <- MCWake
  MaxSize = 2
  MaxCrashes = 1
  MaxCommands = 1
SPECIFICATION FairSpec
CHECK_DEADLOCK FALSE
INVARIANTS
  TypeOK
  SweepsAreComplete
  SkillsArePaidFor
PROPERTIES
  WakesAreTaken
