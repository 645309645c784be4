CONSTANTS
  run1 = run1
  run2 = run2
  None = None
  Run <- MCTwoRuns
  MaxRounds = 1
  MaxCalls = 1
  MaxEdits = 0
SPECIFICATION FairSpec
CHECK_DEADLOCK FALSE
PROPERTIES
  RunsEnd
