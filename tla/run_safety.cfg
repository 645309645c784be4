CONSTANTS
  run1 = run1
  run2 = run2
  None = None
  Run <- MCOneRun
  MaxRounds = 2
  MaxCalls = 2
  MaxEdits = 1
SPECIFICATION Spec
CHECK_DEADLOCK FALSE
INVARIANTS
  TypeOK
  ConversationWellFormed
  ActionsAreReported
  CardsAreNotDenied
  NeverSilent
  OutcomesAreLogged
