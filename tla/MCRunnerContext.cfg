SPECIFICATION ContextSpec
CONSTANTS
  Answers <- SomeAnswers
  ContextLimit = 5
  TrimTarget = 4
  KeepRecent = 3
  ShotsKept = 1
  BackoffCap = 3
  MaxHistory = 12
  MaxRestarts = 1
INVARIANTS ResultsKeepTheirCalls
CHECK_DEADLOCK FALSE
