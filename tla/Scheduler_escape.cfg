SPECIFICATION Spec
CONSTANTS
  NumCases = 3
  Repeat <- MixedRepeat
  Required <- MixedRequired
  None = None
  Concurrency = 3
  Outcomes <- PassOrFail
  FailFast = TRUE
  Escapes <- LastCases
INVARIANTS EscapeCostsOneUnit
CHECK_DEADLOCK FALSE
