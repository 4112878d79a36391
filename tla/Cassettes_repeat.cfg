SPECIFICATION Spec
CONSTANTS
  c1 = c1
  c2 = c2
  q1 = q1
  v1 = v1
  v2 = v2
  None = None
  Callers <- TwoCallers
  CaseOf <- OneCase
  RepeatOf <- Repetitions
  FirstRequest <- SameRequest
  Turns = 2
  MaxSessions = 2
  Stale <- StaleFirst
  MaxRetries = 1
  Values <- TwoValues
INVARIANTS ReplayReproduces
PROPERTIES RecordingSurvives SessionEnds ImplementsModes
CHECK_DEADLOCK FALSE
