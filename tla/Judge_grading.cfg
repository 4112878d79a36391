SPECIFICATION Spec
CONSTANTS
  c1 = c1
  c2 = c2
  Cases <- TwoCases
  Expect <- TripletAndPlain
  Limit = 2
  Scores = {2}
  MaxSessions = 2
  None = None
INVARIANTS PermitsBalanced PassedOnOwnTerms ReplayKeepsOutcomes
PROPERTIES JudgingEnds
CHECK_DEADLOCK FALSE
