SPECIFICATION Spec
CONSTANTS
  r1 = r1
  r2 = r2
  Runs <- TwoRuns
  MaxTurns = 2
  OnUnmocked <- EitherPolicy
  Mocks <- ThreeTools
  HasInvoker <- FirstOnly
  Responses <- MixedAnswers
  NoGuard = NoGuard
  Malformed = Malformed
  None = None
INVARIANTS
  EveryCallAnswered TerminationExplained TraceIsTranscript
  SequencesPlayInOrder
PROPERTIES RunEnds
CHECK_DEADLOCK FALSE
