SPECIFICATION Spec
CONSTANTS
  Providers <- AllProviders
  Atoms <- SomeAtoms
  Keys <- SomeKeys
  MaxDepth = 2
  Tools <- TwoTools
  Answers <- MixedAnswers
  Matches <- SomeMatches
  Mocks <- TwoMocks
  CallIds <- FiveIds
  TurnLimit = 3
  MaxRuns = 3
INVARIANTS ServedForThisConversation RecordedIsFound WireAnswersEveryCall AssertionsMeanWhatTheySay
PROPERTY VerdictsSettle
CHECK_DEADLOCK FALSE
