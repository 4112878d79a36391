SPECIFICATION Spec
CONSTANTS
  Providers <- OneProvider
  Atoms <- SomeAtoms
  Keys <- KeysWithId
  MaxDepth = 2
  Tools <- TwoTools
  Answers <- OneCall
  Matches <- SomeMatches
  Mocks <- TwoIds
  CallIds <- FiveIds
  TurnLimit = 2
  MaxRuns = 3
INVARIANT ServedForThisConversation
CHECK_DEADLOCK FALSE
