SPECIFICATION Spec
CONSTANTS
  NumCases = 4
  Repeat <- FourRepeat
  Required <- FourRequired
  Outcomes <- AllOutcomes
  None = None
  Commands <- OneAtATime
  Provider <- FourProviders
  Known <- TwoKnown
  Passthrough <- SecondPassthrough
  Unscripted <- NoCases
  Scripted <- AllPass
  Unreadable <- NotReadable
  LiveOutcomes <- PassOrFail
  Threshold = 5
  CaseName <- TwoAlike
  MaxCols = 2
  MaxCommands = 3
INVARIANTS
  SpendsAsAgreed LiveCallsGoHome RecordedReplays ZeroMeansAllColumnsPassed
  MatrixShowsDisagreement
PROPERTIES AutoAsksOnce CommandEnds
CHECK_DEADLOCK FALSE
