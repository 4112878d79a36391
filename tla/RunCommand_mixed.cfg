SPECIFICATION Spec
CONSTANTS
  NumCases = 4
  Repeat <- FourRepeat
  Required <- FourRequired
  Outcomes <- AllOutcomes
  None = None
  Commands <- BothAtOnce
  Provider <- FourProviders
  Known <- TwoKnown
  Passthrough <- SecondPassthrough
  Unscripted <- NoCases
  Scripted <- AllPass
  Unreadable <- NotReadable
  LiveOutcomes <- PassOrFail
  Threshold = 5
  CaseName <- TwoAlike
  MaxCols = 2
  MaxCommands = 2
INVARIANT LiveCallsGoHome
CHECK_DEADLOCK FALSE
