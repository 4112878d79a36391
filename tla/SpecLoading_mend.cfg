SPECIFICATION PlanningSpec
CONSTANTS
  NumFiles = 2
  Documents <- TwoFiles
  Targets <- AnyTarget
  None = None
  CasesOf <- TwoCases
  TagsOf <- TwoTags
  SuiteSays <- SuitesSay
  ProjectSays = 3
  Builtin = 4
  Scriptless <- TheGreeting
  Requests <- AllRequests
INVARIANTS EveryMistakeShows OnePassUnlessHidden PlansAsWritten
CHECK_DEADLOCK FALSE
