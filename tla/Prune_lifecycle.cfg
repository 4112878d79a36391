SPECIFICATION Spec
CONSTANTS
  f1 = f1
  f2 = f2
  s1 = s1
  s2 = s2
  s3 = s3
  n1 = n1
  n2 = n2
  p1 = p1
  Files <- TwoFiles
  Globbed <- TwoFiles
  SuiteNames <- ThreeNames
  CaseNames <- TwoCases
  Prompts <- OnePrompt
  MaxUpgrades = 1
SYMMETRY Symmetric
INVARIANTS OwnRecordingsReplay
PROPERTIES PruneTakesTheDead
CHECK_DEADLOCK FALSE
