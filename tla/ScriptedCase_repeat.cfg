SPECIFICATION ScriptedSpec
CONSTANTS
  r1 = r1
  r2 = r2
  Runs <- Repetitions
  MaxTurns = 3
  OnUnmocked <- StopOnUnmocked
  Mocks <- OneTool
  HasInvoker <- Wired
  Responses <- AskOrSay
  Script <- AskThenSay
  NoGuard = NoGuard
  Malformed = Malformed
  Fails = Fails
  None = None
INVARIANTS ScriptStartsFresh
CHECK_DEADLOCK FALSE
