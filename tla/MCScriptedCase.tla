--------------------------- MODULE MCScriptedCase ---------------------------
(* A small instance of ScriptedCase for TLC.                               *)
EXTENDS ScriptedCase, TLC

CONSTANTS r1, r2

Repetitions == {r1, r2}
StopOnUnmocked == [r \in Repetitions |-> "error"]
Wired == [r \in Repetitions |-> TRUE]

(* A mocked lookup that returns.                                           *)
OneTool ==
  [lookup |-> <<[when |-> NoGuard, kind |-> "steps",
                 steps |-> <<[value |-> "found", isError |-> FALSE]>>]>>]

Ask == [stop |-> "tool_use", calls |-> <<[id |-> 1, name |-> "lookup", arg |-> "x"]>>]
Say == [stop |-> "end_turn", calls |-> <<>>]

AskOrSay == {Ask, Say}

AskThenSay == <<Ask, Say>>

============================================================================
