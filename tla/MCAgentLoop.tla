---------------------------- MODULE MCAgentLoop ----------------------------
(* Small instances of AgentLoop for TLC.                                   *)
EXTENDS AgentLoop, TLC

CONSTANTS r1, r2

Delivers(v, e) == [value |-> v, isError |-> e]

Rule(when, steps) == [when |-> when, kind |-> "steps", steps |-> steps]
Passthrough == [when |-> NoGuard, kind |-> "passthrough", steps |-> <<>>]

(* "lookup" fails once on "x" and then recovers, and answers anything else *)
(* from a catch-all; "act" runs real code; "void" has an empty sequence.   *)
ThreeTools ==
  [lookup |-> <<Rule({"x"}, <<Delivers("down", TRUE), Delivers("up", FALSE)>>),
                Rule(NoGuard, <<Delivers("any", FALSE)>>)>>,
   act    |-> <<Passthrough>>,
   void   |-> <<Rule(NoGuard, <<>>)>>]

Call(id, name, arg) == [id |-> id, name |-> name, arg |-> arg]

X == Call(1, "lookup", "x")
Y == Call(2, "lookup", "y")
Bad == Call(3, "lookup", Malformed)
Act == Call(4, "act", "x")
Other == Call(5, "other", "x")
Void == Call(6, "void", "x")

Ask(calls) == [stop |-> "tool_use", calls |-> calls]
Say(stop) == [stop |-> stop, calls |-> <<>>]

TwoRuns == {r1, r2}

(* A run of `dryfire run` under each policy, the second without the        *)
(* invoker, which `dryfire trace` does not wire.                           *)
EitherPolicy == (r1 :> "error") @@ (r2 :> "null")
FirstOnly == (r1 :> TRUE) @@ (r2 :> FALSE)

MixedAnswers ==
  {Say("end_turn"), Say("refusal"), Say("error"), Say("stop_sequence"),
   [stop |-> "max_tokens", calls |-> <<X>>],
   Ask(<<X, Act>>), Ask(<<Y, Other, X>>), Ask(<<>>),
   Ask(<<X, Bad>>), Ask(<<Other, Y, X, X>>), Ask(<<Void>>)}

============================================================================
