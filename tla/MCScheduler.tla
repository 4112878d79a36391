---------------------------- MODULE MCScheduler ----------------------------
(* A small instance of Scheduler for TLC.                                  *)
EXTENDS Scheduler, TLC

PassOrFail == {[term |-> "end_turn", asserts |-> a] : a \in {"passed", "failed"}}

(* A plain case, then two repeated ones: one that tolerates a failure.     *)
MixedRepeat == <<1, 2, 3>>
MixedRequired == <<100, 100, 60>>

LastCases == {2, 3}

============================================================================
