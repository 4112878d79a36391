---------------------------- MODULE MCRunOutcome ---------------------------
(* A small instance of the scheduler, of what its result says and of the   *)
(* reports after it, for TLC.                                              *)
EXTENDS Reports, TLC

Outcome(t, a) == [term |-> t, asserts |-> a]

Passes == Outcome("end_turn", "passed")
Fails == Outcome("end_turn", "failed")
Raises == Outcome("none", "failed")
PassesWhenDown == Outcome("provider_error", "passed")

Mixed == {Passes, Fails, Raises, PassesWhenDown}

(* A suite of one case that is run three times and may fail once, and one  *)
(* of two plain cases.                                                     *)
TwoSuites == <<1, 2>>
ThreeRepeat == <<3, 1, 1>>
ThreeRequired == <<60, 100, 100>>

NoCases == {}

BothSinks == {"json", "junit"}

============================================================================
