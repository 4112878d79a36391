------------------------------ MODULE MCJudge ------------------------------
(* Small instances of Judge for TLC.                                       *)
EXTENDS Judge, TLC

CONSTANTS c1, c2

Asks(text, threshold) == [text |-> text, model |-> "judge", threshold |-> threshold]

TwoCases == {c1, c2}

(* One case with three rubrics of one text, and one with another text: two *)
(* gradings hold the permits, one waits, and a fourth one arrives.         *)
TripletAndPlain ==
  (c1 :> <<Asks("polite", 2), Asks("polite", 3), Asks("polite", 4)>>)
    @@ (c2 :> <<Asks("correct", 2)>>)

============================================================================
