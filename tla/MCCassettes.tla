---------------------------- MODULE MCCassettes ----------------------------
(* Small instances of Cassettes for TLC.                                   *)
EXTENDS Cassettes, TLC

CONSTANTS c1, c2, q1, v1, v2

TwoCallers == {c1, c2}
TwoValues == {v1, v2}

(* Two repetitions of one case: one directory, one first request.          *)
OneCase == (c1 :> 1) @@ (c2 :> 1)
Repetitions == (c1 :> 0) @@ (c2 :> 1)
SameRequest == (c1 :> q1) @@ (c2 :> q1)

StaleFirst == {<<1, <<q1, <<>>, 0>>>>}

============================================================================
