------------------------------ MODULE MCPrune ------------------------------
(* Small instances of Prune for TLC.                                       *)
EXTENDS Prune, TLC

CONSTANTS f1, f2, s1, s2, s3, n1, n2, p1

TwoFiles == {f1, f2}
ThreeNames == {s1, s2, s3}
TwoCases == {n1, n2}
OnePrompt == {p1}

(* Files and names are interchangeable.                                    *)
Symmetric ==
  Permutations(TwoFiles) \cup Permutations(ThreeNames) \cup Permutations(TwoCases)

============================================================================
