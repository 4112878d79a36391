-------------------------------- MODULE Json -------------------------------
(***************************************************************************)
(* JSON values, as far as the fingerprint and the assertions tell them     *)
(* apart: [atom |-> v], anything without keys, or an object [dict |-> f]   *)
(* from its keys to their values, nested at most MaxDepth deep.            *)
(***************************************************************************)
EXTENDS Naturals, FiniteSets

CONSTANTS
  Atoms,    \* what stands under a key and is not an object
  Keys,     \* the keys of objects
  MaxDepth  \* how deep objects are nested

ASSUME JsonAssumption == MaxDepth \in Nat \ {0} /\ IsFiniteSet(Keys)

IsDict(x) == "dict" \in DOMAIN x

(* The values, and the objects that hold them.                             *)
Deeper(values) == values \cup [dict : UNION {[S -> values] : S \in SUBSET Keys}]

Nested[n \in 0 .. MaxDepth] ==
  IF n = 0 THEN [atom : Atoms] ELSE Deeper(Nested[n - 1])

Values == Nested[MaxDepth]

Objects == {v \in Values : IsDict(v)}

============================================================================
