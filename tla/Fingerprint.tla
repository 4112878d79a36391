---------------------------- MODULE Fingerprint ----------------------------
(***************************************************************************)
(* The key of a cassette (domain/fingerprint.py).  A request is the        *)
(* sequence of its fields <<key, value>> in the order normalise_call_ids   *)
(* walks them; what encloses a field is a field of its own.  Everything    *)
(* that is hashed but never edited here (model, system, tools, params) is  *)
(* left out, and the truncated SHA-256 is taken to be injective.           *)
(***************************************************************************)
EXTENDS Naturals, Sequences, FiniteSets

(* _CALL_ID_KEYS: every key that any provider uses for a call id.          *)
CallIdKeys == {"id", "call_id", "tool_call_id", "tool_use_id"}

(* Only strings are mapped: not an object that stands under such a key.    *)
IdPositions(req) ==
  {i \in DOMAIN req : req[i][1] \in CallIdKeys /\ req[i][2] \notin {"{", "}"}}

(* The values that were mapped before v first appeared.                    *)
SeenBefore(req, v) ==
  {req[j][2] : j \in {k \in IdPositions(req) :
                        \A m \in IdPositions(req) : req[m][2] = v => k < m}}

(* mapping[v] = f"call_{len(mapping)}", assigned when v first appears.     *)
Placeholder(req, i) == Cardinality(SeenBefore(req, req[i][2]))

(* Faulty: ids are hashed as they are.                                     *)
normalise_nothing(req) == req

normalise_call_ids(req) ==
  [i \in DOMAIN req |->
     IF i \in IdPositions(req) THEN <<req[i][1], <<"call", Placeholder(req, i)>>>>
                               ELSE req[i]]

(* Two requests are the same up to a renaming of their ids that keeps      *)
(* apart what is different and together what is the same.                  *)
SameUpToIds(req, other) ==
  /\ Len(req) = Len(other)
  /\ IdPositions(req) = IdPositions(other)
  /\ \A i \in DOMAIN req :
       /\ req[i][1] = other[i][1]
       /\ i \notin IdPositions(req) => req[i][2] = other[i][2]
  /\ \A i, j \in IdPositions(req) : req[i][2] = req[j][2] <=> other[i][2] = other[j][2]

============================================================================
