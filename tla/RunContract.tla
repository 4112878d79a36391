---------------------------- MODULE RunContract ----------------------------
(***************************************************************************)
(* What run_suites promises, with no workers in it: repetitions finish in  *)
(* any order, each at most once; a case is published in the step in which  *)
(* its last repetition lands; nothing lands after a failed case under      *)
(* fail-fast; the run returns when every case is published, or when        *)
(* fail-fast stopped it.                                                   *)
(***************************************************************************)
EXTENDS Aggregation

CONSTANT FailFast

VARIABLES slots, results, returned

vars == <<slots, results, returned>>

Failing(c) == results[c] # None /\ ~results[c].passed

Stopped == FailFast /\ \E c \in Cases : Failing(c)

Init ==
  /\ slots = [u \in Units |-> None]
  /\ results = [c \in Cases |-> None]
  /\ returned = FALSE

(* Repetition u ends with outcome o.                                       *)
Land(u, o) ==
  /\ ~returned
  /\ ~Stopped
  /\ slots[u] = None
  /\ slots' = [slots EXCEPT ![u] = o]
  /\ results' = IF AllFilled(slots', u[1])
                THEN [results EXCEPT ![u[1]] = Aggregate(slots', u[1])]
                ELSE results
  /\ UNCHANGED returned

Return ==
  /\ ~returned
  /\ Stopped \/ \A c \in Cases : results[c] # None
  /\ returned' = TRUE
  /\ UNCHANGED <<slots, results>>

Next == Return \/ \E u \in Units, o \in Outcomes : Land(u, o)

(* Every repetition ends and the run returns.                              *)
Spec == Init /\ [][Next]_vars /\ WF_vars(Next)

============================================================================
