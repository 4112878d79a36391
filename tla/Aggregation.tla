---------------------------- MODULE Aggregation ----------------------------
(***************************************************************************)
(* What the scheduler publishes about one case: how the N repetitions of a *)
(* case fold into one CaseResult (application/scheduler.py, _aggregate).   *)
(*                                                                         *)
(* A case is its position in the flat list of planned cases; a unit        *)
(* <<c, r>> is repetition r of case c.  The outcome of one repetition is   *)
(* the termination of its trace ("none" when the case raised and has no    *)
(* trace) and what its assertions said; an llm_judge assertion whose judge *)
(* could not grade is told apart from one that failed.                     *)
(***************************************************************************)
EXTENDS Integers, FiniteSets, Sequences

CONSTANTS
  NumCases,  \* how many cases the run plans
  Repeat,    \* Repeat[c]: the repetitions of case c
  Required,  \* Required[c]: require_pass_rate of case c, in percent
  Outcomes,  \* the outcomes a repetition can have in this model
  None       \* the absent value of a slot or a result

Cases == 1 .. NumCases

Terminations ==
  {"end_turn", "max_turns_exceeded", "max_tokens", "refusal",
   "unmocked_tool", "provider_error", "none"}

ASSUME AggregationAssumption ==
  /\ NumCases \in Nat
  /\ Repeat \in [Cases -> Nat \ {0}]     \* spec/models.py: repeat has ge=1
  /\ Required \in [Cases -> 0 .. 100]
  /\ Outcomes \subseteq [term : Terminations,
                         asserts : {"passed", "failed", "judge_error"}]

Units == UNION {{<<c, r>> : r \in 0 .. Repeat[c] - 1} : c \in Cases}

(* all(a.passed for a in assertions) for a case that has a trace; a case    *)
(* that raised is a failed CaseResult.                                     *)
Passed(o) == o.term # "none" /\ o.asserts = "passed"

(* A CaseResult: whether the case passed and the outcome its `trace`,      *)
(* `assertions` and `error` fields show.                                   *)
Results == [passed : BOOLEAN, shown : Outcomes]

ASSUME NoneAssumption ==
  /\ None \notin Units
  /\ None \notin Outcomes
  /\ None \notin Results

-----------------------------------------------------------------------------

Filled(slots, c) == {r \in 0 .. Repeat[c] - 1 : slots[<<c, r>>] # None}

AllFilled(slots, c) == \A r \in 0 .. Repeat[c] - 1 : slots[<<c, r>>] # None

Passing(slots, c) == {r \in 0 .. Repeat[c] - 1 : Passed(slots[<<c, r>>])}

(* The first failing repetition, or repetition 0 when all passed.          *)
Representative(passing, c) ==
  LET failing == (0 .. Repeat[c] - 1) \ passing
  IN  IF failing = {} THEN 0
      ELSE CHOOSE r \in failing : \A q \in failing : r <= q

(* k/N >= require_pass_rate, over the integers.                            *)
MeetsRate(passing, c) ==
  100 * Cardinality(passing) >= Required[c] * Repeat[c]

(* With one repetition the sole result is returned unchanged, whatever     *)
(* require_pass_rate says.                                                 *)
Aggregate(slots, c) ==
  [passed |-> IF Repeat[c] = 1 THEN Passed(slots[<<c, 0>>])
                               ELSE MeetsRate(Passing(slots, c), c),
   shown  |-> slots[<<c, Representative(Passing(slots, c), c)>>]]

============================================================================
