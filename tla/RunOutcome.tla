---------------------------- MODULE RunOutcome -----------------------------
(***************************************************************************)
(* What a run shows to its caller: the results regrouped by suite          *)
(* (application/scheduler.py, _group), the exit code (composition.py,      *)
(* _exit_code) and the JUnit classification of a case (junit_sink.py,      *)
(* _classify), all computed from what the Scheduler published.             *)
(***************************************************************************)
EXTENDS Scheduler, SequencesExt

CONSTANT SuiteSizes  \* how many cases each planned suite has, in spec order

ASSUME SuiteAssumption ==
  /\ SuiteSizes \in Seq(Nat \ {0})   \* a filtered-away suite is dropped
  /\ FoldLeft(LAMBDA a, b : a + b, 0, SuiteSizes) = NumCases

-----------------------------------------------------------------------------

(* Faulty: the index does not move past a cancelled case.                  *)
TakePublished(acc, k) ==
  IF results[acc.idx + 1] # None
  THEN [idx |-> acc.idx + 1, kept |-> Append(acc.kept, acc.idx + 1)]
  ELSE acc

(* _group walks the suites with one index into case_results: it advances   *)
(* for every planned case and keeps the published ones.                    *)
TakeCase(acc, k) ==
  [idx  |-> acc.idx + 1,
   kept |-> IF results[acc.idx + 1] # None THEN Append(acc.kept, acc.idx + 1)
                                           ELSE acc.kept]

TakeSuite(acc, size) ==
  LET suite == FoldLeft(TakeCase, [idx |-> acc.idx, kept |-> <<>>],
                        [k \in 1 .. size |-> k])
  IN  [idx |-> suite.idx, groups |-> Append(acc.groups, suite.kept)]

(* RunResult.suites: the cases listed under each suite.                    *)
Group == FoldLeft(TakeSuite, [idx |-> 0, groups |-> <<>>], SuiteSizes).groups

Listed == UNION {ToSet(Group[s]) : s \in DOMAIN Group}

(* Faulty: exit 1 only when every case failed.                             *)
ExitCodeOfAll ==
  IF \E c \in Listed : results[c].shown.term = "provider_error" THEN 3
  ELSE IF \A c \in Listed : ~results[c].passed THEN 1
  ELSE 0

(* _exit_code: 3 before 1 before 0, over the listed cases.                 *)
ExitCode ==
  IF \E c \in Listed : results[c].shown.term = "provider_error" THEN 3
  ELSE IF \E c \in Listed : ~results[c].passed THEN 1
  ELSE 0

(* Faulty: looks at `passed` first.                                        *)
ClassifyPassedFirst(c) ==
  IF results[c].passed THEN "pass"
  ELSE IF results[c].shown.term \in {"provider_error", "unmocked_tool", "none"}
    THEN "error"
  ELSE "failure"

(* _classify: how JUnit shows a case; `error` is set when the shown        *)
(* repetition raised.                                                      *)
Classify(c) ==
  IF results[c].shown.term \in {"provider_error", "unmocked_tool", "none"}
    THEN "error"
  ELSE IF ~results[c].passed THEN "failure"
  ELSE "pass"

-----------------------------------------------------------------------------

(* The suite a case was planned in, and its place there, counted directly. *)
FirstOf(s) == 1 + FoldLeft(LAMBDA a, b : a + b, 0, SubSeq(SuiteSizes, 1, s - 1))

PlannedIn(s) == FirstOf(s) .. FirstOf(s) + SuiteSizes[s] - 1

(* Results come back in spec order and under their own suite, whatever     *)
(* order the cases completed in and whichever were cancelled.              *)
ReportInSpecOrder ==
  returned =>
    /\ Len(Group) = Len(SuiteSizes)
    /\ \A s \in DOMAIN Group :
         /\ ToSet(Group[s]) = {c \in PlannedIn(s) : results[c] # None}
         /\ \A i, j \in DOMAIN Group[s] : i < j => Group[s][i] < Group[s][j]

(* Exit code 0 means "All cases passed" (SPEC.md 7.1): every planned case  *)
(* ran to a result that passed.                                            *)
ExitZeroMeansAllPassed ==
  returned /\ ExitCode = 0 =>
    \A c \in Cases : results[c] # None /\ results[c].passed

============================================================================
