----------------------------- MODULE Scheduler -----------------------------
(***************************************************************************)
(* The concurrent case scheduler (application/scheduler.py, run_suites): a *)
(* pool of asyncio tasks that pull units from one shared iterator, run     *)
(* each through _process_case, put the outcome in the unit's own slot,     *)
(* aggregate the case when its last slot fills, and under fail-fast cancel *)
(* each other when a case fails.                                           *)
(*                                                                         *)
(* A step is what a task does between two suspensions: the body of the     *)
(* loop after `await _process_case(...)` up to and including the pull of   *)
(* the next unit.  What happens inside _process_case (the agent loop, the  *)
(* pricing and the judge) is one suspension that ends with an outcome.     *)
(***************************************************************************)
EXTENDS Aggregation

CONSTANTS
  Concurrency,  \* the `concurrency` argument, any integer
  FailFast,     \* the `fail_fast` argument
  Escapes       \* cases whose own tool code may raise CancelledError

ASSUME SchedulerAssumption ==
  /\ Concurrency \in Int
  /\ FailFast \in BOOLEAN
  /\ Escapes \subseteq Cases

VARIABLES
  next,      \* the unit the shared iterator yields next
  state,     \* the state of each worker task
  held,      \* the unit a worker is processing
  slots,     \* rep_slots
  filled,    \* rep_filled
  results,   \* case_results
  progress,  \* the cases on_progress has been called for, in order
  returned   \* gather has returned and the RunResult is built

vars == <<next, state, held, slots, filled, results, progress, returned>>

-----------------------------------------------------------------------------

(* The flat list of units is ordered by case, then by repetition; the      *)
(* iterator over it is the unit to yield next, or Exhausted.               *)
Exhausted == <<NumCases + 1, 0>>

FirstUnit == <<1, 0>>

After(u) == IF u[2] + 1 < Repeat[u[1]] THEN <<u[1], u[2] + 1>>
                                       ELSE <<u[1] + 1, 0>>

Before(u, v) == u[1] < v[1] \/ (u[1] = v[1] /\ u[2] < v[2])

(* range(n_workers); a negative bound creates no task at all.              *)
Workers ==
  1 .. (IF Concurrency < Cardinality(Units) THEN Concurrency
                                            ELSE Cardinality(Units))

Init ==
  /\ next = FirstUnit
  /\ state = [w \in Workers |-> "new"]
  /\ held = [w \in Workers |-> None]
  /\ slots = [u \in Units |-> None]
  /\ filled = [c \in Cases |-> 0]
  /\ results = [c \in Cases |-> None]
  /\ progress = <<>>
  /\ returned = FALSE

-----------------------------------------------------------------------------

(* `for ui in pending`: take the next unit, or leave the loop.             *)
Pull(w) ==
  IF next = Exhausted
  THEN /\ state' = [state EXCEPT ![w] = "done"]
       /\ held' = [held EXCEPT ![w] = None]
       /\ UNCHANGED next
  ELSE /\ state' = [state EXCEPT ![w] = "busy"]
       /\ held' = [held EXCEPT ![w] = next]
       /\ next' = After(next)

(* The event loop first runs the task.                                     *)
Start(w) ==
  /\ state[w] = "new"
  /\ Pull(w)
  /\ UNCHANGED <<slots, filled, results, progress, returned>>

(* The outcome lands in its slot; nothing else runs until the next await.  *)
Deposit(w, o) ==
  /\ state[w] = "busy"
  /\ slots' = [slots EXCEPT ![held[w]] = o]
  /\ filled' = [filled EXCEPT ![held[w][1]] = @ + 1]
  /\ UNCHANGED returned

(* Faulty: the worker leaves the loop where it should `continue`.          *)
FinishRepetitionLeaving(w, o) ==
  /\ Deposit(w, o)
  /\ filled'[held[w][1]] < Repeat[held[w][1]]
  /\ state' = [state EXCEPT ![w] = "done"]
  /\ held' = [held EXCEPT ![w] = None]
  /\ UNCHANGED <<next, results, progress>>

(* The case still has repetitions to run.                                  *)
FinishRepetition(w, o) ==
  /\ Deposit(w, o)
  /\ filled'[held[w][1]] < Repeat[held[w][1]]
  /\ Pull(w)
  /\ UNCHANGED <<results, progress>>

Publish(w, o) ==
  LET c == held[w][1] IN
    /\ Deposit(w, o)
    /\ ~ (filled'[c] < Repeat[c])
    /\ results' = [results EXCEPT ![c] = Aggregate(slots', c)]
    /\ progress' = Append(progress, c)

(* Faulty: a worker that completed a case returns.                         *)
FinishCaseLeaving(w, o) ==
  /\ Publish(w, o)
  /\ ~ (FailFast /\ ~results'[held[w][1]].passed)
  /\ state' = [state EXCEPT ![w] = "done"]
  /\ held' = [held EXCEPT ![w] = None]
  /\ UNCHANGED next

(* The last repetition of a case, and the run goes on.                     *)
FinishCase(w, o) ==
  /\ Publish(w, o)
  /\ ~ (FailFast /\ ~results'[held[w][1]].passed)
  /\ Pull(w)

(* Faulty: the worker leaves without cancelling the others.                *)
FinishCaseAndLeave(w, o) ==
  /\ Publish(w, o)
  /\ FailFast /\ ~results'[held[w][1]].passed
  /\ state' = [state EXCEPT ![w] = "done"]
  /\ held' = [held EXCEPT ![w] = None]
  /\ UNCHANGED next

(* The last repetition of a case that failed, under fail-fast: cancel      *)
(* every other task and leave.                                             *)
FinishCaseAndStop(w, o) ==
  /\ Publish(w, o)
  /\ FailFast /\ ~results'[held[w][1]].passed
  /\ state' = [v \in Workers |->
                 IF v = w \/ state[v] = "done" THEN "done" ELSE "cancelling"]
  /\ held' = [held EXCEPT ![w] = None]
  /\ UNCHANGED next

(* Faulty: the cancellation is caught and the loop goes on.                *)
UnwindAndContinue(w) ==
  /\ state[w] = "cancelling"
  /\ Pull(w)
  /\ UNCHANGED <<slots, filled, results, progress, returned>>

(* A cancelled task resumes with CancelledError, at its await or before    *)
(* its first line; _process_case re-raises it and the unit has no result.  *)
Unwind(w) ==
  /\ state[w] = "cancelling"
  /\ state' = [state EXCEPT ![w] = "done"]
  /\ held' = [held EXCEPT ![w] = None]
  /\ UNCHANGED <<next, slots, filled, results, progress, returned>>

(* Faulty: a task that dies takes the others with it, as in a TaskGroup.   *)
EscapeStoppingAll(w) ==
  /\ state[w] = "busy"
  /\ held[w][1] \in Escapes
  /\ state' = [v \in Workers |->
                 IF v = w \/ state[v] = "done" THEN "done" ELSE "cancelling"]
  /\ held' = [held EXCEPT ![w] = None]
  /\ UNCHANGED <<next, slots, filled, results, progress, returned>>

(* Tool code of the case raises CancelledError itself: neither the invoker *)
(* nor _process_case catches it, and it ends the task; gather swallows it. *)
Escape(w) ==
  /\ state[w] = "busy"
  /\ held[w][1] \in Escapes
  /\ state' = [state EXCEPT ![w] = "done"]
  /\ held' = [held EXCEPT ![w] = None]
  /\ UNCHANGED <<next, slots, filled, results, progress, returned>>

(* gather returns when every task has ended.                               *)
Return ==
  /\ ~returned
  /\ \A w \in Workers : state[w] = "done"
  /\ returned' = TRUE
  /\ UNCHANGED <<next, state, held, slots, filled, results, progress>>

Worker(w) ==
  \/ Start(w)
  \/ \E o \in Outcomes :
       \/ FinishRepetition(w, o)
       \/ FinishCase(w, o)
       \/ FinishCaseAndStop(w, o)
  \/ Unwind(w)
  \/ Escape(w)

Next == Return \/ \E w \in Workers : Worker(w)

(* The event loop runs every ready task, and every _process_case ends: the *)
(* provider clients and the passthrough invoker bound their waits, and the *)
(* agent loop its turns.                                                   *)
Spec == Init /\ [][Next]_vars /\ WF_vars(Return)
             /\ \A w \in Workers : WF_vars(Worker(w))

-----------------------------------------------------------------------------

Tripped == FailFast /\ \E c \in Cases : results[c] # None /\ ~results[c].passed

(* RunResult.complete.                                                     *)
Complete == \A c \in Cases : results[c] # None

TypeOK ==
  /\ next \in Units \cup {Exhausted}
  /\ state \in [Workers -> {"new", "busy", "cancelling", "done"}]
  /\ held \in [Workers -> Units \cup {None}]
  /\ slots \in [Units -> Outcomes \cup {None}]
  /\ filled \in [Cases -> Nat]
  /\ results \in [Cases -> Results \cup {None}]
  /\ progress \in Seq(Cases)
  /\ returned \in BOOLEAN

(* No repetition runs twice: two workers never hold the same unit, and the *)
(* slot of a unit in flight is still empty ("no two workers ever get the   *)
(* same index" rests on the shared iterator and on each pull being one     *)
(* step).                                                                  *)
ClaimedOnce ==
  \A w \in Workers :
    held[w] # None =>
      /\ slots[held[w]] = None
      /\ \A v \in Workers : v # w => held[v] # held[w]

(* A case is published exactly when all its repetitions are in, with the   *)
(* aggregate of the outcomes in its own slots, whichever worker finished   *)
(* last and in whatever order; the counter rep_filled decides it.          *)
ResultsMatchSlots ==
  \A c \in Cases :
    results[c] = IF AllFilled(slots, c) THEN Aggregate(slots, c) ELSE None

(* on_progress is called once per published case, never for another.       *)
ProgressOncePerCase ==
  /\ \A i, j \in DOMAIN progress : progress[i] = progress[j] => i = j
  /\ {progress[i] : i \in DOMAIN progress} = {c \in Cases : results[c] # None}

(* No worker leaves while the iterator still has units, unless fail-fast   *)
(* stopped the run or the case's own code ended the task.                  *)
NoWorkerLeavesEarly ==
  Escapes = {} /\ ~Tripped =>
    \A w \in Workers : state[w] = "done" => next = Exhausted

(* No unit is lost: a run that no failed case stopped and no tool code     *)
(* escaped from returns with a result for every case (complete=True).      *)
NothingLost ==
  returned /\ Escapes = {} /\ Concurrency > 0 /\ ~Tripped => Complete

(* Once a failed case has stopped a fail-fast run, nothing lands any more: *)
(* units in flight end with no result, and at most one failing case is     *)
(* ever reported.                                                          *)
NothingLandsAfterStop ==
  [][Tripped => UNCHANGED <<slots, results, progress>>]_vars

(* Tool code that escapes costs its task and the one unit in flight: the   *)
(* other workers drain the iterator, and units stay in it only while every *)
(* task that has ended was ended this way.                                 *)
EscapeCostsOneUnit ==
  LET lost == {u \in Units : /\ Before(u, next)
                             /\ slots[u] = None
                             /\ \A w \in Workers : held[w] # u}
      ended == {w \in Workers : state[w] = "done"}
  IN  ~Tripped => /\ Cardinality(lost) <= Cardinality(ended)
                  /\ next # Exhausted => Cardinality(lost) = Cardinality(ended)

-----------------------------------------------------------------------------
(* The inductive invariant behind the theorems of SchedulerProofs.         *)

(* rep_filled counts the filled slots.                                     *)
CountersMatch ==
  \A c \in Cases : filled[c] = Cardinality(Filled(slots, c))

(* Only a task at its await holds a unit.                                  *)
HeldMatchesState ==
  \A w \in Workers :
    /\ state[w] = "busy" => held[w] # None
    /\ state[w] \in {"new", "done"} => held[w] = None

(* Claims and outcomes lie behind the iterator.                            *)
ClaimsBehind ==
  /\ \A w \in Workers : held[w] # None => Before(held[w], next)
  /\ \A u \in Units : slots[u] # None => Before(u, next)

(* Cancellation happens exactly in a stopped run, and reaches every task.  *)
StopReachesAll ==
  \A w \in Workers :
    IF Tripped THEN state[w] \in {"cancelling", "done"}
               ELSE state[w] # "cancelling"

(* What the iterator yielded is in flight or in its slot.                  *)
ClaimsKept ==
  Escapes = {} /\ ~Tripped =>
    \A u \in Units :
      Before(u, next) /\ slots[u] = None => \E w \in Workers : held[w] = u

ReturnedLast == returned => \A w \in Workers : state[w] = "done"

IInv ==
  /\ TypeOK
  /\ ClaimedOnce
  /\ ResultsMatchSlots
  /\ NoWorkerLeavesEarly
  /\ CountersMatch
  /\ HeldMatchesState
  /\ ClaimsBehind
  /\ StopReachesAll
  /\ ClaimsKept
  /\ ReturnedLast

-----------------------------------------------------------------------------

Contract == INSTANCE RunContract

(* The pool does what the contract of run_suites promises.                 *)
ImplementsContract == Contract!Spec

============================================================================
