------------------------------- MODULE Judge -------------------------------
(***************************************************************************)
(* Grading by an LLM (application/judging/evaluator.py): after its agent   *)
(* loop a repetition has its llm_judge assertions graded, each by a task   *)
(* of its own, under one semaphore for the whole run, through its own      *)
(* gateway and thus through the cassettes.  The assertions then read the   *)
(* verdicts by key (domain/assertions/judge.py).  A fail-fast stop cancels *)
(* the gradings of unfinished cases; one that raises ends its case while   *)
(* the others of the case go on.                                           *)
(*                                                                         *)
(* The semaphore is asyncio's (Python 3.12, and 3.13 where they differ):   *)
(* release gives the permit to a waiter at once, whose task resumes later. *)
(*                                                                         *)
(* A judge request is the judge model, the rubric text and the transcript  *)
(* of the case: the transcript stands for the case (each case a directory  *)
(* and a transcript of its own, the same in every session).                *)
(***************************************************************************)
EXTENDS Integers, FiniteSets, Sequences, SequencesExt

CONSTANTS
  Cases,        \* the cases of a run, one repetition each
  Expect,       \* Expect[c]: its llm_judge assertions, [text, model, threshold]
  Limit,        \* DEFAULT_JUDGE_CONCURRENCY
  Scores,       \* the scores a judge may give
  MaxSessions,  \* bound on the runs of a behaviour
  None

ASSUME JudgeAssumption ==
  /\ IsFiniteSet(Cases)
  /\ \A c \in Cases : Expect[c] \in Seq(ToSet(Expect[c]))
  /\ Limit \in Nat \ {0}
  /\ Scores \subseteq Int
  /\ MaxSessions \in Nat

VARIABLES
  run,       \* the session: [mode, failFast, number]
  stage,     \* of each case
  task,      \* of each grading
  permits,   \* the semaphore's _value
  queue,     \* its _waiters, the cancelled ones among them
  doomed,    \* the cancelled gradings that have not unwound yet
  graded,    \* what each grading got
  outcome,   \* the results of the judged assertions of a reported case
  store,     \* the cassettes
  baseline   \* history: outcomes of the latest session that records

vars == <<run, stage, task, permits, queue, doomed, graded, outcome, store, baseline>>

-----------------------------------------------------------------------------

Modes == {"auto", "record", "replay"}

(* Faulty: the hash of the rubric leaves the threshold out.                *)
judge_key_untuned(a) == <<a.model, a.text>>

judge_key(a) == <<a.model, a.text, a.threshold>>

(* collect_judge_requests: identical assertions share one request.         *)
Requests(c) == {judge_key(Expect[c][i]) : i \in DOMAIN Expect[c]}

(* The rubric of a request is that of the first assertion with its key.    *)
Rubric(c, key) ==
  Expect[c][CHOOSE i \in DOMAIN Expect[c] :
              /\ judge_key(Expect[c][i]) = key
              /\ \A j \in DOMAIN Expect[c] : judge_key(Expect[c][j]) = key => i <= j]

Gradings == UNION {{c} \X Requests(c) : c \in Cases}

Of(c) == {g \in Gradings : g[1] = c}

(* The fingerprint of the completion request: the prompt has the text of   *)
(* the rubric in it, not its threshold.                                    *)
Fingerprint(g) == <<g[1], g[2][1], g[2][2]>>

(* A judge's response: a score, no JSON object with one, or a number that  *)
(* float() cannot take (OverflowError, which _parse does not catch).       *)
Answers ==
  [kind : {"score"}, score : Scores] \cup [kind : {"unparseable", "overflow"}]

Down == [kind |-> "down"]

ASSUME NoneAssumption == None \notin Answers

(* JudgeVerdict: a score passes at the threshold of its rubric, an error   *)
(* never does.                                                             *)
Verdict(got, rubric) ==
  [error |-> got.kind # "score",
   passed |-> got.kind = "score" /\ got.score >= rubric.threshold]

(* LlmJudge.evaluate over the verdict of one request.                      *)
Result(c, key) ==
  LET verdict == Verdict(graded[<<c, key>>], Rubric(c, key))
  IN  IF verdict.error THEN "judge_error"
      ELSE IF verdict.passed THEN "passed" ELSE "failed"

Finished == {"reported", "cancelled"}

Idle == {"none", "ended", "raised", "cancelled"}

Init ==
  /\ run \in [mode : Modes, failFast : BOOLEAN, number : {1}]
  /\ stage = [c \in Cases |-> "agent"]
  /\ task = [g \in Gradings |-> "none"]
  /\ graded = [g \in Gradings |-> None]
  /\ outcome = [c \in Cases |-> None]
  /\ permits = Limit
  /\ queue = <<>>
  /\ doomed = {}
  /\ store = [f \in {Fingerprint(g) : g \in Gradings} |-> None]
  /\ baseline = [c \in Cases |-> None]

-----------------------------------------------------------------------------
(* A case.                                                                 *)

(* The agent loop is over; gather makes a task of each request.            *)
Enter(c) ==
  /\ stage[c] = "agent"
  /\ stage' = [stage EXCEPT ![c] = "judging"]
  /\ task' = [g \in Gradings |-> IF g[1] = c THEN "new" ELSE task[g]]
  /\ UNCHANGED <<run, permits, queue, doomed, graded, outcome, store, baseline>>

(* The worker publishes the case, and under fail-fast a failed one cancels *)
(* the others.                                                             *)
Publish(c, o) ==
  LET stop == run.failFast /\ (o.raised \/ \E i \in DOMAIN o.results : o.results[i] # "passed")
      others == {d \in Cases \ {c} : stage[d] \notin Finished}
      cut == {g \in Gradings : g[1] \in others /\ task[g] \notin Idle}
  IN  /\ outcome' = [outcome EXCEPT ![c] = o]
      /\ stage' = [d \in Cases |-> IF d = c THEN "reported"
                                   ELSE IF stop /\ d \in others THEN "cancelled"
                                   ELSE stage[d]]
      /\ doomed' = IF stop THEN doomed \cup cut ELSE doomed

(* evaluate returns once every grading has ended; a failure of the judge's *)
(* provider is no recording.                                               *)
Report(c) ==
  /\ stage[c] = "judging"
  /\ \A g \in Of(c) : task[g] = "ended"
  /\ LET o == [raised  |-> FALSE,
               results |-> [i \in DOMAIN Expect[c] |-> Result(c, judge_key(Expect[c][i]))]]
     IN  /\ Publish(c, o)
         /\ baseline' = IF run.mode # "replay" /\ \A g \in Of(c) : graded[g] # Down
                        THEN [baseline EXCEPT ![c] = o] ELSE baseline
  /\ UNCHANGED <<run, task, permits, queue, graded, store>>

(* gather passes on the first exception at once; the case has no trace,    *)
(* and its other gradings are left to themselves.                          *)
ReportRaised(c) ==
  /\ stage[c] = "judging"
  /\ \E g \in Of(c) : task[g] = "raised"
  /\ LET o == [raised |-> TRUE, results |-> <<>>]
     IN  /\ Publish(c, o)
         /\ baseline' = IF run.mode # "replay" THEN [baseline EXCEPT ![c] = o]
                                               ELSE baseline
  /\ UNCHANGED <<run, task, permits, queue, graded, store>>

-----------------------------------------------------------------------------
(* A grading.                                                              *)

(* Those that wait for a permit: not woken yet and not cancelled.          *)
Waiting == {g \in ToSet(queue) : task[g] = "queued" /\ g \notin doomed}

(* Whom the semaphore lets nobody overtake: also those that were woken, as *)
(* a woken waiter keeps its place until its task resumes.                  *)
Ahead == {g \in ToSet(queue) : task[g] = "woken" \/ g \notin doomed}

(* The semaphore with this value, these waiters and gradings in these      *)
(* states wakes the first of those that wait, as many as the value and the *)
(* bound allow: they have their permits and stay in the queue.             *)
WakeUp(value, waiters, states, bound) ==
  LET waiting == {g \in ToSet(waiters) : states[g] = "queued" /\ g \notin doomed}
  IN  \E first \in SUBSET waiting :
        /\ \A i, j \in DOMAIN waiters :
             i < j /\ waiters[j] \in first /\ waiters[i] \in waiting => waiters[i] \in first
        /\ Cardinality(first) <= value /\ Cardinality(first) <= bound
        /\ \/ first = waiting
           \/ Cardinality(first) = value
           \/ Cardinality(first) = bound
        /\ permits' = value - Cardinality(first)
        /\ queue' = waiters
        /\ task' = [g \in Gradings |-> IF g \in first THEN "woken" ELSE states[g]]

(* Faulty: nobody wakes the waiters.                                       *)
ReleaseQuietly(g, s) ==
  /\ permits' = permits + 1
  /\ task' = [task EXCEPT ![g] = s]
  /\ UNCHANGED queue

(* Semaphore.release, after which the grading is in state s.               *)
Release(g, s) == WakeUp(permits + 1, queue, [task EXCEPT ![g] = s], 1)

(* Semaphore.acquire: first come, first served.                            *)
Acquire(g) ==
  /\ task[g] = "new"
  /\ IF permits > 0 /\ Ahead = {}
     THEN /\ permits' = permits - 1
          /\ task' = [task EXCEPT ![g] = "granted"]
          /\ UNCHANGED queue
     ELSE /\ queue' = Append(queue, g)
          /\ task' = [task EXCEPT ![g] = "queued"]
          /\ UNCHANGED permits
  /\ UNCHANGED <<run, stage, doomed, graded, outcome, store, baseline>>

Dequeued(g) == RemoveAt(queue, CHOOSE i \in DOMAIN queue : queue[i] = g)

(* A woken waiter's task resumes in acquire and, where permits are left,   *)
(* wakes those that came behind it: one in Python 3.12, who will wake the  *)
(* next, and all that the value allows since 3.13.                         *)
Resume(g) ==
  /\ task[g] = "woken"
  /\ \E bound \in {1, Limit} :
       WakeUp(permits, Dequeued(g), [task EXCEPT ![g] = "granted"], bound)
  /\ UNCHANGED <<run, stage, doomed, graded, outcome, store, baseline>>

(* The grading is over: a verdict, or what _parse lets through.            *)
End(g, got) ==
  /\ graded' = [graded EXCEPT ![g] = got]
  /\ Release(g, IF got.kind = "overflow" THEN "raised" ELSE "ended")

(* A cassette answers the request.                                         *)
Serve(g) ==
  /\ task[g] = "granted"
  /\ run.mode \in {"auto", "replay"}
  /\ store[Fingerprint(g)] # None
  /\ End(g, store[Fingerprint(g)])
  /\ UNCHANGED <<run, stage, doomed, outcome, store, baseline>>

(* CassetteMiss is a provider error like any other.                        *)
Miss(g) ==
  /\ task[g] = "granted"
  /\ run.mode = "replay"
  /\ store[Fingerprint(g)] = None
  /\ End(g, Down)
  /\ UNCHANGED <<run, stage, doomed, outcome, store, baseline>>

AskLive(g) ==
  /\ task[g] = "granted"
  /\ run.mode = "record" \/ (run.mode = "auto" /\ store[Fingerprint(g)] = None)
  /\ task' = [task EXCEPT ![g] = "live"]
  /\ UNCHANGED <<run, stage, permits, queue, doomed, graded, outcome, store, baseline>>

(* Faulty: a response that is no verdict is not recorded.                  *)
AnswerIfParsed(g, a) ==
  /\ task[g] = "live"
  /\ store' = IF a.kind = "score" THEN [store EXCEPT ![Fingerprint(g)] = a] ELSE store
  /\ End(g, a)
  /\ UNCHANGED <<run, stage, doomed, outcome, baseline>>

(* The judge answers; the response is recorded whatever it says.           *)
Answer(g, a) ==
  /\ task[g] = "live"
  /\ store' = [store EXCEPT ![Fingerprint(g)] = a]
  /\ End(g, a)
  /\ UNCHANGED <<run, stage, doomed, outcome, baseline>>

(* The call fails after its retries: an error verdict.                     *)
Fail(g) ==
  /\ task[g] = "live"
  /\ End(g, Down)
  /\ UNCHANGED <<run, stage, doomed, outcome, store, baseline>>

(* Faulty: a cancelled grading keeps its permit.                           *)
UnwindHolding(g) ==
  /\ doomed' = doomed \ {g}
  /\ task' = [task EXCEPT ![g] = "cancelled"]
  /\ queue' = IF task[g] \in {"queued", "woken"} THEN Dequeued(g) ELSE queue
  /\ UNCHANGED <<run, stage, permits, graded, outcome, store, baseline>>

(* CancelledError passes through `async with`, or through acquire, which   *)
(* takes the waiter out of the queue, puts back the permit of a woken one  *)
(* and wakes others in its place; since 3.13 also where it had no permit.  *)
Unwind(g) ==
  LET states == [task EXCEPT ![g] = "cancelled"]
  IN  /\ \/ /\ task[g] \in {"granted", "live"}
            /\ Release(g, "cancelled")
         \/ /\ task[g] = "woken"
            /\ \E bound \in {1, Limit} : WakeUp(permits + 1, Dequeued(g), states, bound)
         \/ /\ task[g] = "queued"
            /\ \E bound \in {0, Limit} : WakeUp(permits, Dequeued(g), states, bound)
         \/ /\ task[g] = "new"
            /\ task' = states
            /\ UNCHANGED <<permits, queue>>
  /\ doomed' = doomed \ {g}
  /\ UNCHANGED <<run, stage, graded, outcome, store, baseline>>

Grading(g) ==
  IF g \in doomed
  THEN Unwind(g)
  ELSE \/ Acquire(g) \/ Resume(g) \/ Serve(g) \/ Miss(g) \/ AskLive(g)
       \/ \E a \in Answers : Answer(g, a)
       \/ Fail(g)

-----------------------------------------------------------------------------

(* The run has returned and asyncio.run cancels the gradings that a raised *)
(* case left behind.                                                       *)
Shutdown ==
  /\ \A c \in Cases : stage[c] \in Finished
  /\ {g \in Gradings \ doomed : task[g] \notin Idle} # {}
  /\ doomed' = {g \in Gradings : task[g] \notin Idle}
  /\ UNCHANGED <<run, stage, task, permits, queue, graded, outcome, store, baseline>>

(* Another run of the program, with a semaphore of its own.                *)
StartSession(m, ff) ==
  /\ run.number < MaxSessions
  /\ \A c \in Cases : stage[c] \in Finished
  /\ \A g \in Gradings : task[g] \in Idle
  /\ run' = [mode |-> m, failFast |-> ff, number |-> run.number + 1]
  /\ stage' = [c \in Cases |-> "agent"]
  /\ task' = [g \in Gradings |-> "none"]
  /\ graded' = [g \in Gradings |-> None]
  /\ outcome' = [c \in Cases |-> None]
  /\ permits' = Limit
  /\ baseline' = IF m = "replay" THEN baseline ELSE [c \in Cases |-> None]
  /\ UNCHANGED <<queue, doomed, store>>

Case(c) == Enter(c) \/ Report(c) \/ ReportRaised(c)

Next ==
  \/ \E c \in Cases : Case(c)
  \/ \E g \in Gradings : Grading(g)
  \/ Shutdown
  \/ \E m \in Modes, ff \in BOOLEAN : StartSession(m, ff)

(* The event loop goes on while a task is ready, and every agent loop and  *)
(* provider call ends.                                                     *)
Spec ==
  /\ Init /\ [][Next]_vars
  /\ WF_vars((\E c \in Cases : Case(c)) \/ (\E g \in Gradings : Grading(g)))

-----------------------------------------------------------------------------

Holding == {g \in Gradings : task[g] \in {"woken", "granted", "live"}}

(* The bound on judge calls spans the whole run ("N cases x M judges never *)
(* exceed the bound") and no permit is lost: the semaphore's value and the *)
(* permits held add up, through cancellations and gradings that outlive    *)
(* their case.  A newcomer may wait although a permit is free, but only    *)
(* while some woken waiter has yet to resume, which will see to it.        *)
PermitsBalanced ==
  /\ permits >= 0
  /\ permits + Cardinality(Holding) = Limit
  /\ permits > 0 /\ Waiting # {} => \E g \in ToSet(queue) : task[g] = "woken"
  /\ ToSet(queue) = {g \in Gradings : task[g] \in {"queued", "woken"}}

(* An assertion that passed was graded, by its own model on its own text,  *)
(* at or above its own threshold: never by the verdict of another one,     *)
(* although verdicts are shared by key, and never by a judge that failed.  *)
PassedOnOwnTerms ==
  \A c \in Cases : stage[c] = "reported" /\ ~outcome[c].raised =>
    \A i \in DOMAIN Expect[c] : outcome[c].results[i] = "passed" =>
      \E g \in Of(c) :
        /\ Fingerprint(g) = <<c, Expect[c][i].model, Expect[c][i].text>>
        /\ graded[g].kind = "score"
        /\ graded[g].score >= Expect[c][i].threshold

(* Two rubrics of the case differ in nothing but the threshold.            *)
Twinned(c) ==
  \E g, h \in Of(c) : g # h /\ Fingerprint(g) = Fingerprint(h)

SameInReplay(c) ==
  run.mode = "replay" /\ stage[c] = "reported" /\ baseline[c] # None
    => outcome[c] = baseline[c]

(* What a recording session reported of a case's judged assertions, replay *)
(* reports again: also error verdicts, and whatever was cancelled, for a   *)
(* case whose rubrics ask different things.                                *)
ReplayKeepsOutcomes == \A c \in Cases : ~Twinned(c) => SameInReplay(c)

(* Every case is reported or cancelled and every grading ends, whoever was *)
(* cancelled while waiting for a permit or holding one.                    *)
JudgingEnds ==
  []<>(/\ \A c \in Cases : stage[c] \in Finished
       /\ \A g \in Gradings : task[g] \in Idle)

============================================================================
