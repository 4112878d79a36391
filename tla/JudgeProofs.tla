---------------------------- MODULE JudgeProofs ----------------------------
(***************************************************************************)
(* For any finite set of cases, any assertions, any number of permits and  *)
(* sessions, and any answers of the judge, with cancellations anywhere: no *)
(* permit is lost and none is free unseen while gradings wait, no assertion *)
(* passes by the verdict of another, and replay reports what was recorded. *)
(***************************************************************************)
EXTENDS Judge, SequenceTheorems, FunctionTheorems, FiniteSetTheorems,
        WellFoundedInduction, TLAPS

-----------------------------------------------------------------------------
(* Queues.                                                                 *)

Injective(s) == \A i, j \in DOMAIN s : s[i] = s[j] => i = j

LEMMA Removed ==
  ASSUME NEW T, NEW s \in Seq(T), Injective(s), NEW i \in DOMAIN s
  PROVE  /\ RemoveAt(s, i) \in Seq(T)
         /\ ToSet(RemoveAt(s, i)) = ToSet(s) \ {s[i]}
         /\ Injective(RemoveAt(s, i))
<1> DEFINE n == Len(s)
           front == SubSeq(s, 1, i - 1)
           back == SubSeq(s, i + 1, n)
           t == RemoveAt(s, i)
<1>1. n \in Nat /\ DOMAIN s = 1 .. n /\ i \in 1 .. n
  BY LenProperties
<1>2. /\ front \in Seq(T) /\ Len(front) = i - 1
      /\ \A k \in 1 .. i - 1 : front[k] = s[k]
  BY <1>1
<1>3. /\ back \in Seq(T) /\ Len(back) = n - i
      /\ \A k \in 1 .. n - i : back[k] = s[k + i]
  BY <1>1
<1>4. t = front \o back
  BY DEF RemoveAt
<1>5. /\ t \in Seq(T) /\ Len(t) = n - 1 /\ DOMAIN t = 1 .. n - 1
      /\ \A k \in 1 .. n - 1 : t[k] = IF k < i THEN s[k] ELSE s[k + 1]
  <2>1. t \in Seq(T) /\ Len(t) = n - 1
    BY <1>1, <1>2, <1>3, <1>4, ConcatProperties
  <2>2. \A k \in 1 .. n - 1 : t[k] = IF k <= i - 1 THEN front[k] ELSE back[k - (i - 1)]
    <3>1. \A k \in 1 .. Len(front) + Len(back) :
            (front \o back)[k] = IF k <= Len(front) THEN front[k] ELSE back[k - Len(front)]
      BY <1>2, <1>3, ConcatProperties
    <3> HIDE DEF front, back, t, n
    <3>2. Len(front) + Len(back) = n - 1 /\ Len(front) = i - 1
      BY <1>1, <1>2, <1>3
    <3> QED
      BY <3>1, <3>2, <1>4
  <2>3. ASSUME NEW k \in 1 .. n - 1
        PROVE  t[k] = IF k < i THEN s[k] ELSE s[k + 1]
    <3>1. CASE k < i
      BY <3>1, <1>1, <1>2, <2>2
    <3>2. CASE ~(k < i)
      <4>1. k - (i - 1) \in 1 .. n - i /\ k - (i - 1) + i = k + 1 /\ ~(k <= i - 1)
        BY <3>2, <1>1
      <4>2. back[k - (i - 1)] = s[k - (i - 1) + i]
        BY <4>1, <1>3
      <4> HIDE DEF back, front, t, n
      <4>3. t[k] = back[k - (i - 1)]
        BY <2>2, <4>1
      <4> QED
        BY <3>2, <4>1, <4>2, <4>3
    <3> QED
      BY <3>1, <3>2
  <2> QED
    BY <2>1, <2>3, LenProperties
<1> HIDE DEF n, front, back, t
<1>6. Injective(t)
  <2>1. ASSUME NEW j \in 1 .. n - 1, NEW k \in 1 .. n - 1, t[j] = t[k]
        PROVE  j = k
    <3> DEFINE at(m) == IF m < i THEN m ELSE m + 1
    <3>1. at(j) \in DOMAIN s /\ at(k) \in DOMAIN s
      BY <1>1
    <3>2. s[at(j)] = s[at(k)]
      BY <1>5, <2>1
    <3>3. at(j) = at(k)
      BY <3>1, <3>2 DEF Injective
    <3> QED
      BY <1>1, <3>3
  <2> QED
    BY <1>5, <2>1 DEF Injective
<1>7. ToSet(t) \subseteq ToSet(s) \ {s[i]}
  BY <1>1, <1>5 DEF ToSet, Injective
<1>8. ASSUME NEW x \in ToSet(s) \ {s[i]}
      PROVE  x \in ToSet(t)
  <2>1. PICK k \in 1 .. n : s[k] = x /\ k # i
    BY <1>1 DEF ToSet
  <2>2. CASE k < i
    BY <2>1, <2>2, <1>1, <1>5 DEF ToSet
  <2>3. CASE k > i
    <3>1. k - 1 \in 1 .. n - 1 /\ ~(k - 1 < i) /\ k - 1 + 1 = k
      BY <2>1, <2>3, <1>1
    <3>2. t[k - 1] = x
      BY <2>1, <3>1, <1>5
    <3> QED
      BY <3>1, <3>2, <1>5 DEF ToSet
  <2> QED
    BY <2>1, <2>2, <2>3, <1>1
<1> QED
  BY <1>5, <1>6, <1>7, <1>8 DEF t

-----------------------------------------------------------------------------
(* The inductive invariant.                                                *)

Stages == {"agent", "judging", "reported", "cancelled"}

States == {"none", "new", "queued", "woken", "granted", "live", "ended", "raised",
            "cancelled"}

Prints == {Fingerprint(g) : g \in Gradings}

Gets == Answers \cup {Down}

Typed ==
  /\ run \in [mode : Modes, failFast : BOOLEAN, number : Nat]
  /\ stage \in [Cases -> Stages]
  /\ task \in [Gradings -> States]
  /\ queue \in Seq(Gradings)
  /\ permits \in Nat
  /\ graded \in [Gradings -> Gets \cup {None}]
  /\ store \in [Prints -> Answers \cup {None}]
  /\ DOMAIN outcome = Cases
  /\ DOMAIN baseline = Cases

(* Only what has started and not ended is cancelled, and nobody waits      *)
(* twice.                                                                  *)
OnceInQueue ==
  /\ doomed \subseteq {g \in Gradings : task[g] \notin Idle}
  /\ Injective(queue)

(* What a grading that has ended got; no live call in replay.              *)
GradingFits(g) ==
  /\ task[g] \in {"ended", "raised"} =>
       /\ graded[g] \in Gets
       /\ task[g] = "raised" <=> graded[g].kind = "overflow"
  /\ run.mode = "replay" => task[g] # "live"

RaisedOutcome == [raised |-> TRUE, results |-> <<>>]

(* The results of a case whose gradings got what is in got.                *)
OutcomeFrom(c, got) ==
  [raised  |-> FALSE,
   results |-> [i \in DOMAIN Expect[c] |->
                  LET key == judge_key(Expect[c][i])
                      verdict == Verdict(got[<<c, key>>], Rubric(c, key))
                  IN  IF verdict.error THEN "judge_error"
                      ELSE IF verdict.passed THEN "passed" ELSE "failed"]]

(* A case starts with no grading, and is reported as its gradings ended.   *)
CaseFits(c) ==
  /\ stage[c] = "agent" => \A g \in Of(c) : task[g] = "none"
  /\ stage[c] = "reported" =>
       \/ outcome[c] = RaisedOutcome /\ \E g \in Of(c) : task[g] = "raised"
       \/ outcome[c] = OutcomeFrom(c, graded) /\ \A g \in Of(c) : task[g] = "ended"

(* In a session that ended a grading, its cassette has what it got; only   *)
(* where there is none does a replaying judge count as down.               *)
StoreFits(g) ==
  task[g] \in {"ended", "raised"} =>
    \/ graded[g] = store[Fingerprint(g)]
    \/ graded[g] = Down /\ (run.mode = "replay" => store[Fingerprint(g)] = None)

Stored(c) == [g \in Of(c) |-> store[Fingerprint(g)]]

Settled(g) == run.mode # "replay" => task[g] \in {"ended", "raised"}

(* A baseline can be read off the cassettes, and no grading of the session *)
(* that recorded it will write to these any more.                          *)
BaselineFits(c) ==
  /\ baseline[c] # None =>
       \/ /\ baseline[c] = RaisedOutcome
          /\ \E g \in Of(c) : /\ store[Fingerprint(g)] \in Answers
                              /\ store[Fingerprint(g)].kind = "overflow"
                              /\ Settled(g)
       \/ /\ baseline[c] = OutcomeFrom(c, Stored(c))
          /\ \A g \in Of(c) : /\ store[Fingerprint(g)] \in Answers
                              /\ store[Fingerprint(g)].kind # "overflow"
                              /\ Settled(g)
  /\ run.mode # "replay" /\ baseline[c] # None => stage[c] = "reported"

PermitInv == OnceInQueue /\ PermitsBalanced

GradeInv ==
  /\ \A g \in Gradings : GradingFits(g)
  /\ \A c \in Cases : CaseFits(c)

RecordInv ==
  \A c \in Cases : ~Twinned(c) =>
    /\ \A g \in Of(c) : StoreFits(g)
    /\ BaselineFits(c)

IInv == Typed /\ PermitInv /\ GradeInv /\ RecordInv

-----------------------------------------------------------------------------
(* The gradings.                                                           *)

LEMMA GradingParts ==
  /\ \A g \in Gradings : /\ g[1] \in Cases /\ g \in Of(g[1])
                         /\ Fingerprint(g) \in Prints /\ Fingerprint(g)[1] = g[1]
  /\ \A c \in Cases : /\ \A g \in Of(c) : g \in Gradings /\ g[1] = c
                      /\ \A i \in DOMAIN Expect[c] : <<c, judge_key(Expect[c][i])>> \in Of(c)
<1>1. ASSUME NEW g \in Gradings
      PROVE  /\ g[1] \in Cases /\ g \in Of(g[1])
             /\ Fingerprint(g) \in Prints /\ Fingerprint(g)[1] = g[1]
  BY DEF Gradings, Of, Prints, Fingerprint
<1>2. ASSUME NEW c \in Cases
      PROVE  /\ \A g \in Of(c) : g \in Gradings /\ g[1] = c
             /\ \A i \in DOMAIN Expect[c] : <<c, judge_key(Expect[c][i])>> \in Of(c)
  BY DEF Gradings, Of, Requests
<1> QED
  BY <1>1, <1>2

LEMMA GradingsFinite == IsFiniteSet(Gradings)
<1> DEFINE Sets == {{c} \X Requests(c) : c \in Cases}
<1>1. ASSUME NEW c \in Cases
      PROVE  IsFiniteSet({c} \X Requests(c))
  <2>1. Expect[c] \in Seq(ToSet(Expect[c]))
    BY JudgeAssumption
  <2>2. IsFiniteSet(DOMAIN Expect[c])
    <3>1. Len(Expect[c]) \in Nat /\ DOMAIN Expect[c] = 1 .. Len(Expect[c])
      BY <2>1, LenProperties
    <3> QED
      BY <3>1, FS_Interval
  <2>3. [i \in DOMAIN Expect[c] |-> judge_key(Expect[c][i])]
          \in Surjection(DOMAIN Expect[c], Requests(c))
    BY DEF Surjection, Requests
  <2>4. IsFiniteSet(Requests(c))
    BY <2>2, <2>3, FS_Surjection
  <2> QED
    BY <2>4, FS_Singleton, FS_Product
<1>2. IsFiniteSet(Sets)
  <2>1. [c \in Cases |-> {c} \X Requests(c)] \in Surjection(Cases, Sets)
    BY DEF Surjection
  <2> QED
    BY <2>1, JudgeAssumption, FS_Surjection
<1>3. \A S \in Sets : IsFiniteSet(S)
  BY <1>1
<1>4. IsFiniteSet(UNION Sets)
  BY <1>2, <1>3, FS_UNION
<1> QED
  BY <1>4 DEF Gradings

-----------------------------------------------------------------------------
(* The semaphore.                                                          *)

(* Apart from g, a grading changes only by being handed a permit.          *)
Moves(g) ==
  \A h \in Gradings \ {g} : task'[h] = task[h] \/ (task[h] = "queued" /\ task'[h] = "woken")

Held == {"woken", "granted", "live"}

Holders(states) == {g \in Gradings : states[g] \in Held}

LEMMA HoldersCount ==
  ASSUME NEW states
  PROVE  /\ IsFiniteSet(Holders(states)) /\ Cardinality(Holders(states)) \in Nat
         /\ \A g : /\ IsFiniteSet(Holders(states) \ {g})
                   /\ Cardinality(Holders(states) \ {g}) =
                        IF g \in Holders(states) THEN Cardinality(Holders(states)) - 1
                                                 ELSE Cardinality(Holders(states))
                   /\ Cardinality(Holders(states) \cup {g}) =
                        IF g \in Holders(states) THEN Cardinality(Holders(states))
                                                 ELSE Cardinality(Holders(states)) + 1
<1>1. Holders(states) \in SUBSET Gradings
  BY DEF Holders
<1>2. IsFiniteSet(Holders(states))
  BY <1>1, GradingsFinite, FS_Subset
<1> QED
  BY <1>2, FS_CardinalityType, FS_AddElement, FS_RemoveElement

LEMMA HoldingIsHeld == Holding = Holders(task)
BY DEF Holding, Holders, Held

(* Where the values and the waiters add up before some are woken, they do  *)
(* afterwards; g is the grading whose step it is.                          *)
LEMMA WokenUp ==
  ASSUME NEW g \in Gradings, NEW value \in Nat, NEW bound \in Nat,
         NEW waiters \in Seq(Gradings), Injective(waiters),
         NEW states \in [Gradings -> States], states[g] \notin {"queued", "woken"},
         ToSet(waiters) = {h \in Gradings : states[h] \in {"queued", "woken"}},
         value + Cardinality(Holders(states)) = Limit,
         bound = 0 /\ value > 0
           => \/ \E h \in Gradings : states[h] = "woken"
              \/ \A h \in Gradings : states[h] = "queued" => h \in doomed,
         doomed' = doomed \ {g},
         WakeUp(value, waiters, states, bound)
  PROVE  /\ task' \in [Gradings -> States] /\ queue' \in Seq(Gradings) /\ permits' \in Nat
         /\ Injective(queue') /\ PermitsBalanced'
         /\ \A h \in Gradings : \/ task'[h] = states[h]
                                \/ states[h] = "queued" /\ task'[h] = "woken"
<1> DEFINE waiting == {h \in ToSet(waiters) : states[h] = "queued" /\ h \notin doomed}
<1>1. PICK first \in SUBSET waiting :
        /\ Cardinality(first) <= value
        /\ \/ first = waiting
           \/ Cardinality(first) = value
           \/ Cardinality(first) = bound
        /\ permits' = value - Cardinality(first)
        /\ queue' = waiters
        /\ task' = [h \in Gradings |-> IF h \in first THEN "woken" ELSE states[h]]
  BY DEF WakeUp
<1>2. first \in SUBSET Gradings /\ \A h \in first : states[h] = "queued" /\ h \notin doomed
  OBVIOUS
<1>3. IsFiniteSet(first) /\ Cardinality(first) \in Nat
  BY <1>2, GradingsFinite, FS_Subset, FS_CardinalityType
<1>4. /\ task' \in [Gradings -> States]
      /\ \A h \in first : task'[h] = "woken"
      /\ \A h \in Gradings \ first : task'[h] = states[h]
  BY <1>1, <1>2 DEF States
<1>5. permits' \in Nat
  BY <1>1, <1>3
<1>6. ToSet(queue') = {h \in Gradings : task'[h] \in {"queued", "woken"}}
  BY <1>1, <1>2, <1>4
<1>7. permits' + Cardinality(Holding') = Limit
  <2>1. Holding' = Holders(states) \cup first /\ Holders(states) \cap first = {}
    BY <1>2, <1>4 DEF Holding, Holders, Held
  <2>2. IsFiniteSet(Holders(states)) /\ Cardinality(Holders(states)) \in Nat
    BY HoldersCount
  <2>3. Cardinality(Holders(states) \cup first) =
          Cardinality(Holders(states)) + Cardinality(first) - Cardinality(Holders(states) \cap first)
    BY <2>2, <1>3, FS_Union
  <2>4. Cardinality(Holders(states) \cap first) = 0
    BY <2>1, FS_EmptySet
  <2>5. Cardinality(Holding') = Cardinality(Holders(states)) + Cardinality(first)
    BY <2>1, <2>2, <2>3, <2>4, <1>3
  <2> HIDE DEF waiting
  <2> QED
    BY <2>2, <2>5, <1>1, <1>3
<1>8. permits' > 0 /\ Waiting' # {} => \E h \in ToSet(queue') : task'[h] = "woken"
  <2> SUFFICES ASSUME permits' > 0, NEW w \in Waiting'
               PROVE  \E h \in Gradings : task'[h] = "woken"
    BY <1>6
  <2>1. /\ w \in Gradings /\ task'[w] = "queued" /\ w \notin doomed'
        /\ states[w] = "queued" /\ w \notin first
    BY <1>2, <1>4, <1>6 DEF Waiting
  <2>2. w # g /\ w \in waiting /\ w \notin doomed
    BY <2>1
  <2>3. first # waiting
    BY <2>1, <2>2
  <2>4. Cardinality(first) = bound
    BY <1>1, <1>3, <2>3
  <2>5. CASE bound = 0
    <3>1. value > 0
      BY <1>1, <2>4, <2>5
    <3>2. PICK h \in Gradings : states[h] = "woken"
      BY <2>1, <2>2, <2>5, <3>1
    <3>3. h \notin first
      BY <3>2, <1>2
    <3> QED
      BY <3>2, <3>3, <1>4
  <2>6. CASE bound # 0
    <3>1. first # {}
      BY <2>4, <2>6, FS_EmptySet
    <3> QED
      BY <3>1, <1>2, <1>4
  <2> QED
    BY <2>5, <2>6
<1>9. PermitsBalanced'
  BY <1>5, <1>6, <1>7, <1>8 DEF PermitsBalanced
<1>10. \A h \in Gradings : \/ task'[h] = states[h]
                           \/ states[h] = "queued" /\ task'[h] = "woken"
  BY <1>2, <1>4
<1> QED
  BY <1>1, <1>4, <1>5, <1>9, <1>10

LEMMA Dequeueing ==
  ASSUME Typed, PermitInv, NEW g \in Gradings, task[g] \in {"queued", "woken"}
  PROVE  /\ Dequeued(g) \in Seq(Gradings) /\ Injective(Dequeued(g))
         /\ ToSet(Dequeued(g)) = {h \in Gradings \ {g} : task[h] \in {"queued", "woken"}}
<1>1. /\ queue \in Seq(Gradings) /\ Injective(queue)
      /\ ToSet(queue) = {h \in Gradings : task[h] \in {"queued", "woken"}}
  BY DEF Typed, PermitInv, OnceInQueue, PermitsBalanced
<1> DEFINE i == CHOOSE i \in DOMAIN queue : queue[i] = g
<1>2. i \in DOMAIN queue /\ queue[i] = g
  BY <1>1 DEF ToSet
<1>3. Dequeued(g) = RemoveAt(queue, i)
  BY DEF Dequeued
<1> HIDE DEF i
<1> QED
  BY <1>1, <1>2, <1>3, Removed

(* What holds of the semaphore and of the other gradings after g moved.    *)
SemaphoreKept(g) ==
  /\ task' \in [Gradings -> States] /\ queue' \in Seq(Gradings) /\ permits' \in Nat
  /\ PermitInv'
  /\ Moves(g)

(* What a step that wakes waiters, after which g is in state s, does.      *)
LEMMA HandedOn ==
  ASSUME Typed, PermitInv, NEW g \in Gradings, task[g] \notin Idle,
         NEW s \in {"granted", "ended", "raised", "cancelled"},
         s = "granted" => g \notin doomed,
         NEW value \in Nat, NEW bound \in Nat, NEW waiters \in Seq(Gradings), Injective(waiters),
         ToSet(waiters) = {h \in Gradings \ {g} : task[h] \in {"queued", "woken"}},
         value + Cardinality(Holders([task EXCEPT ![g] = s])) = Limit,
         bound = 0 => value = permits /\ task[g] = "queued",
         doomed' = doomed \ {g},
         WakeUp(value, waiters, [task EXCEPT ![g] = s], bound)
  PROVE  SemaphoreKept(g) /\ task'[g] = s
<1> DEFINE states == [task EXCEPT ![g] = s]
<1>1. /\ task \in [Gradings -> States] /\ queue \in Seq(Gradings)
      /\ doomed \subseteq {h \in Gradings : task[h] \notin Idle}
      /\ permits > 0 /\ Waiting # {} => \E h \in ToSet(queue) : task[h] = "woken"
      /\ ToSet(queue) = {h \in Gradings : task[h] \in {"queued", "woken"}}
  BY DEF Typed, PermitInv, OnceInQueue, PermitsBalanced
<1>2. /\ states \in [Gradings -> States] /\ states[g] = s
      /\ \A h \in Gradings \ {g} : states[h] = task[h]
      /\ s \notin {"queued", "woken"}
  BY <1>1 DEF States
<1>3. ToSet(waiters) = {h \in Gradings : states[h] \in {"queued", "woken"}}
  BY <1>2
<1>4. bound = 0 /\ value > 0
        => \/ \E h \in Gradings : states[h] = "woken"
           \/ \A h \in Gradings : states[h] = "queued" => h \in doomed
  <2> SUFFICES ASSUME bound = 0, value > 0, NEW w \in Gradings, states[w] = "queued", w \notin doomed
               PROVE  \E h \in Gradings : states[h] = "woken"
    OBVIOUS
  <2>1. w # g /\ task[w] = "queued" /\ w \in Waiting
    BY <1>1, <1>2 DEF Waiting
  <2>2. PICK h \in Gradings : task[h] = "woken"
    BY <2>1, <1>1
  <2>3. h # g
    BY <2>2
  <2> QED
    BY <2>2, <2>3, <1>2
<1> HIDE DEF states
<1>5. WakeUp(value, waiters, states, bound) /\ value + Cardinality(Holders(states)) = Limit
  BY DEF states
<1>6. /\ task' \in [Gradings -> States] /\ queue' \in Seq(Gradings) /\ permits' \in Nat
      /\ Injective(queue') /\ PermitsBalanced'
      /\ \A h \in Gradings : \/ task'[h] = states[h]
                             \/ states[h] = "queued" /\ task'[h] = "woken"
  BY <1>2, <1>3, <1>4, <1>5, WokenUp
<1>7. task'[g] = s /\ Moves(g)
  BY <1>2, <1>6 DEF Moves
<1>8. OnceInQueue'
  <2>1. ASSUME NEW h \in doomed' PROVE h \in Gradings /\ task'[h] \notin Idle
    <3>1. h \in Gradings /\ task[h] \notin Idle /\ h # g
      BY <1>1
    <3> QED
      BY <3>1, <1>7 DEF Moves, Idle
  <2> QED
    BY <2>1, <1>6 DEF OnceInQueue
<1> QED
  BY <1>6, <1>7, <1>8 DEF SemaphoreKept, PermitInv

LEMMA BoundIsNat == 1 \in Nat /\ 0 \in Nat /\ Limit \in Nat /\ Limit # 0
BY JudgeAssumption

(* A grading that held a permit has let go of it.                          *)
LEMMA Released ==
  ASSUME Typed, PermitInv,
         NEW g \in Gradings, task[g] \in {"granted", "live"},
         NEW s \in {"ended", "raised", "cancelled"},
         Release(g, s), doomed' = doomed \ {g}
  PROVE  SemaphoreKept(g) /\ task'[g] = s
<1> DEFINE states == [task EXCEPT ![g] = s]
<1>1. /\ task \in [Gradings -> States] /\ queue \in Seq(Gradings) /\ permits \in Nat
      /\ Injective(queue) /\ permits + Cardinality(Holding) = Limit
      /\ ToSet(queue) = {h \in Gradings : task[h] \in {"queued", "woken"}}
      /\ task[g] \notin Idle
  BY DEF Typed, PermitInv, OnceInQueue, PermitsBalanced, Idle
<1>2. Holders(states) = Holders(task) \ {g} /\ g \in Holders(task)
  BY <1>1 DEF Holders, Held
<1>3. permits + 1 + Cardinality(Holders(states)) = Limit /\ permits + 1 \in Nat
  <2>1. Cardinality(Holders(states)) = Cardinality(Holding) - 1 /\ Cardinality(Holding) \in Nat
    BY <1>2, HoldersCount, HoldingIsHeld
  <2> QED
    BY <2>1, <1>1
<1>4. ToSet(queue) = {h \in Gradings \ {g} : task[h] \in {"queued", "woken"}}
  BY <1>1
<1>5. WakeUp(permits + 1, queue, states, 1)
  BY DEF Release
<1>6. s \in {"granted", "ended", "raised", "cancelled"} /\ s # "granted"
  OBVIOUS
<1>7. 1 \in Nat /\ 1 # 0
  OBVIOUS
<1> QED
  BY <1>1, <1>3, <1>4, <1>5, <1>6, <1>7, HandedOn

LEMMA Acquired ==
  ASSUME Typed, PermitInv, NEW g \in Gradings \ doomed, Acquire(g)
  PROVE  SemaphoreKept(g) /\ task'[g] \in {"granted", "queued"}
<1>1. /\ task \in [Gradings -> States] /\ queue \in Seq(Gradings) /\ permits \in Nat
      /\ task[g] = "new" /\ doomed' = doomed
  BY DEF Typed, Acquire
<1>2. /\ doomed \subseteq {h \in Gradings : task[h] \notin Idle}
      /\ Injective(queue)
      /\ permits + Cardinality(Holding) = Limit
      /\ permits > 0 /\ Waiting # {} => \E h \in ToSet(queue) : task[h] = "woken"
      /\ ToSet(queue) = {h \in Gradings : task[h] \in {"queued", "woken"}}
  BY DEF PermitInv, OnceInQueue, PermitsBalanced
<1>3. g \notin Holding /\ Cardinality(Holding \cup {g}) = Cardinality(Holding) + 1
      /\ Cardinality(Holding) \in Nat /\ Limit \in Nat
  BY <1>1, HoldersCount, HoldingIsHeld, JudgeAssumption DEF Holding
<1>4. CASE permits > 0 /\ Ahead = {}
  <2>1. /\ permits' = permits - 1 /\ task' = [task EXCEPT ![g] = "granted"] /\ queue' = queue
    BY <1>4 DEF Acquire
  <2>2. /\ task' \in [Gradings -> States] /\ task'[g] = "granted"
        /\ \A h \in Gradings \ {g} : task'[h] = task[h]
    BY <2>1, <1>1 DEF States
  <2>3. Holding' = Holding \cup {g}
    BY <2>2, <1>1 DEF Holding
  <2>4. Waiting' = {}
    BY <2>1, <1>1, <1>4 DEF Waiting, Ahead
  <2>5. OnceInQueue'
    BY <2>1, <2>2, <1>1, <1>2 DEF OnceInQueue, Idle
  <2>6. ToSet(queue') = {h \in Gradings : task'[h] \in {"queued", "woken"}}
    BY <2>1, <2>2, <1>1, <1>2
  <2>7. permits' \in Nat /\ permits' + Cardinality(Holding') = Limit
    BY <2>1, <2>3, <1>1, <1>2, <1>3, <1>4
  <2>8. PermitsBalanced'
    BY <2>4, <2>6, <2>7 DEF PermitsBalanced
  <2> QED
    BY <2>1, <2>2, <2>5, <2>7, <2>8, <1>1 DEF SemaphoreKept, PermitInv, Moves
<1>5. CASE ~(permits > 0 /\ Ahead = {})
  <2>1. /\ queue' = Append(queue, g) /\ task' = [task EXCEPT ![g] = "queued"] /\ permits' = permits
    BY <1>5 DEF Acquire
  <2>2. /\ task' \in [Gradings -> States] /\ task'[g] = "queued"
        /\ \A h \in Gradings \ {g} : task'[h] = task[h]
    BY <2>1, <1>1 DEF States
  <2>3. Holding' = Holding
    BY <2>2, <1>1 DEF Holding
  <2>4. /\ queue' \in Seq(Gradings) /\ Len(queue') = Len(queue) + 1 /\ Len(queue) \in Nat
        /\ DOMAIN queue = 1 .. Len(queue) /\ DOMAIN queue' = 1 .. Len(queue) + 1
        /\ \A i \in 1 .. Len(queue) : queue'[i] = queue[i]
        /\ queue'[Len(queue) + 1] = g
    BY <2>1, <1>1, AppendProperties, LenProperties
  <2>5. g \notin ToSet(queue)
    BY <1>1, <1>2
  <2>6. Injective(queue')
    BY <2>4, <2>5, <1>2 DEF Injective, ToSet
  <2>7. ToSet(queue') = ToSet(queue) \cup {g}
    BY <2>4 DEF ToSet
  <2>8. ToSet(queue') = {h \in Gradings : task'[h] \in {"queued", "woken"}}
    BY <2>2, <2>7, <1>1, <1>2
  <2>9. OnceInQueue'
    BY <2>2, <2>6, <1>1, <1>2 DEF OnceInQueue, Idle
  <2>10. ASSUME permits' > 0
         PROVE  \E h \in ToSet(queue') : task'[h] = "woken"
    <3>1. PICK a \in ToSet(queue) : task[a] = "woken" \/ a \notin doomed
      BY <2>1, <2>10, <1>5 DEF Ahead
    <3>2. task[a] = "woken" \/ a \in Waiting
      BY <3>1, <1>2 DEF Waiting
    <3>3. PICK h \in ToSet(queue) : task[h] = "woken"
      BY <3>2, <2>1, <2>10, <1>2
    <3> QED
      BY <3>3, <2>2, <2>7, <1>1, <1>2
  <2>11. PermitsBalanced'
    BY <2>1, <2>3, <2>8, <2>10, <1>1, <1>2 DEF PermitsBalanced
  <2> QED
    BY <2>1, <2>2, <2>4, <2>9, <2>11, <1>1 DEF SemaphoreKept, PermitInv, Moves
<1> QED
  BY <1>4, <1>5

LEMMA Resumed ==
  ASSUME Typed, PermitInv, NEW g \in Gradings \ doomed, Resume(g)
  PROVE  SemaphoreKept(g) /\ task'[g] = "granted"
<1>1. /\ task \in [Gradings -> States] /\ permits \in Nat
      /\ permits + Cardinality(Holding) = Limit
      /\ task[g] = "woken" /\ task[g] \notin Idle /\ doomed' = doomed \ {g}
  BY DEF Typed, PermitInv, PermitsBalanced, Resume, Idle
<1>2. Holders([task EXCEPT ![g] = "granted"]) = Holders(task)
  BY <1>1 DEF Holders, Held
<1>3. permits + Cardinality(Holders([task EXCEPT ![g] = "granted"])) = Limit
  BY <1>1, <1>2, HoldingIsHeld
<1>4. PICK bound \in {1, Limit} :
        WakeUp(permits, Dequeued(g), [task EXCEPT ![g] = "granted"], bound)
  BY DEF Resume
<1>5. bound \in Nat /\ bound # 0
  BY BoundIsNat
<1> QED
  BY <1>1, <1>3, <1>4, <1>5, Dequeueing, HandedOn

LEMMA AskedLive ==
  ASSUME Typed, PermitInv, NEW g \in Gradings, AskLive(g)
  PROVE  SemaphoreKept(g) /\ task'[g] = "live"
<1>1. /\ task \in [Gradings -> States] /\ queue \in Seq(Gradings) /\ permits \in Nat
      /\ task[g] = "granted" /\ UNCHANGED <<doomed, queue, permits>>
  BY DEF Typed, AskLive
<1>2. /\ task' \in [Gradings -> States] /\ task'[g] = "live"
      /\ \A h \in Gradings \ {g} : task'[h] = task[h]
  BY <1>1 DEF AskLive, States
<1>3. Holding' = Holding
  BY <1>1, <1>2 DEF Holding
<1>4. ToSet(queue) = {h \in Gradings : task[h] \in {"queued", "woken"}} /\ ToSet(queue') = ToSet(queue)
  BY <1>1 DEF PermitInv, PermitsBalanced, ToSet
<1>5. /\ {h \in Gradings : task'[h] \in {"queued", "woken"}}
           = {h \in Gradings : task[h] \in {"queued", "woken"}}
      /\ \A h \in ToSet(queue) : task'[h] = task[h]
  BY <1>1, <1>2, <1>4
<1>6. Waiting' = Waiting
  BY <1>1, <1>4, <1>5 DEF Waiting
<1>7. PermitsBalanced'
  BY <1>1, <1>3, <1>4, <1>5, <1>6 DEF PermitInv, PermitsBalanced
<1>8. OnceInQueue'
  BY <1>1, <1>2 DEF PermitInv, OnceInQueue, Idle
<1> QED
  BY <1>1, <1>2, <1>7, <1>8 DEF SemaphoreKept, PermitInv, Moves

LEMMA Unwound ==
  ASSUME Typed, PermitInv, NEW g \in doomed, Unwind(g)
  PROVE  SemaphoreKept(g) /\ g \in Gradings /\ task[g] \notin Idle /\ task'[g] = "cancelled"
<1> DEFINE states == [task EXCEPT ![g] = "cancelled"]
<1>1. /\ task \in [Gradings -> States] /\ queue \in Seq(Gradings) /\ permits \in Nat
      /\ doomed' = doomed \ {g}
  BY DEF Typed, Unwind
<1>2. /\ doomed \subseteq {h \in Gradings : task[h] \notin Idle}
      /\ Injective(queue)
      /\ permits + Cardinality(Holding) = Limit
      /\ permits > 0 /\ Waiting # {} => \E h \in ToSet(queue) : task[h] = "woken"
      /\ ToSet(queue) = {h \in Gradings : task[h] \in {"queued", "woken"}}
  BY DEF PermitInv, OnceInQueue, PermitsBalanced
<1>3. g \in Gradings /\ task[g] \notin Idle
  BY <1>2
<1>4. Cardinality(Holders(states)) = IF task[g] \in Held THEN Cardinality(Holding) - 1
                                                         ELSE Cardinality(Holding)
  <2>1. Holders(states) = Holders(task) \ {g} /\ (g \in Holders(task) <=> task[g] \in Held)
    BY <1>1, <1>3 DEF Holders, Held
  <2> QED
    BY <2>1, HoldersCount, HoldingIsHeld
<1>5. Cardinality(Holding) \in Nat
  BY HoldersCount, HoldingIsHeld
<1>6. CASE task[g] \in {"granted", "live"}
  <2>1. Release(g, "cancelled")
    BY <1>6 DEF Unwind
  <2> QED
    BY <2>1, <1>1, <1>3, <1>6, Released
<1>7. CASE task[g] = "woken"
  <2>1. PICK bound \in {1, Limit} : WakeUp(permits + 1, Dequeued(g), states, bound)
    BY <1>7 DEF Unwind
  <2>2. permits + 1 \in Nat /\ permits + 1 + Cardinality(Holders(states)) = Limit
    BY <1>1, <1>2, <1>4, <1>5, <1>7 DEF Held
  <2>3. bound \in Nat /\ bound # 0
    BY BoundIsNat
  <2> QED
    BY <2>1, <2>2, <2>3, <1>1, <1>3, <1>7, Dequeueing, HandedOn
<1>8. CASE task[g] = "queued"
  <2>1. PICK bound \in {0, Limit} : WakeUp(permits, Dequeued(g), states, bound)
    BY <1>8 DEF Unwind
  <2>2. permits + Cardinality(Holders(states)) = Limit
    BY <1>1, <1>2, <1>4, <1>5, <1>8 DEF Held
  <2>3. bound \in Nat
    BY BoundIsNat
  <2> QED
    BY <2>1, <2>2, <2>3, <1>1, <1>3, <1>8, Dequeueing, HandedOn
<1>9. CASE task[g] = "new"
  <2>1. /\ permits' = permits /\ queue' = queue
        /\ task' \in [Gradings -> States] /\ task'[g] = "cancelled"
        /\ \A h \in Gradings \ {g} : task'[h] = task[h]
    BY <1>1, <1>3, <1>9 DEF Unwind, States
  <2>2. Holding' = Holding
    BY <2>1, <1>1, <1>9 DEF Holding
  <2>3. ToSet(queue') = {h \in Gradings : task'[h] \in {"queued", "woken"}}
    BY <2>1, <1>2, <1>3, <1>9
  <2>4. Waiting' = Waiting
    BY <2>1, <1>1, <1>2, <1>9 DEF Waiting
  <2>5. PermitsBalanced'
    BY <2>1, <2>2, <2>3, <2>4, <1>1, <1>2, <1>9 DEF PermitsBalanced
  <2>6. OnceInQueue'
    BY <2>1, <1>1, <1>2 DEF OnceInQueue
  <2> QED
    BY <2>1, <2>5, <2>6, <1>1, <1>3 DEF SemaphoreKept, PermitInv, Moves
<1> QED
  BY <1>6, <1>7, <1>8, <1>9 DEF Unwind

-----------------------------------------------------------------------------
(* What a step of one grading leaves of the rest.                          *)

LEMMA OutcomeFromSame ==
  ASSUME NEW c \in Cases, NEW got, NEW other, \A g \in Of(c) : got[g] = other[g]
  PROVE  OutcomeFrom(c, got) = OutcomeFrom(c, other)
<1>1. \A i \in DOMAIN Expect[c] :
        got[<<c, judge_key(Expect[c][i])>>] = other[<<c, judge_key(Expect[c][i])>>]
  BY GradingParts
<1> QED
  BY <1>1 DEF OutcomeFrom

LEMMA GradingKeeps ==
  ASSUME IInv, NEW g \in Gradings, task[g] \notin Idle,
         Moves(g),
         UNCHANGED <<run, stage, outcome, baseline>>,
         \A h \in Gradings \ {g} : graded'[h] = graded[h],
         store' \in [Prints -> Answers \cup {None}],
         \A p \in Prints \ {Fingerprint(g)} : store'[p] = store[p],
         run.mode = "replay" => store' = store,
         GradingFits(g)', StoreFits(g)'
  PROVE  GradeInv' /\ RecordInv'
<1>1. /\ task \in [Gradings -> States] /\ stage \in [Cases -> Stages]
      /\ store \in [Prints -> Answers \cup {None}]
  BY DEF IInv, Typed
<1>2. ASSUME NEW h \in Gradings, h # g
      PROVE  /\ task'[h] = task[h] \/ (task[h] = "queued" /\ task'[h] = "woken")
             /\ graded'[h] = graded[h]
  BY <1>2 DEF Moves
<1>3. ASSUME NEW h \in Gradings, task[h] \in {"none", "ended", "raised"}
      PROVE  h # g /\ task'[h] = task[h]
  <2>1. h # g
    BY <1>3 DEF Idle
  <2> QED
    BY <2>1, <1>2, <1>3
<1>4. ASSUME NEW h \in Gradings
      PROVE  GradingFits(h)'
  <2>1. CASE h = g
    BY <2>1
  <2>2. CASE h # g
    <3>1. GradingFits(h)
      BY DEF IInv, GradeInv
    <3>2. graded'[h] = graded[h] /\ run' = run
      BY <2>2
    <3> QED
      <4>1. CASE task'[h] = task[h]
        BY <4>1, <3>1, <3>2 DEF GradingFits
      <4>2. CASE task'[h] = "woken"
        BY <4>2, <3>2 DEF GradingFits
      <4> QED
        BY <4>1, <4>2, <2>2, <1>2
  <2> QED
    BY <2>1, <2>2
<1>5. ASSUME NEW c \in Cases
      PROVE  CaseFits(c)'
  <2>1. CaseFits(c) /\ stage' = stage /\ outcome' = outcome
    BY DEF IInv, GradeInv
  <2>2. \A h \in Of(c) : h \in Gradings
    BY GradingParts
  <2>3. stage[c] = "agent" => \A h \in Of(c) : task'[h] = "none"
    <3> SUFFICES ASSUME stage[c] = "agent", NEW h \in Of(c) PROVE task'[h] = "none"
      OBVIOUS
    <3>1. task[h] = "none"
      BY <2>1 DEF CaseFits
    <3> QED
      BY <3>1, <2>2, <1>3
  <2>4. CASE /\ stage[c] = "reported"
             /\ outcome[c] = RaisedOutcome /\ \E h \in Of(c) : task[h] = "raised"
    <3>1. \E h \in Of(c) : task'[h] = "raised"
      BY <2>2, <2>4, <1>3
    <3> QED
      BY <3>1, <2>1, <2>4 DEF CaseFits, RaisedOutcome
  <2>5. CASE /\ stage[c] = "reported"
             /\ outcome[c] = OutcomeFrom(c, graded) /\ \A h \in Of(c) : task[h] = "ended"
    <3>1. \A h \in Of(c) : h \in Gradings \ {g} /\ task'[h] = "ended"
      BY <2>2, <2>5, <1>3
    <3>2. \A h \in Of(c) : graded'[h] = graded[h]
      BY <3>1, <1>2
    <3>3. OutcomeFrom(c, graded') = OutcomeFrom(c, graded)
      BY <3>2, OutcomeFromSame
    <3>4. OutcomeFrom(c, graded)' = OutcomeFrom(c, graded')
      BY DEF OutcomeFrom
    <3> QED
      BY <3>1, <3>3, <3>4, <2>1, <2>5 DEF CaseFits
  <2> QED
    BY <2>1, <2>3, <2>4, <2>5 DEF CaseFits
<1>6. ASSUME NEW c \in Cases, ~Twinned(c)
      PROVE  (\A h \in Of(c) : StoreFits(h)) ' /\ BaselineFits(c)'
  <2>1. \A h \in Of(c) : h \in Gradings /\ Fingerprint(h) \in Prints
    BY GradingParts
  <2>2. ASSUME NEW h \in Of(c), h # g
        PROVE  store'[Fingerprint(h)] = store[Fingerprint(h)]
    <3>1. Fingerprint(h) # Fingerprint(g)
      <4>1. CASE g \in Of(c)
        BY <4>1, <2>2, <1>6 DEF Twinned
      <4>2. CASE g \notin Of(c)
        <5>1. Fingerprint(h)[1] = c /\ Fingerprint(g)[1] = g[1] /\ g[1] # c
          BY <4>2, <2>1, GradingParts
        <5> QED
          BY <5>1
      <4> QED
        BY <4>1, <4>2
    <3> QED
      BY <3>1, <2>1
  <2>3. ASSUME NEW h \in Of(c)
        PROVE  StoreFits(h)'
    <3>1. CASE h = g
      BY <3>1
    <3>2. CASE h # g
      <4>1. StoreFits(h) /\ run' = run /\ graded'[h] = graded[h]
        BY <3>2, <2>1, <1>6 DEF IInv, RecordInv
      <4>2. task'[h] \in {"ended", "raised"} => task'[h] = task[h]
        <5>1. task'[h] = task[h] \/ task'[h] = "woken"
          BY <3>2, <2>1, <1>2
        <5> QED
          BY <5>1
      <4> QED
        BY <4>1, <4>2, <3>2, <2>2 DEF StoreFits
    <3> QED
      BY <3>1, <3>2
  <2>4. BaselineFits(c)'
    <3>1. BaselineFits(c) /\ baseline' = baseline /\ run' = run /\ stage' = stage
      BY <1>6 DEF IInv, RecordInv
    <3>2. \A h \in Of(c) : Settled(h) => /\ Settled(h)'
                                       /\ store'[Fingerprint(h)] = store[Fingerprint(h)]
      <4> SUFFICES ASSUME NEW h \in Of(c), Settled(h)
                   PROVE  Settled(h)' /\ store'[Fingerprint(h)] = store[Fingerprint(h)]
        OBVIOUS
      <4>1. CASE run.mode = "replay"
        BY <4>1, <3>1 DEF Settled
      <4>2. CASE run.mode # "replay"
        <5>1. task[h] \in {"ended", "raised"}
          BY <4>2 DEF Settled
        <5>2. h # g /\ task'[h] = task[h]
          BY <5>1, <2>1, <1>3
        <5> QED
          BY <5>1, <5>2, <2>2 DEF Settled
      <4> QED
        BY <4>1, <4>2
    <3>3. CASE /\ baseline[c] = RaisedOutcome
               /\ \E h \in Of(c) : /\ store[Fingerprint(h)] \in Answers
                                   /\ store[Fingerprint(h)].kind = "overflow"
                                   /\ Settled(h)
      <4>1. \E h \in Of(c) : /\ store'[Fingerprint(h)] \in Answers
                             /\ store'[Fingerprint(h)].kind = "overflow"
                             /\ Settled(h)'
        BY <3>2, <3>3
      <4> QED
        BY <4>1, <3>1, <3>3 DEF BaselineFits, RaisedOutcome
    <3>4. CASE /\ baseline[c] = OutcomeFrom(c, Stored(c))
               /\ \A h \in Of(c) : /\ store[Fingerprint(h)] \in Answers
                                   /\ store[Fingerprint(h)].kind # "overflow"
                                   /\ Settled(h)
      <4>1. \A h \in Of(c) : /\ store'[Fingerprint(h)] = store[Fingerprint(h)]
                             /\ Settled(h)'
        BY <3>2, <3>4
      <4>2. Stored(c)' = Stored(c)
        BY <4>1 DEF Stored
      <4>3. OutcomeFrom(c, Stored(c))' = OutcomeFrom(c, Stored(c))
        BY <4>2 DEF OutcomeFrom
      <4> QED
        BY <4>1, <4>3, <3>1, <3>4 DEF BaselineFits
    <3> QED
      BY <3>1, <3>3, <3>4 DEF BaselineFits
  <2> QED
    BY <2>3, <2>4
<1> QED
  BY <1>4, <1>5, <1>6 DEF GradeInv, RecordInv

LEMMA EndKeeps ==
  ASSUME IInv, NEW g \in Gradings \ doomed, task[g] \in {"granted", "live"},
         NEW got \in Gets, End(g, got),
         UNCHANGED <<run, stage, doomed, outcome, baseline>>,
         store' \in [Prints -> Answers \cup {None}],
         \A p \in Prints \ {Fingerprint(g)} : store'[p] = store[p],
         run.mode = "replay" => store' = store,
         got = store'[Fingerprint(g)]
           \/ (got = Down /\ (run.mode = "replay" => store'[Fingerprint(g)] = None))
  PROVE  IInv'
<1> DEFINE s == IF got.kind = "overflow" THEN "raised" ELSE "ended"
<1>1. Typed /\ PermitInv /\ g \in Gradings /\ task[g] \notin Idle
  BY DEF IInv, Idle
<1>2. doomed' = doomed \ {g} /\ s \in {"ended", "raised", "cancelled"} /\ Release(g, s)
  BY DEF End
<1>3. /\ task' \in [Gradings -> States] /\ queue' \in Seq(Gradings) /\ permits' \in Nat
      /\ PermitInv'
      /\ task'[g] = s /\ Moves(g)
  BY <1>1, <1>2, Released DEF SemaphoreKept
<1>4. /\ graded' \in [Gradings -> Gets \cup {None}] /\ graded'[g] = got
      /\ \A h \in Gradings \ {g} : graded'[h] = graded[h]
  BY <1>1 DEF End, Typed
<1>5. Typed'
  BY <1>1, <1>3, <1>4 DEF Typed
<1>6. GradingFits(g)'
  <2>1. task'[g] # "live"
    BY <1>3
  <2>2. task'[g] = "raised" <=> graded'[g].kind = "overflow"
    BY <1>3, <1>4
  <2> QED
    BY <2>1, <2>2, <1>4 DEF GradingFits
<1>7. StoreFits(g)'
  BY <1>4 DEF StoreFits
<1>8. GradeInv' /\ RecordInv'
  BY <1>1, <1>3, <1>4, <1>6, <1>7, GradingKeeps
<1> QED
  BY <1>3, <1>5, <1>8 DEF IInv

LEMMA DownIsNoAnswer == Down \in Gets /\ Answers \subseteq Gets /\ Down \notin Answers
<1>1. \A a \in Answers : a.kind \in {"score", "unparseable", "overflow"}
  BY DEF Answers
<1>2. Down.kind = "down"
  BY DEF Down
<1> QED
  BY <1>1, <1>2 DEF Gets

LEMMA GradingStep ==
  ASSUME IInv, NEW g \in Gradings, Grading(g)
  PROVE  IInv'
<1>1. /\ Typed /\ PermitInv
      /\ store \in [Prints -> Answers \cup {None}] /\ Fingerprint(g) \in Prints
      /\ run \in [mode : Modes, failFast : BOOLEAN, number : Nat]
      /\ task \in [Gradings -> States]
  BY GradingParts DEF IInv, Typed
<1>2. CASE g \in doomed
  <2>1. Unwind(g)
    BY <1>2 DEF Grading
  <2>2. SemaphoreKept(g) /\ task[g] \notin Idle /\ task'[g] = "cancelled"
    BY <2>1, <1>1, <1>2, Unwound
  <2>3. UNCHANGED <<run, stage, graded, outcome, store, baseline>>
    BY <2>1 DEF Unwind
  <2>4. GradingFits(g)' /\ StoreFits(g)'
    BY <2>2 DEF GradingFits, StoreFits
  <2>5. GradeInv' /\ RecordInv'
    BY <2>2, <2>3, <2>4, <1>1, GradingKeeps DEF SemaphoreKept
  <2>6. Typed'
    BY <2>2, <2>3, <1>1 DEF Typed, SemaphoreKept
  <2> QED
    BY <2>2, <2>5, <2>6 DEF IInv, SemaphoreKept
<1>3. CASE g \notin doomed
  <2>1. CASE Acquire(g)
    <3>1. SemaphoreKept(g) /\ task'[g] \in {"granted", "queued"}
      BY <2>1, <1>1, <1>3, Acquired
    <3>2. UNCHANGED <<run, stage, graded, outcome, store, baseline>> /\ task[g] \notin Idle
      BY <2>1 DEF Acquire, Idle
    <3>3. GradingFits(g)' /\ StoreFits(g)'
      BY <3>1 DEF GradingFits, StoreFits
    <3>4. GradeInv' /\ RecordInv'
      BY <3>1, <3>2, <3>3, <1>1, GradingKeeps DEF SemaphoreKept
    <3>5. Typed'
      BY <3>1, <3>2, <1>1 DEF Typed, SemaphoreKept
    <3> QED
      BY <3>1, <3>4, <3>5 DEF IInv, SemaphoreKept
  <2>7. CASE Resume(g)
    <3>1. SemaphoreKept(g) /\ task'[g] = "granted"
      BY <2>7, <1>1, <1>3, Resumed
    <3>2. UNCHANGED <<run, stage, graded, outcome, store, baseline>> /\ task[g] \notin Idle
      BY <2>7 DEF Resume, Idle
    <3>3. GradingFits(g)' /\ StoreFits(g)'
      BY <3>1 DEF GradingFits, StoreFits
    <3>4. GradeInv' /\ RecordInv'
      BY <3>1, <3>2, <3>3, <1>1, GradingKeeps DEF SemaphoreKept
    <3>5. Typed'
      BY <3>1, <3>2, <1>1 DEF Typed, SemaphoreKept
    <3> QED
      BY <3>1, <3>4, <3>5 DEF IInv, SemaphoreKept
  <2>2. CASE AskLive(g)
    <3>1. SemaphoreKept(g) /\ task'[g] = "live"
      BY <2>2, <1>1, AskedLive
    <3>2. /\ UNCHANGED <<run, stage, graded, outcome, store, baseline>> /\ task[g] \notin Idle
          /\ run.mode # "replay"
      BY <2>2 DEF AskLive, Idle
    <3>3. GradingFits(g)' /\ StoreFits(g)'
      BY <3>1, <3>2 DEF GradingFits, StoreFits
    <3>4. GradeInv' /\ RecordInv'
      BY <3>1, <3>2, <3>3, <1>1, GradingKeeps DEF SemaphoreKept
    <3>5. Typed'
      BY <3>1, <3>2, <1>1 DEF Typed, SemaphoreKept
    <3> QED
      BY <3>1, <3>4, <3>5 DEF IInv, SemaphoreKept
  <2>3. CASE Serve(g)
    <3>1. /\ store[Fingerprint(g)] \in Gets /\ task[g] \in {"granted", "live"}
          /\ End(g, store[Fingerprint(g)])
          /\ UNCHANGED <<run, stage, doomed, outcome, store, baseline>>
      BY <2>3, <1>1, DownIsNoAnswer DEF Serve
    <3> QED
      BY <3>1, <1>1, <1>3, EndKeeps
  <2>4. CASE Miss(g)
    <3>1. /\ task[g] \in {"granted", "live"} /\ End(g, Down) /\ store[Fingerprint(g)] = None
          /\ UNCHANGED <<run, stage, doomed, outcome, store, baseline>>
      BY <2>4 DEF Miss
    <3> QED
      BY <3>1, <1>1, <1>3, DownIsNoAnswer, EndKeeps
  <2>5. ASSUME NEW a \in Answers, Answer(g, a)
        PROVE  IInv'
    <3>1. /\ task[g] = "live" /\ End(g, a) /\ store' = [store EXCEPT ![Fingerprint(g)] = a]
          /\ UNCHANGED <<run, stage, doomed, outcome, baseline>>
      BY <2>5 DEF Answer
    <3>2. run.mode # "replay"
      BY <3>1 DEF IInv, GradeInv, GradingFits
    <3>3. /\ store' \in [Prints -> Answers \cup {None}] /\ store'[Fingerprint(g)] = a
          /\ \A p \in Prints \ {Fingerprint(g)} : store'[p] = store[p]
      BY <3>1, <1>1
    <3>4. a \in Gets
      BY DownIsNoAnswer
    <3> QED
      BY <3>1, <3>2, <3>3, <3>4, <1>3, EndKeeps
  <2>6. CASE Fail(g)
    <3>1. /\ task[g] = "live" /\ End(g, Down)
          /\ UNCHANGED <<run, stage, doomed, outcome, store, baseline>>
      BY <2>6 DEF Fail
    <3>2. run.mode # "replay"
      BY <3>1 DEF IInv, GradeInv, GradingFits
    <3> QED
      BY <3>1, <3>2, <1>1, <1>3, DownIsNoAnswer, EndKeeps
  <2> QED
    BY <1>3, <2>1, <2>2, <2>3, <2>4, <2>5, <2>6, <2>7 DEF Grading
<1> QED
  BY <1>2, <1>3

-----------------------------------------------------------------------------
(* The steps of a case and of the run.                                     *)

LEMMA StoredSame ==
  ASSUME NEW c \in Cases, store' = store
  PROVE  OutcomeFrom(c, Stored(c))' = OutcomeFrom(c, Stored(c))
<1>1. Stored(c)' = Stored(c)
  BY DEF Stored
<1> QED
  BY <1>1 DEF OutcomeFrom

LEMMA Published ==
  ASSUME IInv, NEW c \in Cases, NEW o, stage[c] = "judging", Publish(c, o),
         \/ o = RaisedOutcome /\ \E g \in Of(c) : task[g] = "raised"
         \/ o = OutcomeFrom(c, graded) /\ \A g \in Of(c) : task[g] = "ended",
         DOMAIN baseline' = Cases,
         \A d \in Cases \ {c} : baseline'[d] = baseline[d],
         ~Twinned(c) => BaselineFits(c)',
         UNCHANGED <<run, task, permits, queue, graded, store>>
  PROVE  IInv'
<1>1. /\ Typed /\ PermitInv
      /\ stage \in [Cases -> Stages] /\ task \in [Gradings -> States]
      /\ DOMAIN outcome = Cases
  BY DEF IInv, Typed
<1>2. /\ stage' \in [Cases -> Stages] /\ stage'[c] = "reported"
      /\ \A d \in Cases \ {c} : \/ stage'[d] = stage[d]
                                \/ stage[d] \notin Finished /\ stage'[d] = "cancelled"
      /\ DOMAIN outcome' = Cases /\ outcome'[c] = o
      /\ \A d \in Cases \ {c} : outcome'[d] = outcome[d]
  BY <1>1 DEF Publish, Stages
<1>3. /\ doomed \subseteq doomed'
      /\ doomed' \subseteq doomed \cup {g \in Gradings : task[g] \notin Idle}
  BY DEF Publish
<1>4. Typed'
  BY <1>1, <1>2 DEF Typed
<1>5. PermitInv'
  <2>1. OnceInQueue'
    BY <1>1, <1>3 DEF PermitInv, OnceInQueue
  <2>2. Holding' = Holding /\ Waiting' \subseteq Waiting
    BY <1>3 DEF Holding, Waiting
  <2>3. PermitsBalanced'
    BY <1>1, <2>2 DEF PermitInv, PermitsBalanced
  <2> QED
    BY <2>1, <2>3 DEF PermitInv
<1>6. GradeInv'
  <2>1. ASSUME NEW g \in Gradings PROVE GradingFits(g)'
    <3>1. GradingFits(g)
      BY DEF IInv, GradeInv
    <3> QED
      BY <3>1 DEF GradingFits
  <2>2. ASSUME NEW d \in Cases PROVE CaseFits(d)'
    <3>1. OutcomeFrom(d, graded)' = OutcomeFrom(d, graded)
      BY DEF OutcomeFrom
    <3>2. CASE d = c
      BY <3>1, <3>2, <1>2 DEF CaseFits, RaisedOutcome
    <3>3. CASE d # c
      <4>1. CaseFits(d)
        BY DEF IInv, GradeInv
      <4>2. outcome'[d] = outcome[d] /\ (stage'[d] = stage[d] \/ stage'[d] = "cancelled")
        BY <3>3, <1>2
      <4>3. CASE stage'[d] = stage[d]
        BY <3>1, <4>1, <4>2, <4>3 DEF CaseFits, RaisedOutcome
      <4>4. CASE stage'[d] = "cancelled"
        BY <4>4 DEF CaseFits
      <4> QED
        BY <4>2, <4>3, <4>4
    <3> QED
      BY <3>2, <3>3
  <2> QED
    BY <2>1, <2>2 DEF GradeInv
<1>7. ASSUME NEW d \in Cases, ~Twinned(d)
      PROVE  (\A g \in Of(d) : StoreFits(g))' /\ BaselineFits(d)'
  <2>1. (\A g \in Of(d) : StoreFits(g)) /\ BaselineFits(d)
    BY <1>7 DEF IInv, RecordInv
  <2>2. (\A g \in Of(d) : StoreFits(g))'
    BY <2>1 DEF StoreFits
  <2>3. CASE d = c
    BY <2>2, <2>3, <1>7
  <2>4. CASE d # c
    <3>1. /\ baseline'[d] = baseline[d]
          /\ stage[d] = "reported" => stage'[d] = "reported"
      BY <2>4, <1>2 DEF Finished
    <3>2. OutcomeFrom(d, Stored(d))' = OutcomeFrom(d, Stored(d))
      BY StoredSame
    <3>3. \A g \in Of(d) : Settled(g)' <=> Settled(g)
      BY DEF Settled
    <3>4. BaselineFits(d)'
      BY <2>1, <3>1, <3>2, <3>3 DEF BaselineFits, RaisedOutcome
    <3> QED
      BY <2>2, <3>4
  <2> QED
    BY <2>3, <2>4
<1>8. RecordInv'
  BY <1>7 DEF RecordInv, Twinned, Of
<1> QED
  BY <1>4, <1>5, <1>6, <1>8 DEF IInv

LEMMA KeptBaseline ==
  ASSUME NEW c \in Cases, BaselineFits(c), stage[c] # "reported",
         baseline' = baseline, UNCHANGED <<run, task, store>>
  PROVE  BaselineFits(c)'
<1>1. OutcomeFrom(c, Stored(c))' = OutcomeFrom(c, Stored(c))
  BY StoredSame
<1>2. \A g \in Of(c) : Settled(g)' <=> Settled(g)
  BY DEF Settled
<1> QED
  BY <1>1, <1>2 DEF BaselineFits, RaisedOutcome

LEMMA ReportStep ==
  ASSUME IInv, NEW c \in Cases, Report(c)
  PROVE  IInv'
<1> DEFINE o == [raised  |-> FALSE,
                 results |-> [i \in DOMAIN Expect[c] |-> Result(c, judge_key(Expect[c][i]))]]
           records == run.mode # "replay" /\ \A g \in Of(c) : graded[g] # Down
<1>1. /\ stage[c] = "judging" /\ \A g \in Of(c) : task[g] = "ended"
      /\ Publish(c, o)
      /\ baseline' = IF records THEN [baseline EXCEPT ![c] = o] ELSE baseline
      /\ UNCHANGED <<run, task, permits, queue, graded, store>>
      /\ DOMAIN baseline = Cases
  BY DEF Report, IInv, Typed
<1>2. o = OutcomeFrom(c, graded)
  BY DEF OutcomeFrom, Result
<1> HIDE DEF o
<1>3. DOMAIN baseline' = Cases /\ \A d \in Cases \ {c} : baseline'[d] = baseline[d]
  BY <1>1
<1>4. ASSUME ~Twinned(c)
      PROVE  BaselineFits(c)'
  <2>1. BaselineFits(c) /\ \A g \in Of(c) : StoreFits(g)
    BY <1>4 DEF IInv, RecordInv
  <2>2. CASE records
    <3>1. baseline'[c] = o /\ stage'[c] = "reported"
      BY <2>2, <1>1 DEF Publish
    <3>2. ASSUME NEW g \in Of(c)
          PROVE  /\ graded[g] = store[Fingerprint(g)]
                 /\ graded[g] \in Answers /\ graded[g].kind # "overflow"
                 /\ Settled(g)'
      <4>1. task[g] = "ended" /\ g \in Gradings
        BY <1>1, GradingParts
      <4>2. GradingFits(g)
        BY <4>1 DEF IInv, GradeInv
      <4>3. graded[g] \in Answers /\ graded[g].kind # "overflow"
        BY <4>1, <4>2, <2>2 DEF GradingFits, Gets
      <4>4. graded[g] = store[Fingerprint(g)]
        BY <4>1, <2>1, <2>2 DEF StoreFits
      <4> QED
        BY <4>1, <4>3, <4>4, <1>1 DEF Settled
    <3>3. OutcomeFrom(c, graded) = OutcomeFrom(c, Stored(c))
      <4>1. \A g \in Of(c) : graded[g] = Stored(c)[g]
        BY <3>2 DEF Stored
      <4> QED
        BY <4>1, OutcomeFromSame
    <3>4. OutcomeFrom(c, Stored(c))' = OutcomeFrom(c, Stored(c))
      BY <1>1, StoredSame
    <3> QED
      BY <3>1, <3>2, <3>3, <3>4, <1>1, <1>2 DEF BaselineFits
  <2>3. CASE ~records
    BY <2>1, <2>3, <1>1, KeptBaseline
  <2> QED
    BY <2>2, <2>3
<1> QED
  BY <1>1, <1>2, <1>3, <1>4, Published

LEMMA ReportRaisedStep ==
  ASSUME IInv, NEW c \in Cases, ReportRaised(c)
  PROVE  IInv'
<1> DEFINE o == RaisedOutcome
           records == run.mode # "replay"
<1>1. /\ stage[c] = "judging" /\ \E g \in Of(c) : task[g] = "raised"
      /\ Publish(c, o)
      /\ baseline' = IF records THEN [baseline EXCEPT ![c] = o] ELSE baseline
      /\ UNCHANGED <<run, task, permits, queue, graded, store>>
      /\ DOMAIN baseline = Cases
  BY DEF ReportRaised, RaisedOutcome, IInv, Typed
<1>2. DOMAIN baseline' = Cases /\ \A d \in Cases \ {c} : baseline'[d] = baseline[d]
  BY <1>1
<1>3. ASSUME ~Twinned(c)
      PROVE  BaselineFits(c)'
  <2>1. BaselineFits(c) /\ \A g \in Of(c) : StoreFits(g)
    BY <1>3 DEF IInv, RecordInv
  <2>2. CASE records
    <3>1. baseline'[c] = o /\ stage'[c] = "reported"
      BY <2>2, <1>1 DEF Publish
    <3>2. PICK g \in Of(c) : task[g] = "raised"
      BY <1>1
    <3>3. GradingFits(g)
      BY GradingParts DEF IInv, GradeInv
    <3>4. graded[g] \in Answers /\ graded[g].kind = "overflow"
      BY <3>2, <3>3 DEF GradingFits, Gets, Down
    <3>5. graded[g] = store[Fingerprint(g)]
      BY <3>2, <3>4, <2>1, DownIsNoAnswer DEF StoreFits
    <3>6. Settled(g)'
      BY <3>2, <1>1 DEF Settled
    <3> QED
      BY <3>1, <3>4, <3>5, <3>6, <1>1 DEF BaselineFits, RaisedOutcome
  <2>3. CASE ~records
    BY <2>1, <2>3, <1>1, KeptBaseline
  <2> QED
    BY <2>2, <2>3
<1> QED
  BY <1>1, <1>2, <1>3, Published

LEMMA EnterStep ==
  ASSUME IInv, NEW c \in Cases, Enter(c)
  PROVE  IInv'
<1>1. /\ Typed /\ PermitInv
      /\ stage \in [Cases -> Stages] /\ task \in [Gradings -> States]
      /\ stage[c] = "agent"
      /\ UNCHANGED <<run, permits, queue, doomed, graded, outcome, store, baseline>>
  BY DEF IInv, Typed, Enter
<1>2. \A g \in Of(c) : task[g] = "none"
  BY <1>1 DEF IInv, GradeInv, CaseFits
<1>3. /\ stage' \in [Cases -> Stages] /\ stage'[c] = "judging"
      /\ \A d \in Cases \ {c} : stage'[d] = stage[d]
  BY <1>1 DEF Enter, Stages
<1>4. /\ task' \in [Gradings -> States]
      /\ \A g \in Gradings : g[1] = c => task[g] = "none" /\ task'[g] = "new"
      /\ \A g \in Gradings : g[1] # c => task'[g] = task[g]
  BY <1>1, <1>2 DEF Enter, States, Of
<1>5. Typed'
  BY <1>1, <1>3, <1>4 DEF Typed
<1>6. PermitInv'
  <2>1. OnceInQueue'
    BY <1>1, <1>4 DEF PermitInv, OnceInQueue, Idle
  <2>2. \A g \in Gradings :
          \A s \in {"queued", "woken", "granted", "live"} : task'[g] = s <=> task[g] = s
    BY <1>4
  <2>3. ToSet(queue') = ToSet(queue) /\ ToSet(queue) \subseteq Gradings
    BY <1>1 DEF PermitInv, PermitsBalanced, ToSet
  <2>4. /\ Holding' = Holding /\ Waiting' = Waiting
        /\ {g \in Gradings : task'[g] \in {"queued", "woken"}}
             = {g \in Gradings : task[g] \in {"queued", "woken"}}
    BY <1>1, <2>2, <2>3 DEF Holding, Waiting
  <2>5. PermitsBalanced'
    BY <1>1, <2>2, <2>3, <2>4 DEF PermitInv, PermitsBalanced
  <2> QED
    BY <2>1, <2>5 DEF PermitInv
<1>7. GradeInv'
  <2>1. ASSUME NEW g \in Gradings PROVE GradingFits(g)'
    <3>1. GradingFits(g)
      BY DEF IInv, GradeInv
    <3> QED
      BY <3>1, <1>1, <1>4 DEF GradingFits
  <2>2. ASSUME NEW d \in Cases PROVE CaseFits(d)'
    <3>1. CASE d = c
      BY <3>1, <1>3 DEF CaseFits
    <3>2. CASE d # c
      <4>1. CaseFits(d)
        BY DEF IInv, GradeInv
      <4>2. \A g \in Of(d) : task'[g] = task[g]
        BY <3>2, <1>4, GradingParts
      <4>3. OutcomeFrom(d, graded)' = OutcomeFrom(d, graded)
        BY <1>1 DEF OutcomeFrom
      <4> QED
        BY <3>2, <4>1, <4>2, <4>3, <1>1, <1>3 DEF CaseFits, RaisedOutcome
    <3> QED
      BY <3>1, <3>2
  <2> QED
    BY <2>1, <2>2 DEF GradeInv
<1>8. ASSUME NEW d \in Cases, ~Twinned(d)
      PROVE  (\A g \in Of(d) : StoreFits(g))' /\ BaselineFits(d)'
  <2>1. (\A g \in Of(d) : StoreFits(g)) /\ BaselineFits(d)
    BY <1>8 DEF IInv, RecordInv
  <2>2. ASSUME NEW g \in Of(d) PROVE StoreFits(g)'
    <3>1. task'[g] \in {"ended", "raised"} => task'[g] = task[g]
      BY <1>4, GradingParts
    <3> QED
      BY <3>1, <2>1, <1>1 DEF StoreFits
  <2>3. OutcomeFrom(d, Stored(d))' = OutcomeFrom(d, Stored(d))
    BY <1>1, StoredSame
  <2>4. CASE d = c
    <3>1. run.mode # "replay" => baseline[c] = None
      BY <2>1, <2>4, <1>1 DEF BaselineFits
    <3>2. run.mode = "replay" => \A g \in Of(d) : Settled(g)'
      BY <1>1 DEF Settled
    <3> QED
      BY <2>1, <2>2, <2>3, <2>4, <3>1, <3>2, <1>1 DEF BaselineFits, RaisedOutcome
  <2>5. CASE d # c
    <3>1. \A g \in Of(d) : Settled(g)' <=> Settled(g)
      BY <2>5, <1>1, <1>4, GradingParts DEF Settled
    <3> QED
      BY <2>1, <2>2, <2>3, <2>5, <3>1, <1>1, <1>3 DEF BaselineFits, RaisedOutcome
  <2> QED
    BY <2>4, <2>5
<1>9. RecordInv'
  BY <1>8 DEF RecordInv, Twinned, Of
<1> QED
  BY <1>5, <1>6, <1>7, <1>9 DEF IInv

LEMMA RestSame ==
  ASSUME IInv, UNCHANGED <<run, stage, task, graded, outcome, store, baseline>>
  PROVE  GradeInv' /\ RecordInv'
<1>1. \A d \in Cases : /\ OutcomeFrom(d, graded)' = OutcomeFrom(d, graded)
                       /\ OutcomeFrom(d, Stored(d))' = OutcomeFrom(d, Stored(d))
  BY StoredSame DEF OutcomeFrom
<1>2. GradeInv'
  <2>1. ASSUME NEW g \in Gradings PROVE GradingFits(g)'
    <3>1. GradingFits(g)
      BY DEF IInv, GradeInv
    <3> QED
      BY <3>1 DEF GradingFits
  <2>2. ASSUME NEW d \in Cases PROVE CaseFits(d)'
    <3>1. CaseFits(d)
      BY DEF IInv, GradeInv
    <3> QED
      BY <3>1, <1>1 DEF CaseFits, RaisedOutcome
  <2> QED
    BY <2>1, <2>2 DEF GradeInv
<1>3. ASSUME NEW d \in Cases, ~Twinned(d)
      PROVE  (\A g \in Of(d) : StoreFits(g))' /\ BaselineFits(d)'
  <2>1. (\A g \in Of(d) : StoreFits(g)) /\ BaselineFits(d)
    BY <1>3 DEF IInv, RecordInv
  <2>2. (\A g \in Of(d) : StoreFits(g))'
    BY <2>1 DEF StoreFits
  <2>3. \A g \in Of(d) : Settled(g)' <=> Settled(g)
    BY DEF Settled
  <2> QED
    BY <2>1, <2>2, <2>3, <1>1 DEF BaselineFits, RaisedOutcome
<1> QED
  BY <1>2, <1>3 DEF RecordInv, Twinned, Of

LEMMA ShutdownStep ==
  ASSUME IInv, Shutdown
  PROVE  IInv'
<1>1. /\ Typed /\ PermitInv
      /\ doomed' = {g \in Gradings : task[g] \notin Idle}
      /\ UNCHANGED <<run, stage, task, permits, queue, graded, outcome, store, baseline>>
  BY DEF IInv, Shutdown
<1>2. Typed'
  BY <1>1 DEF Typed
<1>3. OnceInQueue'
  BY <1>1 DEF PermitInv, OnceInQueue
<1>4. Holding' = Holding
  BY <1>1 DEF Holding
<1>5. Waiting' = {} /\ ToSet(queue') = ToSet(queue)
  BY <1>1 DEF PermitInv, PermitsBalanced, Waiting, Idle, ToSet
<1>6. PermitsBalanced'
  BY <1>1, <1>4, <1>5 DEF PermitInv, PermitsBalanced
<1>7. GradeInv' /\ RecordInv'
  BY <1>1, RestSame
<1> QED
  BY <1>2, <1>3, <1>6, <1>7 DEF IInv, PermitInv

LEMMA StartStep ==
  ASSUME IInv, NEW m \in Modes, NEW ff \in BOOLEAN, StartSession(m, ff)
  PROVE  IInv'
<1>1. /\ Typed /\ PermitInv
      /\ run \in [mode : Modes, failFast : BOOLEAN, number : Nat]
      /\ \A g \in Gradings : task[g] \in Idle
      /\ run' = [mode |-> m, failFast |-> ff, number |-> run.number + 1]
      /\ stage' = [c \in Cases |-> "agent"]
      /\ task' = [g \in Gradings |-> "none"]
      /\ graded' = [g \in Gradings |-> None]
      /\ outcome' = [c \in Cases |-> None]
      /\ permits' = Limit
      /\ baseline' = IF m = "replay" THEN baseline ELSE [c \in Cases |-> None]
      /\ UNCHANGED <<queue, doomed, store>>
  BY DEF IInv, Typed, StartSession
<1>2. \A g \in Gradings : task'[g] = "none"
  BY <1>1
<1>3. Typed'
  <2>1. run' \in [mode : Modes, failFast : BOOLEAN, number : Nat]
    BY <1>1
  <2>2. stage' \in [Cases -> Stages] /\ task' \in [Gradings -> States]
    BY <1>1 DEF Stages, States
  <2>3. graded' \in [Gradings -> Gets \cup {None}] /\ permits' \in Nat
    BY <1>1, JudgeAssumption
  <2>4. DOMAIN outcome' = Cases /\ DOMAIN baseline' = Cases
    BY <1>1 DEF Typed
  <2> QED
    BY <2>1, <2>2, <2>3, <2>4, <1>1 DEF Typed
<1>4. PermitInv'
  <2>1. doomed' = {} /\ Injective(queue') /\ ToSet(queue') = {}
    BY <1>1 DEF PermitInv, OnceInQueue, PermitsBalanced, Idle
  <2>2. Holding' = {} /\ Cardinality({}) = 0
    BY <1>2, FS_EmptySet DEF Holding
  <2>3. Waiting' = {}
    BY <2>1 DEF Waiting, ToSet
  <2>4. {g \in Gradings : task'[g] \in {"queued", "woken"}} = {}
    BY <1>2
  <2>5. PermitsBalanced'
    BY <2>1, <2>2, <2>3, <2>4, <1>1, JudgeAssumption DEF PermitsBalanced
  <2> QED
    BY <2>1, <2>5 DEF PermitInv, OnceInQueue
<1>5. GradeInv'
  BY <1>1, <1>2, GradingParts DEF GradeInv, GradingFits, CaseFits
<1>6. ASSUME NEW d \in Cases, ~Twinned(d)
      PROVE  (\A g \in Of(d) : StoreFits(g))' /\ BaselineFits(d)'
  <2>1. (\A g \in Of(d) : StoreFits(g))'
    BY <1>2, GradingParts DEF StoreFits, Of
  <2>2. BaselineFits(d)
    BY <1>6 DEF IInv, RecordInv
  <2>3. OutcomeFrom(d, Stored(d))' = OutcomeFrom(d, Stored(d))
    BY <1>1, StoredSame
  <2>4. CASE m = "replay"
    <3>1. \A g \in Of(d) : Settled(g)'
      BY <2>4, <1>1 DEF Settled
    <3> QED
      BY <2>1, <2>2, <2>3, <2>4, <3>1, <1>1 DEF BaselineFits, RaisedOutcome
  <2>5. CASE m # "replay"
    <3>1. baseline'[d] = None
      BY <2>5, <1>1
    <3> QED
      BY <3>1, <2>1 DEF BaselineFits
  <2> QED
    BY <2>4, <2>5
<1> QED
  BY <1>3, <1>4, <1>5, <1>6 DEF IInv, RecordInv, Twinned, Of

LEMMA InitIInv == Init => IInv
<1> SUFFICES ASSUME Init PROVE IInv
  OBVIOUS
<1>1. \A g \in Gradings : task[g] = "none"
  BY DEF Init
<1>2. Typed
  BY JudgeAssumption DEF Init, Typed, Stages, States, Prints
<1>3. PermitInv
  <2>1. doomed = {} /\ Injective(queue) /\ ToSet(queue) = {} /\ Waiting = {}
    BY DEF Init, Injective, ToSet, Waiting
  <2>2. Holding = {} /\ Cardinality({}) = 0
    BY <1>1, FS_EmptySet DEF Holding
  <2>3. {g \in Gradings : task[g] \in {"queued", "woken"}} = {}
    BY <1>1
  <2>4. PermitsBalanced
    BY <2>1, <2>2, <2>3, JudgeAssumption DEF PermitsBalanced, Init
  <2> QED
    BY <2>1, <2>4 DEF PermitInv, OnceInQueue
<1>4. GradeInv
  BY <1>1, GradingParts DEF Init, GradeInv, GradingFits, CaseFits
<1>5. RecordInv
  BY <1>1, GradingParts DEF Init, RecordInv, StoreFits, BaselineFits, Of
<1> QED
  BY <1>2, <1>3, <1>4, <1>5 DEF IInv

(* The semaphore, the results and the cassettes fit together in every      *)
(* reachable state.                                                        *)
THEOREM Inductive == Spec => []IInv
<1>1. IInv /\ [Next]_vars => IInv'
  <2> SUFFICES ASSUME IInv, [Next]_vars PROVE IInv'
    OBVIOUS
  <2>1. ASSUME NEW c \in Cases, Case(c) PROVE IInv'
    BY <2>1, EnterStep, ReportStep, ReportRaisedStep DEF Case
  <2>2. ASSUME NEW g \in Gradings, Grading(g) PROVE IInv'
    BY <2>2, GradingStep
  <2>3. CASE Shutdown
    BY <2>3, ShutdownStep
  <2>4. ASSUME NEW m \in Modes, NEW ff \in BOOLEAN, StartSession(m, ff) PROVE IInv'
    BY <2>4, StartStep
  <2>5. CASE UNCHANGED vars
    <3>1. GradeInv' /\ RecordInv'
      BY <2>5, RestSame DEF vars
    <3>2. Typed' /\ PermitInv'
      BY <2>5 DEF vars, IInv, Typed, PermitInv, OnceInQueue, PermitsBalanced, Injective, ToSet,
                  Waiting, Holding
    <3> QED
      BY <3>1, <3>2 DEF IInv
  <2> QED
    BY <2>1, <2>2, <2>3, <2>4, <2>5 DEF Next
<1> QED
  BY <1>1, InitIInv, PTL DEF Spec

-----------------------------------------------------------------------------
(* What the invariant means.                                               *)

(* No permit of the semaphore is lost or handed out twice, and who waits   *)
(* while one is free has a woken waiter in the queue that will see to it,  *)
(* wherever gradings are cancelled.                                        *)
THEOREM PermitsAreBalanced == Spec => []PermitsBalanced
<1>1. IInv => PermitsBalanced
  BY DEF IInv, PermitInv
<1> QED
  BY <1>1, Inductive, PTL

(* Verdicts are shared by key, and the key has all of the rubric.          *)
LEMMA OwnRubric ==
  ASSUME NEW c \in Cases, NEW i \in DOMAIN Expect[c]
  PROVE  judge_key(Rubric(c, judge_key(Expect[c][i]))) = judge_key(Expect[c][i])
<1> DEFINE key == judge_key(Expect[c][i])
           Same == {j \in DOMAIN Expect[c] : judge_key(Expect[c][j]) = key}
<1>1. DOMAIN Expect[c] \subseteq Nat
  BY JudgeAssumption, LenProperties
<1>2. i \in Same /\ Same \subseteq Nat
  BY <1>1
<1>3. IsWellFoundedOn(OpToRel(<, Nat), Nat)
  BY NatLessThanWellFounded, Zenon
<1>4. PICK m \in Same : \A j \in Same : ~(<<j, m>> \in OpToRel(<, Nat))
  BY <1>2, <1>3, WFMin
<1>5. \A j \in Same : ~(j < m)
  BY <1>2, <1>4 DEF OpToRel
<1>6. /\ m \in DOMAIN Expect[c] /\ judge_key(Expect[c][m]) = key
      /\ \A j \in DOMAIN Expect[c] : judge_key(Expect[c][j]) = key => m <= j
  BY <1>1, <1>5
<1> HIDE DEF key, Same
<1>7. judge_key(Rubric(c, key)) = key
  BY <1>6 DEF Rubric
<1> QED
  BY <1>7 DEF key

(* A passed assertion has a grading of its own model and text, with a      *)
(* score at or above its own threshold.                                    *)
THEOREM EachOnItsOwnTerms == Spec => []PassedOnOwnTerms
<1>1. IInv => PassedOnOwnTerms
  <2> SUFFICES ASSUME IInv, NEW c \in Cases, stage[c] = "reported", ~outcome[c].raised,
                      NEW i \in DOMAIN Expect[c], outcome[c].results[i] = "passed"
               PROVE  \E g \in Of(c) :
                        /\ Fingerprint(g) = <<c, Expect[c][i].model, Expect[c][i].text>>
                        /\ graded[g].kind = "score"
                        /\ graded[g].score >= Expect[c][i].threshold
    BY DEF PassedOnOwnTerms
  <2> DEFINE key == judge_key(Expect[c][i])
             g == <<c, key>>
             verdict == Verdict(graded[g], Rubric(c, key))
  <2>1. g \in Of(c)
    BY GradingParts
  <2>2. outcome[c] = OutcomeFrom(c, graded)
    BY DEF IInv, GradeInv, CaseFits, RaisedOutcome
  <2>3. outcome[c].results[i] = IF verdict.error THEN "judge_error"
                                ELSE IF verdict.passed THEN "passed" ELSE "failed"
    BY <2>2 DEF OutcomeFrom
  <2>4. ~verdict.error /\ verdict.passed
    <3> HIDE DEF verdict
    <3> QED
      BY <2>3
  <2>5. graded[g].kind = "score" /\ graded[g].score >= Rubric(c, key).threshold
    BY <2>4 DEF Verdict
  <2>6. Rubric(c, key).threshold = Expect[c][i].threshold
    BY OwnRubric DEF judge_key
  <2>7. Fingerprint(g) = <<c, Expect[c][i].model, Expect[c][i].text>>
    BY DEF Fingerprint, judge_key
  <2> QED
    BY <2>1, <2>5, <2>6, <2>7
<1> QED
  BY <1>1, Inductive, PTL

(* Replay reports of a case what the session that recorded it reported,    *)
(* whichever gradings of other cases were cancelled or failed.             *)
THEOREM ReplayIsFaithful == Spec => []ReplayKeepsOutcomes
<1>1. IInv => ReplayKeepsOutcomes
  <2> SUFFICES ASSUME IInv, NEW c \in Cases, ~Twinned(c),
                      run.mode = "replay", stage[c] = "reported", baseline[c] # None
               PROVE  outcome[c] = baseline[c]
    BY DEF ReplayKeepsOutcomes, SameInReplay
  <2>1. /\ \A g \in Of(c) : StoreFits(g) /\ GradingFits(g)
        /\ BaselineFits(c) /\ CaseFits(c)
    BY GradingParts DEF IInv, GradeInv, RecordInv
  <2>2. ASSUME NEW g \in Of(c), task[g] \in {"ended", "raised"},
               store[Fingerprint(g)] \in Answers
        PROVE  /\ graded[g] = store[Fingerprint(g)]
               /\ task[g] = "raised" <=> store[Fingerprint(g)].kind = "overflow"
    <3>1. store[Fingerprint(g)] # None
      BY <2>2, NoneAssumption
    <3>2. graded[g] = store[Fingerprint(g)]
      BY <2>1, <2>2, <3>1 DEF StoreFits
    <3> QED
      BY <2>1, <2>2, <3>2 DEF GradingFits
  <2>3. CASE /\ baseline[c] = RaisedOutcome
             /\ \E g \in Of(c) : /\ store[Fingerprint(g)] \in Answers
                                 /\ store[Fingerprint(g)].kind = "overflow"
                                 /\ Settled(g)
    <3>1. PICK g \in Of(c) : /\ store[Fingerprint(g)] \in Answers
                             /\ store[Fingerprint(g)].kind = "overflow"
      BY <2>3
    <3>2. task[g] # "ended"
      BY <3>1, <2>2
    <3> QED
      BY <3>2, <2>1, <2>3 DEF CaseFits
  <2>4. CASE /\ baseline[c] = OutcomeFrom(c, Stored(c))
             /\ \A g \in Of(c) : /\ store[Fingerprint(g)] \in Answers
                                 /\ store[Fingerprint(g)].kind # "overflow"
                                 /\ Settled(g)
    <3>1. \A g \in Of(c) : task[g] # "raised"
      BY <2>2, <2>4
    <3>2. outcome[c] = OutcomeFrom(c, graded) /\ \A g \in Of(c) : task[g] = "ended"
      BY <3>1, <2>1 DEF CaseFits
    <3>3. \A g \in Of(c) : graded[g] = Stored(c)[g]
      BY <3>2, <2>2, <2>4 DEF Stored
    <3> QED
      BY <3>2, <3>3, <2>4, OutcomeFromSame
  <2> QED
    BY <2>1, <2>3, <2>4 DEF BaselineFits
<1> QED
  BY <1>1, Inductive, PTL

============================================================================
