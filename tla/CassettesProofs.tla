-------------------------- MODULE CassettesProofs --------------------------
(***************************************************************************)
(* For any number of callers, sessions, turns and retries, any answers,    *)
(* any stale files and kills anywhere: a recording is never lost; where    *)
(* the cases that ask one thing are in one directory, the gateways over    *)
(* the files do what the table of modes promises; and where no two callers *)
(* share a key, replay gives a caller again what it was given.             *)
(***************************************************************************)
EXTENDS Cassettes, SequenceTheorems, FiniteSetTheorems, FunctionTheorems,
        WellFoundedInduction, TLAPS

-----------------------------------------------------------------------------
(* Sequences.                                                              *)

LEMMA SequenceFacts ==
  ASSUME NEW T, NEW s \in Seq(T)
  PROVE  Len(s) \in Nat /\ s \in [1 .. Len(s) -> T] /\ DOMAIN s = 1 .. Len(s)
BY LenProperties

LEMMA OneMore ==
  ASSUME NEW T, NEW s \in Seq(T), NEW x \in T
  PROVE  /\ Append(s, x) \in Seq(T)
         /\ Len(Append(s, x)) = Len(s) + 1
         /\ \A i \in 1 .. Len(s) : Append(s, x)[i] = s[i]
         /\ Append(s, x)[Len(s) + 1] = x
OBVIOUS

(* The first n elements of s; what SubSeq(s, 1, n) is for them.            *)
Start(s, n) == [i \in 1 .. n |-> s[i]]

LEMMA Starts ==
  ASSUME NEW T, NEW s \in Seq(T), NEW n \in 0 .. Len(s)
  PROVE  Start(s, n) \in Seq(T) /\ Len(Start(s, n)) = n /\ Start(s, Len(s)) = s
<1>1. Len(s) \in Nat /\ s \in [1 .. Len(s) -> T]
  BY SequenceFacts
<1>2. n \in Nat /\ Start(s, n) \in [1 .. n -> T]
  BY <1>1 DEF Start
<1>3. Start(s, n) \in Seq(T)
  BY <1>2, SeqDef
<1>4. Len(Start(s, n)) = n
  BY <1>2, <1>3, SequenceFacts DEF Start
<1>5. Start(s, Len(s)) = s
  BY <1>1 DEF Start
<1> QED
  BY <1>3, <1>4, <1>5

LEMMA StartOfMore ==
  ASSUME NEW T, NEW s \in Seq(T), NEW x \in T
  PROVE  /\ \A n \in 0 .. Len(s) : Start(Append(s, x), n) = Start(s, n)
         /\ Start(Append(s, x), Len(s)) = s
<1>1. Len(s) \in Nat /\ s \in [1 .. Len(s) -> T]
  BY SequenceFacts
<1>2. \A n \in 0 .. Len(s) : Start(Append(s, x), n) = Start(s, n)
  BY <1>1, OneMore DEF Start
<1>3. Start(s, Len(s)) = s
  BY <1>1 DEF Start
<1> QED
  BY <1>1, <1>2, <1>3

LEMMA PrefixIsStart ==
  ASSUME NEW T, NEW s \in Seq(T), NEW t \in Seq(T), Len(s) <= Len(t), Start(t, Len(s)) = s
  PROVE  IsPrefix(s, t)
<1>1. Len(s) \in Nat /\ Len(t) \in Nat
  BY SequenceFacts
<1>2. SubSeq(s, 1, Len(s)) = [i \in 1 .. Len(s) |-> s[i]]
  BY <1>1
<1>3. SubSeq(t, 1, Len(s)) = [i \in 1 .. Len(s) |-> t[i]]
  BY <1>1
<1>4. \A i \in 1 .. Len(s) : s[i] = t[i]
  BY DEF Start
<1>5. SubSeq(s, 1, Len(s)) = SubSeq(t, 1, Len(s))
  BY <1>2, <1>3, <1>4
<1> QED
  BY <1>5 DEF IsPrefix

-----------------------------------------------------------------------------
(* What holds in every state: a caller has not more than all its answers,  *)
(* and not all of them unless it is finished, one that writes has an answer and a mode that records, *)
(* and a file that can be used has an answer in it.                        *)

Active == {"ready", "live", "backoff", "writing"}

Files == [schema : {"current", "stale"}, response : Values \cup {None}]

Stored(p) == files[p] # None /\ files[p].schema = "current"

Typed ==
  /\ mode \in Modes
  /\ pc \in [Callers -> Active \cup Finished]
  /\ got \in [Callers -> Seq(Values)]
  /\ pending \in [Callers -> Values \cup {None}]
  /\ files \in [Paths -> Files \cup {None}]
  /\ last \in [Keys -> Values \cup {None}]
  /\ baseline = [c \in Callers |-> baseline[c]]

FilesHoldAnswers == \A p \in Paths : Stored(p) => files[p].response \in Values

InTurn(c) ==
  /\ Len(got[c]) <= Turns
  /\ pc[c] \in Active => Len(got[c]) < Turns
  /\ pc[c] = "writing" => pending[c] \in Values /\ mode \in {"auto", "record"}
  /\ pc[c] \in {"live", "backoff"} => mode # "replay"

IInv == Typed /\ FilesHoldAnswers /\ \A c \in Callers : InTurn(c)

-----------------------------------------------------------------------------
(* Keys and paths.                                                         *)

LEMMA KeyOfHistory ==
  ASSUME NEW c \in Callers, NEW h \in Seq(Values), Len(h) < Turns
  PROVE  storage_key(<<FirstRequest[c], h>>, RepeatOf[c]) \in Keys
<1>1. Len(h) \in 0 .. Turns - 1 /\ h \in [1 .. Len(h) -> Values]
  BY CassettesAssumption, SequenceFacts
<1>2. h \in SeqOf(Values, Turns - 1)
  BY <1>1 DEF SeqOf
<1> QED
  BY <1>2 DEF Keys

LEMMA KeysInUse ==
  ASSUME Typed, NEW c \in Callers, Len(got[c]) < Turns
  PROVE  KeyOf(c) \in Keys /\ PathOf(c) \in Paths
<1>1. KeyOf(c) \in Keys
  BY KeyOfHistory DEF Typed, KeyOf
<1> QED
  BY <1>1 DEF PathOf, Paths

LEMMA Smallest ==
  ASSUME NEW S \in SUBSET Nat, S # {}
  PROVE  \E m \in S : \A n \in S : m <= n
<1>1. IsWellFoundedOn(OpToRel(<, Nat), Nat)
  BY NatLessThanWellFounded, Zenon
<1>2. PICK m \in S : \A n \in S : ~(<<n, m>> \in OpToRel(<, Nat))
  BY <1>1, WFMin
<1>3. \A n \in S : ~(n < m)
  BY <1>2 DEF OpToRel
<1> QED
  BY <1>3

(* `get` finds an answer exactly when some file under the key can be used, *)
(* and returns what one of them holds.                                     *)
Found(key) ==
  /\ Usable(key) = {p \in Paths : p[2] = key /\ Stored(p)}
  /\ get(key) # None <=> Usable(key) # {}
  /\ get(key) # None =>
       \E p \in Usable(key) : get(key) = files[p].response /\ get(key) \in Values

LEMMA Lookup == FilesHoldAnswers => \A key : Found(key)
<1> SUFFICES ASSUME FilesHoldAnswers, NEW key PROVE Found(key)
  OBVIOUS
<1>1. Usable(key) = {p \in Paths : p[2] = key /\ Stored(p)}
  BY DEF Usable, Stored
<1>2. ASSUME Usable(key) # {}
      PROVE  \E p \in Usable(key) : \A q \in Usable(key) : p[1] <= q[1]
  <2> DEFINE D == {p[1] : p \in Usable(key)}
  <2>1. \A p \in Paths : p[1] \in Nat
    BY CassettesAssumption DEF Paths
  <2>2. D \in SUBSET Nat /\ D # {}
    BY <1>1, <1>2, <2>1
  <2>3. PICK m \in D : \A n \in D : m <= n
    <3> HIDE DEF D
    <3> QED
      BY <2>2, Smallest
  <2>4. PICK p \in Usable(key) : p[1] = m
    BY <2>3
  <2> QED
    BY <2>3, <2>4
<1> DEFINE best == CHOOSE p \in Usable(key) : \A q \in Usable(key) : p[1] <= q[1]
<1>3. Usable(key) # {} => best \in Usable(key) /\ get(key) = files[best].response
  BY <1>2 DEF get
<1>4. Usable(key) = {} => get(key) = None
  BY DEF get
<1>5. Usable(key) # {} => get(key) \in Values
  BY <1>1, <1>3 DEF FilesHoldAnswers
<1> HIDE DEF best
<1> QED
  BY <1>1, <1>3, <1>4, <1>5, CassettesAssumption DEF Found

LEMMA LookupNext == (FilesHoldAnswers => \A key : Found(key))'
BY Lookup, PTL

-----------------------------------------------------------------------------

LEMMA InitInvariant == ASSUME Init PROVE IInv
<1>1. Typed
  <2>1. \A p \in Paths : files[p] \in Files \cup {None}
    BY DEF Init, Files
  <2>2. files \in [Paths -> Files \cup {None}]
    BY <2>1 DEF Init
  <2>3. \A c \in Callers : got[c] \in Seq(Values)
    BY DEF Init
  <2> QED
    BY <2>2, <2>3 DEF Init, Typed, Active
<1>2. FilesHoldAnswers
  BY DEF Init, FilesHoldAnswers, Stored
<1>3. \A c \in Callers : InTurn(c)
  BY CassettesAssumption DEF Init, InTurn, Active
<1> QED
  BY <1>1, <1>2, <1>3 DEF IInv

(* Steps of the caller c that change neither answers nor files.            *)
Quiet == UNCHANGED <<mode, got, files, last, baseline>>

Moves(c, where) == pc' = [pc EXCEPT ![c] = where] /\ Quiet

LEMMA QuietStep ==
  ASSUME IInv, Quiet,
         pc' \in [Callers -> Active \cup Finished],
         pending' \in [Callers -> Values \cup {None}],
         \A c \in Callers :
           /\ pc'[c] \in Active => pc[c] \in Active
           /\ pc'[c] = "writing" => pending'[c] \in Values /\ mode \in {"auto", "record"}
           /\ pc'[c] \in {"live", "backoff"} => mode # "replay"
  PROVE  IInv'
<1>1. Typed'
  BY DEF IInv, Typed, Quiet
<1>2. FilesHoldAnswers'
  BY DEF IInv, FilesHoldAnswers, Quiet, Stored
<1>3. \A c \in Callers : InTurn(c)'
  BY DEF IInv, InTurn, Quiet
<1> QED
  BY <1>1, <1>2, <1>3 DEF IInv

(* An answer that returns to the agent loop.                               *)
LEMMA Returned ==
  ASSUME IInv, NEW c \in Callers, NEW v \in Values, pc[c] \in Active, Return(c, v),
         mode' = mode
  PROVE  /\ pc' \in [Callers -> Active \cup Finished]
         /\ got' \in [Callers -> Seq(Values)]
         /\ baseline' = [d \in Callers |-> baseline'[d]]
         /\ pc'[c] \in {"ready", "done"}
         /\ Len(got'[c]) <= Turns
         /\ pc'[c] \in Active => Len(got'[c]) < Turns
         /\ \A d \in Callers \ {c} : pc'[d] = pc[d] /\ got'[d] = got[d]
<1>1. got[c] \in Seq(Values) /\ Len(got[c]) < Turns
  BY DEF IInv, Typed, InTurn
<1>2. Append(got[c], v) \in Seq(Values) /\ Len(Append(got[c], v)) = Len(got[c]) + 1
  BY <1>1, OneMore
<1>3. got' \in [Callers -> Seq(Values)] /\ got'[c] = Append(got[c], v)
      /\ \A d \in Callers \ {c} : got'[d] = got[d]
  BY <1>2 DEF Return, IInv, Typed
<1>4. /\ pc' \in [Callers -> Active \cup Finished]
      /\ pc'[c] = IF Len(got[c]) + 1 < Turns THEN "ready" ELSE "done"
      /\ \A d \in Callers \ {c} : pc'[d] = pc[d]
  BY DEF Return, Goto, IInv, Typed, Active, Finished
<1>5. baseline' = [d \in Callers |-> baseline'[d]]
  BY DEF Return, IInv, Typed
<1>6. Len(got[c]) + 1 <= Turns
  BY <1>1, SequenceFacts, CassettesAssumption
<1> QED
  BY <1>2, <1>3, <1>4, <1>5, <1>6 DEF Active

LEMMA CallerInvariant ==
  ASSUME IInv, NEW c \in Callers, Caller(c)
  PROVE  IInv'
<1> USE DEF IInv, Typed
<1>1. CASE Hit(c)
  <2>1. get(KeyOf(c)) \in Values /\ pc[c] \in Active
    BY <1>1, Lookup DEF Found, Hit, At, Active
  <2>2. Return(c, get(KeyOf(c))) /\ UNCHANGED <<mode, pending, files, last>>
    BY <1>1 DEF Hit
  <2>3. Typed'
    BY <2>1, <2>2, Returned
  <2>4. FilesHoldAnswers'
    BY <2>2 DEF FilesHoldAnswers, Stored
  <2>5. \A d \in Callers : InTurn(d)'
    BY <2>1, <2>2, Returned DEF InTurn
  <2> QED
    BY <2>3, <2>4, <2>5
<1>2. CASE Miss(c)
  <2>1. Moves(c, "missed") /\ pending' = pending
    BY <1>2 DEF Miss, Goto, Moves, Quiet
  <2> QED
    BY <2>1, QuietStep DEF Moves, InTurn, Active, Finished
<1>3. CASE AskLive(c)
  <2>1. Moves(c, "live") /\ pending' = pending /\ mode # "replay" /\ pc[c] \in Active
    BY <1>3 DEF AskLive, At, Goto, Moves, Quiet, Active
  <2> QED
    BY <2>1, QuietStep DEF Moves, InTurn, Active
<1>4. CASE TransientFailure(c)
  <2>1. \E where \in {"failed", "backoff"} : Moves(c, where)
    BY <1>4 DEF TransientFailure, Goto, Moves, Quiet
  <2>2. pending' = pending /\ pc[c] = "live"
    BY <1>4 DEF TransientFailure, At
  <2> QED
    BY <2>1, <2>2, QuietStep DEF Moves, InTurn, Active, Finished
<1>5. CASE FatalFailure(c)
  <2>1. Moves(c, "failed") /\ pending' = pending
    BY <1>5 DEF FatalFailure, Goto, Moves, Quiet
  <2> QED
    BY <2>1, QuietStep DEF Moves, InTurn, Active, Finished
<1>6. CASE BackoffOver(c)
  <2>1. Moves(c, "live") /\ pending' = pending /\ pc[c] = "backoff"
    BY <1>6 DEF BackoffOver, At, Goto, Moves, Quiet
  <2> QED
    BY <2>1, QuietStep DEF Moves, InTurn, Active
<1>7. ASSUME NEW v \in Values, AnswerUnrecorded(c, v) PROVE IInv'
  <2>1. pc[c] \in Active /\ Return(c, v) /\ UNCHANGED <<mode, pending, files, last>>
    BY <1>7 DEF AnswerUnrecorded, At, Active
  <2>2. Typed'
    BY <2>1, Returned
  <2>3. FilesHoldAnswers'
    BY <2>1 DEF FilesHoldAnswers, Stored
  <2>4. \A d \in Callers : InTurn(d)'
    BY <2>1, Returned DEF InTurn
  <2> QED
    BY <2>2, <2>3, <2>4
<1>8. ASSUME NEW v \in Values, AnswerLive(c, v) PROVE IInv'
  <2>1. /\ Moves(c, "writing") /\ pending' = [pending EXCEPT ![c] = v]
        /\ mode \in {"auto", "record"} /\ pc[c] = "live"
    BY <1>8 DEF AnswerLive, At, Goto, Moves, Quiet, InTurn, Modes
  <2> QED
    BY <2>1, QuietStep DEF Moves, InTurn, Active
<1>9. CASE Replace(c)
  <2>1. /\ pc[c] \in Active /\ pending[c] \in Values /\ Return(c, pending[c])
        /\ mode' = mode /\ pending' = [pending EXCEPT ![c] = None]
    BY <1>9 DEF Replace, InTurn, Active
  <2>2. KeyOf(c) \in Keys /\ PathOf(c) \in Paths
    BY <2>1, KeysInUse DEF InTurn
  <2>3. /\ files' = [files EXCEPT ![PathOf(c)] = Current(pending[c])]
        /\ last' = [last EXCEPT ![KeyOf(c)] = pending[c]]
    BY <1>9 DEF Replace
  <2>4. Current(pending[c]) \in Files /\ Current(pending[c]).response = pending[c]
    BY <2>1 DEF Current, Files
  <2>5. Typed'
    <3>1. files' \in [Paths -> Files \cup {None}] /\ last' \in [Keys -> Values \cup {None}]
      BY <2>1, <2>2, <2>3, <2>4
    <3> QED
      BY <2>1, <3>1, Returned
  <2>6. FilesHoldAnswers'
    BY <2>1, <2>2, <2>3, <2>4 DEF FilesHoldAnswers, Stored
  <2>7. \A d \in Callers : InTurn(d)'
    BY <2>1, Returned DEF InTurn
  <2> QED
    BY <2>5, <2>6, <2>7
<1>10. CASE PutFails(c)
  <2>1. Moves(c, "failed") /\ pending' = [pending EXCEPT ![c] = None]
    BY <1>10 DEF PutFails, Goto, Moves, Quiet
  <2> QED
    BY <2>1, QuietStep DEF Moves, InTurn, Active, Finished
<1> QED
  BY <1>1, <1>2, <1>3, <1>4, <1>5, <1>6, <1>7, <1>8, <1>9, <1>10 DEF Caller

LEMMA StepInvariant ==
  ASSUME IInv, [Next]_vars
  PROVE  IInv'
<1>1. CASE Kill
  <2>1. /\ Quiet /\ pending' = [c \in Callers |-> None]
        /\ pc' = [c \in Callers |-> IF pc[c] \in Finished THEN pc[c] ELSE "killed"]
    BY <1>1 DEF Kill, Quiet
  <2> QED
    BY <2>1, QuietStep DEF Active, Finished
<1>2. ASSUME NEW m \in Modes, StartSession(m) PROVE IInv'
  <2>1. Typed'
    <3>1. \A c \in Callers : got'[c] \in Seq(Values)
      BY <1>2 DEF StartSession
    <3> QED
      BY <1>2, <3>1 DEF StartSession, IInv, Typed, Active
  <2>2. FilesHoldAnswers'
    BY <1>2 DEF StartSession, IInv, FilesHoldAnswers, Stored
  <2>3. \A c \in Callers : InTurn(c)'
    BY <1>2, CassettesAssumption DEF StartSession, InTurn
  <2> QED
    BY <2>1, <2>2, <2>3 DEF IInv
<1>3. CASE UNCHANGED vars
  BY <1>3, QuietStep DEF vars, Quiet, IInv, Typed, InTurn
<1> QED
  BY <1>1, <1>2, <1>3, CallerInvariant DEF Next

(* The invariant of the gateways holds throughout.                         *)
THEOREM Inductive == Spec => []IInv
<1>1. Init => IInv
  BY InitInvariant
<1>2. IInv /\ [Next]_vars => IInv'
  BY StepInvariant
<1> QED
  BY <1>1, <1>2, PTL DEF Spec

-----------------------------------------------------------------------------
(* Recordings survive.                                                     *)

(* What a step does to the files: nothing, or it stores one answer.        *)
LEMMA FilesChange ==
  ASSUME IInv, [Next]_vars
  PROVE  \/ files' = files /\ last' = last
         \/ \E c \in Callers :
              /\ Replace(c) /\ pending[c] \in Values /\ mode \in {"auto", "record"}
              /\ KeyOf(c) \in Keys /\ PathOf(c) \in Paths
<1>1. ASSUME NEW c \in Callers, Replace(c)
      PROVE  /\ pending[c] \in Values /\ mode \in {"auto", "record"}
             /\ KeyOf(c) \in Keys /\ PathOf(c) \in Paths
  <2>1. /\ pending[c] \in Values /\ mode \in {"auto", "record"} /\ Len(got[c]) < Turns
    BY <1>1 DEF IInv, InTurn, Replace, Active
  <2> QED
    BY <2>1, KeysInUse DEF IInv
<1>2. ASSUME NEW c \in Callers, Caller(c), ~Replace(c)
      PROVE  files' = files /\ last' = last
  BY <1>2 DEF Caller, Hit, Miss, AskLive, TransientFailure, FatalFailure, BackoffOver,
              AnswerUnrecorded, AnswerLive, PutFails
<1>3. Kill \/ (\E m \in Modes : StartSession(m)) \/ UNCHANGED vars
        => files' = files /\ last' = last
  BY DEF Kill, StartSession, vars
<1> QED
  BY <1>1, <1>2, <1>3 DEF Next

LEMMA StoredStays ==
  ASSUME IInv, [Next]_vars, NEW p \in Paths, Stored(p)
  PROVE  Stored(p)'
<1>1. CASE files' = files
  BY <1>1 DEF Stored
<1>2. ASSUME NEW c \in Callers, Replace(c), pending[c] \in Values
      PROVE  Stored(p)'
  <2>1. files' = [files EXCEPT ![PathOf(c)] = Current(pending[c])]
    BY <1>2 DEF Replace
  <2>2. Current(pending[c]) # None /\ Current(pending[c]).schema = "current"
    BY <1>2, CassettesAssumption DEF Current
  <2> QED
    BY <2>1, <2>2 DEF Stored, IInv, Typed
<1> QED
  BY <1>1, <1>2, FilesChange

(* A stored key is never turned into a miss: a write that fails, a kill in *)
(* the middle of a rewrite and a session in any mode leave it its answer   *)
(* or give it a new one (FileCassetteStore.put).                           *)
THEOREM Survives == Spec => RecordingSurvives
<1> DEFINE Kept == \A k \in Keys : get(k) # None => get(k)' # None
<1>1. IInv /\ IInv' /\ [Next]_vars => [Kept]_vars
  <2> SUFFICES ASSUME IInv, IInv', [Next]_vars, NEW k \in Keys, get(k) # None
               PROVE  get(k)' # None
    OBVIOUS
  <2>1. PICK p \in Paths : p[2] = k /\ Stored(p)
    BY Lookup DEF Found, IInv
  <2>2. Stored(p)'
    BY <2>1, StoredStays
  <2>3. Usable(k)' # {}
    BY <2>1, <2>2, LookupNext DEF Found, IInv
  <2> QED
    BY <2>3, LookupNext DEF Found, IInv
<1> QED
  BY <1>1, Inductive, PTL DEF Spec, RecordingSurvives

-----------------------------------------------------------------------------
(* The gateways implement the table of modes.                              *)

(* Cases that ask the same are in one directory, so that a key has one     *)
(* file only. `get` looks in every directory, `put` writes to the case's   *)
(* own: with two files of a key the reader need not find the last one.     *)
OneDirectoryPerKey ==
  \A c, d \in Callers :
    FirstRequest[c] = FirstRequest[d] /\ RepeatOf[c] = RepeatOf[d] => CaseOf[c] = CaseOf[d]

(* The directory of p is that of a case that has its key.                  *)
AtHome(p) ==
  \E c \in Callers : /\ p[1] = CaseOf[c]
                     /\ p[2][1] = FirstRequest[c] /\ p[2][3] = RepeatOf[c]

(* What the files hold is what was stored last.                            *)
FilesMirrorLast ==
  /\ \A p \in Paths : Stored(p) => AtHome(p) /\ files[p].response = last[p[2]]
  /\ \A k \in Keys : last[k] # None => Usable(k) # {}

LEMMA MirrorsInit == ASSUME Init PROVE FilesMirrorLast
<1>1. \A p \in Paths : ~Stored(p)
  BY DEF Init, Stored
<1> QED
  BY <1>1 DEF Init, FilesMirrorLast

LEMMA MirrorsStep ==
  ASSUME OneDirectoryPerKey, IInv, IInv', FilesMirrorLast, [Next]_vars
  PROVE  FilesMirrorLast'
<1>1. \A k : Usable(k) = {p \in Paths : p[2] = k /\ Stored(p)}
  BY Lookup DEF Found, IInv
<1>2. \A k : Usable(k)' = {p \in Paths : p[2] = k /\ Stored(p)'}
  BY LookupNext DEF Found, IInv
<1>3. CASE files' = files /\ last' = last
  <2>1. \A p \in Paths : Stored(p)' <=> Stored(p)
    BY <1>3 DEF Stored
  <2> QED
    BY <1>1, <1>2, <1>3, <2>1 DEF FilesMirrorLast
<1>4. ASSUME NEW c \in Callers, Replace(c), pending[c] \in Values,
             KeyOf(c) \in Keys, PathOf(c) \in Paths
      PROVE  FilesMirrorLast'
  <2> DEFINE here == PathOf(c)
             v == pending[c]
  <2>1. /\ files' = [files EXCEPT ![here] = Current(v)]
        /\ last' = [last EXCEPT ![here[2]] = v]
        /\ here[2] \in Keys
    BY <1>4 DEF Replace, PathOf
  <2>2. AtHome(here) /\ here[2] = KeyOf(c) /\ here[1] = CaseOf[c]
        /\ here[2][1] = FirstRequest[c] /\ here[2][3] = RepeatOf[c]
    BY DEF AtHome, PathOf, KeyOf, storage_key
  <2>3. here \in Paths /\ Current(v).response = v /\ Current(v).schema = "current"
        /\ Current(v) # None
    BY <1>4, CassettesAssumption DEF Current
  <2> HIDE DEF here, v
  <2>4. /\ files'[here] = Current(v) /\ last'[here[2]] = v
        /\ \A p \in Paths \ {here} : files'[p] = files[p]
        /\ \A k \in Keys \ {here[2]} : last'[k] = last[k]
    BY <2>1, <2>3 DEF IInv, Typed
  <2>5. ASSUME NEW p \in Paths, Stored(p)'
        PROVE  AtHome(p) /\ files'[p].response = last'[p[2]]
    <3>1. CASE p = here
      BY <2>2, <2>3, <2>4, <3>1
    <3>2. CASE p # here
      <4>1. Stored(p) /\ files'[p] = files[p]
        BY <2>4, <2>5, <3>2 DEF Stored
      <4>2. AtHome(p) /\ files[p].response = last[p[2]] /\ p[2] \in Keys
        BY <4>1 DEF FilesMirrorLast, Paths
      <4>3. p[2] # here[2]
        <5>1. SUFFICES ASSUME p[2] = here[2] PROVE FALSE
          OBVIOUS
        <5>2. p[1] = CaseOf[c]
          BY <2>2, <4>2, <5>1 DEF OneDirectoryPerKey, AtHome
        <5>3. p = <<p[1], p[2]>> /\ here = <<here[1], here[2]>>
          BY <2>3 DEF Paths
        <5> QED
          BY <2>2, <3>2, <5>1, <5>2, <5>3
      <4> QED
        BY <2>4, <4>1, <4>2, <4>3
    <3> QED
      BY <3>1, <3>2
  <2>6. ASSUME NEW k \in Keys, last'[k] # None
        PROVE  Usable(k)' # {}
    <3>1. CASE k = here[2]
      BY <1>2, <2>3, <2>4, <3>1 DEF Stored
    <3>2. CASE k # here[2]
      <4>1. PICK p \in Paths : p[2] = k /\ Stored(p)
        BY <1>1, <2>4, <2>6, <3>2 DEF FilesMirrorLast
      <4>2. Stored(p)'
        BY <4>1, StoredStays
      <4> QED
        BY <1>2, <4>1, <4>2
    <3> QED
      BY <3>1, <3>2
  <2>7. \A p : AtHome(p)' <=> AtHome(p)
    BY DEF AtHome
  <2> QED
    BY <2>5, <2>6, <2>7 DEF FilesMirrorLast
<1> QED
  BY <1>3, <1>4, FilesChange

LEMMA MirrorsLookup ==
  ASSUME IInv, FilesMirrorLast, NEW k \in Keys
  PROVE  get(k) = last[k]
<1>1. /\ Usable(k) = {p \in Paths : p[2] = k /\ Stored(p)}
      /\ get(k) # None <=> Usable(k) # {}
      /\ get(k) # None => \E p \in Usable(k) : get(k) = files[p].response
  BY Lookup DEF Found, IInv
<1> QED
  BY <1>1 DEF FilesMirrorLast

(* Where a key has one directory, its file holds what was stored last.     *)
THEOREM Mirrors == OneDirectoryPerKey => (Spec => [](IInv /\ FilesMirrorLast))
<1>1. Init => FilesMirrorLast
  BY MirrorsInit
<1>2. ASSUME OneDirectoryPerKey
      PROVE  IInv /\ IInv' /\ FilesMirrorLast /\ [Next]_vars => FilesMirrorLast'
  BY <1>2, MirrorsStep
<1> SUFFICES ASSUME OneDirectoryPerKey PROVE Spec => [](IInv /\ FilesMirrorLast)
  OBVIOUS
<1> QED
  BY <1>1, <1>2, Inductive, PTL DEF Spec

LEMMA SameKeys == Promise!Keys = Keys /\ \A c : Promise!KeyOf(c) = KeyOf(c)
BY DEF Promise!Keys, Keys, Promise!KeyOf, KeyOf, storage_key, SeqOf, Promise!SeqOf

LEMMA PromiseInit == ASSUME Init PROVE Promise!Init
<1>1. last \in [Promise!Keys -> Values \cup {None}]
  BY SameKeys DEF Init
<1> QED
  BY <1>1 DEF Init, Promise!Init, Modes, Promise!Modes

LEMMA PromiseStep ==
  ASSUME IInv, FilesMirrorLast, [Next]_vars
  PROVE  [Promise!Next]_<<mode, last, got>>
<1>1. CASE Kill
  BY <1>1 DEF Kill
<1>2. ASSUME NEW m \in Modes, StartSession(m) PROVE Promise!Next
  <2>1. Promise!Session(m)
    BY <1>2 DEF StartSession, Promise!Session
  <2> QED
    BY <2>1 DEF Promise!Next, Promise!Modes, Modes
<1>3. ASSUME NEW c \in Callers, Caller(c) PROVE [Promise!Next]_<<mode, last, got>>
  <2>1. CASE Hit(c)
    <3>1. Len(got[c]) < Turns /\ KeyOf(c) \in Keys
      BY <2>1, KeysInUse DEF Hit, At, IInv, InTurn, Active
    <3>2. get(KeyOf(c)) = last[KeyOf(c)]
      BY <3>1, MirrorsLookup
    <3>3. Promise!Serve(c)
      BY <2>1, <3>1, <3>2, SameKeys
         DEF Hit, Return, Promise!Serve, Promise!Answer
    <3> QED
      BY <3>3 DEF Promise!Next
  <2>2. CASE Miss(c) \/ AskLive(c) \/ TransientFailure(c) \/ FatalFailure(c)
             \/ BackoffOver(c) \/ PutFails(c)
    BY <2>2 DEF Miss, AskLive, TransientFailure, FatalFailure, BackoffOver, PutFails
  <2>3. ASSUME NEW v \in Values, AnswerLive(c, v)
        PROVE  UNCHANGED <<mode, last, got>>
    BY <2>3 DEF AnswerLive
  <2>4. ASSUME NEW v \in Values, AnswerUnrecorded(c, v) PROVE Promise!Next
    <3>1. Promise!Bypass(c, v)
      BY <2>4 DEF AnswerUnrecorded, At, IInv, InTurn, Active, Return,
                  Promise!Bypass, Promise!Answer
    <3> QED
      BY <3>1 DEF Promise!Next
  <2>5. CASE Replace(c)
    <3>1. /\ Len(got[c]) < Turns /\ pending[c] \in Values
          /\ mode \in {"auto", "record"}
      BY <2>5 DEF Replace, IInv, InTurn, Active
    <3>2. Promise!Record(c, pending[c])
      BY <2>5, <3>1, SameKeys DEF Replace, Return, Promise!Record, Promise!Answer
    <3> QED
      BY <3>1, <3>2 DEF Promise!Next
  <2> QED
    BY <1>3, <2>1, <2>2, <2>3, <2>4, <2>5 DEF Caller
<1>4. CASE UNCHANGED vars
  BY <1>4 DEF vars
<1> QED
  BY <1>1, <1>2, <1>3, <1>4 DEF Next

(* Where a key has one file, CachingGateway over RetryingGateway over      *)
(* FileCassetteStore is the table of modes, for any interleaving, failures *)
(* and kills: a hit serves what was stored last, an answer is stored no    *)
(* later than it is returned, replay is never live and off stores nothing. *)
THEOREM ModesKept == OneDirectoryPerKey => (Spec => ImplementsModes)
<1>1. Init => Promise!Init
  BY PromiseInit
<1>2. IInv /\ FilesMirrorLast /\ [Next]_vars => [Promise!Next]_<<mode, last, got>>
  BY PromiseStep
<1> SUFFICES ASSUME OneDirectoryPerKey PROVE Spec => ImplementsModes
  OBVIOUS
<1>3. Spec => [](IInv /\ FilesMirrorLast)
  BY Mirrors
<1> QED
  BY <1>1, <1>2, <1>3, PTL DEF Spec, ImplementsModes, Promise!Spec, Promise!vars

-----------------------------------------------------------------------------
(* Replay reproduces.                                                      *)

(* No two callers share a key: the repetitions of a case have different    *)
(* indices, and other cases ask something else.                            *)
OneCallerPerKey ==
  \A c, d \in Callers :
    FirstRequest[c] = FirstRequest[d] /\ RepeatOf[c] = RepeatOf[d] => c = d

KeyAfter(c, h) == storage_key(<<FirstRequest[c], h>>, RepeatOf[c])

(* The answers s of the caller c are those in the given map of keys.       *)
RecordedIn(map, c, s) ==
  \A i \in 1 .. Len(s) : map[KeyAfter(c, Start(s, i - 1))] = s[i]

Reproducible(c) ==
  /\ mode \in {"auto", "record"} => RecordedIn(last, c, got[c])
  /\ baseline[c] # None =>
       /\ baseline[c] \in Seq(Values) /\ Len(baseline[c]) = Turns
       /\ RecordedIn(last, c, baseline[c])
       /\ mode \in {"auto", "record"} => pc[c] \notin Active
       /\ mode = "replay" =>
            /\ pc[c] # "missed"
            /\ Start(baseline[c], Len(got[c])) = got[c]

RInv == IInv /\ FilesMirrorLast /\ \A c \in Callers : Reproducible(c)

LEMMA ReproducibleReplays ==
  ASSUME RInv
  PROVE  ReplayReproduces
<1> SUFFICES ASSUME mode = "replay", NEW c \in Callers, baseline[c] # None
             PROVE  pc[c] # "missed" /\ IsPrefix(got[c], baseline[c])
  BY DEF ReplayReproduces
<1> QED
  BY PrefixIsStart DEF RInv, Reproducible, IInv, Typed, InTurn

(* What has been stored of a caller's answers stays when another caller,   *)
(* or the caller itself further on, stores one.                            *)
LEMMA OtherKeys ==
  ASSUME OneCallerPerKey, NEW c \in Callers, NEW d \in Callers,
         NEW h \in Seq(Values), NEW g \in Seq(Values),
         KeyAfter(c, h) = KeyAfter(d, g)
  PROVE  c = d /\ Len(h) = Len(g)
BY DEF OneCallerPerKey, KeyAfter, storage_key

LEMMA StillRecorded ==
  ASSUME OneCallerPerKey, Typed, NEW c \in Callers, NEW d \in Callers,
         NEW v \in Values,
         NEW s \in Seq(Values), Len(s) <= Turns, RecordedIn(last, d, s),
         d = c => Len(s) <= Len(got[c])
  PROVE  RecordedIn([last EXCEPT ![KeyOf(c)] = v], d, s)
<1> DEFINE map == [last EXCEPT ![KeyOf(c)] = v]
<1> SUFFICES ASSUME NEW i \in 1 .. Len(s)
             PROVE  map[KeyAfter(d, Start(s, i - 1))] = s[i]
  BY DEF RecordedIn
<1> DEFINE h == Start(s, i - 1)
<1>1. Len(s) \in Nat /\ i - 1 \in 0 .. Len(s)
  BY SequenceFacts
<1>2. h \in Seq(Values) /\ Len(h) = i - 1
  BY <1>1, Starts
<1>3. got[c] \in Seq(Values) /\ KeyOf(c) = KeyAfter(c, got[c])
  BY DEF Typed, KeyOf, KeyAfter
<1>4. Len(got[c]) \in Nat
  BY <1>3, SequenceFacts
<1>7. last[KeyAfter(d, h)] = s[i]
  BY DEF RecordedIn
<1> HIDE DEF h
<1>5. KeyAfter(d, h) # KeyOf(c)
  BY <1>1, <1>2, <1>3, <1>4, OtherKeys
<1>6. KeyAfter(d, h) \in Keys
  BY <1>1, <1>2, KeyOfHistory, CassettesAssumption DEF KeyAfter
<1>8. map[KeyAfter(d, h)] = s[i]
  BY <1>5, <1>6, <1>7 DEF Typed
<1> QED
  BY <1>8 DEF h

(* One more answer, which is stored.                                       *)
LEMMA MoreRecorded ==
  ASSUME NEW map, NEW c \in Callers, NEW s \in Seq(Values), NEW v \in Values,
         RecordedIn(map, c, s), map[KeyAfter(c, s)] = v
  PROVE  RecordedIn(map, c, Append(s, v))
<1> SUFFICES ASSUME NEW i \in 1 .. Len(Append(s, v))
             PROVE  map[KeyAfter(c, Start(Append(s, v), i - 1))] = Append(s, v)[i]
  BY DEF RecordedIn
<1>1. Len(s) \in Nat /\ i \in 1 .. Len(s) + 1
  BY SequenceFacts, OneMore
<1>2. CASE i = Len(s) + 1
  BY <1>1, <1>2, OneMore, StartOfMore
<1>3. CASE i \in 1 .. Len(s)
  <2>1. i - 1 \in 0 .. Len(s)
    BY <1>1, <1>3
  <2> QED
    BY <1>3, <2>1, OneMore, StartOfMore DEF RecordedIn
<1> QED
  BY <1>1, <1>2, <1>3

(* complete() returns v to the caller c: in a mode that records it was     *)
(* stored, or was there already; in replay it is what was stored.          *)
LEMMA ReturnReproducible ==
  ASSUME IInv, NEW c \in Callers, Reproducible(c), NEW v \in Values,
         pc[c] \in Active, Return(c, v), mode' = mode,
         mode \in {"auto", "record"} =>
           RecordedIn(last', c, got[c]) /\ last'[KeyAfter(c, got[c])] = v,
         mode \notin {"auto", "record"} => last' = last,
         mode = "replay" => last[KeyAfter(c, got[c])] = v
  PROVE  Reproducible(c)'
<1>1. /\ got[c] \in Seq(Values) /\ Len(got[c]) \in Nat /\ Len(got[c]) < Turns
      /\ Turns \in Nat
  BY SequenceFacts, CassettesAssumption DEF IInv, Typed, InTurn
<1>2. /\ got'[c] = Append(got[c], v)
      /\ pc'[c] = IF Len(got[c]) + 1 < Turns THEN "ready" ELSE "done"
  BY DEF Return, Goto, IInv, Typed
<1>3. got'[c] \in Seq(Values) /\ Len(got'[c]) = Len(got[c]) + 1
  BY <1>1, <1>2, OneMore
<1>4. CASE mode \in {"auto", "record"}
  <2>1. RecordedIn(last', c, got'[c])
    BY <1>1, <1>2, <1>4, MoreRecorded
  <2>2. baseline[c] = None
    BY <1>4 DEF Reproducible
  <2>3. baseline'[c] = IF Len(got[c]) + 1 = Turns THEN got'[c] ELSE None
    BY <1>2, <1>4, <2>2 DEF Return, IInv, Typed
  <2>4. Len(got[c]) + 1 = Turns => pc'[c] \notin Active
    BY <1>1, <1>2 DEF Active
  <2> QED
    BY <1>1, <1>3, <1>4, <2>1, <2>3, <2>4 DEF Reproducible
<1>5. CASE mode \notin {"auto", "record"}
  <2>1. baseline'[c] = baseline[c] /\ last' = last
    BY <1>5 DEF Return
  <2>2. ASSUME baseline[c] # None, mode = "replay"
        PROVE  Start(baseline[c], Len(got'[c])) = got'[c]
    <3> DEFINE b == baseline[c]
               n == Len(got[c])
    <3>1. b \in Seq(Values) /\ Len(b) = Turns /\ Start(b, n) = got[c]
          /\ RecordedIn(last, c, b)
      BY <2>2 DEF Reproducible
    <3> HIDE DEF b
    <3>2. last[KeyAfter(c, Start(b, n + 1 - 1))] = b[n + 1]
      BY <1>1, <3>1 DEF RecordedIn
    <3>3. n + 1 - 1 = n
      BY <1>1
    <3>4. b[n + 1] = v
      BY <2>2, <3>1, <3>2, <3>3
    <3>5. \A i \in 1 .. n : b[i] = got[c][i]
      BY <3>1 DEF Start
    <3>6. got'[c] \in [1 .. n + 1 -> Values]
      BY <1>3, SequenceFacts
    <3>7. \A i \in 1 .. n + 1 : got'[c][i] = b[i]
      BY <1>1, <1>2, <3>4, <3>5, OneMore
    <3>8. Start(b, n + 1) = got'[c]
      BY <3>6, <3>7 DEF Start
    <3> QED
      BY <1>3, <3>8 DEF b
  <2> QED
    BY <1>1, <1>2, <1>3, <1>5, <2>1, <2>2 DEF Reproducible
<1> QED
  BY <1>4, <1>5

(* Steps that return nothing to a caller.                                  *)
LEMMA NothingReturned ==
  ASSUME NEW c \in Callers, Reproducible(c), UNCHANGED <<mode, last>>,
         got'[c] = got[c], baseline'[c] = baseline[c],
         pc'[c] \in Active => pc[c] \in Active,
         pc'[c] = "missed" => pc[c] = "missed" \/ mode # "replay" \/ baseline[c] = None
  PROVE  Reproducible(c)'
BY DEF Reproducible

LEMMA ReproducibleInit == ASSUME Init PROVE \A c \in Callers : Reproducible(c)
BY DEF Init, Reproducible, RecordedIn

LEMMA ReproducibleCaller ==
  ASSUME OneCallerPerKey, RInv, NEW c \in Callers, Caller(c)
  PROVE  \A d \in Callers : Reproducible(d)'
<1>0. /\ IInv /\ Typed /\ FilesMirrorLast /\ \A d \in Callers : Reproducible(d)
      /\ \A d \in Callers : got[d] \in Seq(Values) /\ Len(got[d]) \in Nat
      /\ KeyOf(c) = KeyAfter(c, got[c])
  BY SequenceFacts DEF RInv, IInv, Typed, KeyOf, KeyAfter
<1>1. CASE Hit(c)
  <2> DEFINE v == get(KeyOf(c))
  <2>1. /\ pc[c] \in Active /\ mode \in {"auto", "replay"} /\ v # None
        /\ Return(c, v) /\ mode' = mode /\ last' = last
    BY <1>1 DEF Hit, At, Active
  <2>2. Len(got[c]) < Turns /\ KeyOf(c) \in Keys
    BY <1>0, <2>1, KeysInUse DEF IInv, InTurn
  <2>3. v = last[KeyAfter(c, got[c])] /\ v \in Values
    BY <1>0, <2>1, <2>2, MirrorsLookup DEF Typed
  <2> HIDE DEF v
  <2>4. mode \in {"auto", "record"} => RecordedIn(last', c, got[c])
    BY <1>0, <2>1 DEF Reproducible
  <2>5. Reproducible(c)'
    BY <1>0, <2>1, <2>3, <2>4, ReturnReproducible
  <2>6. ASSUME NEW d \in Callers \ {c} PROVE Reproducible(d)'
    BY <1>0, <2>1, NothingReturned DEF Return, Goto, Typed
  <2> QED
    BY <2>5, <2>6
<1>2. CASE Miss(c)
  <2>1. /\ pc[c] = "ready" /\ mode = "replay" /\ get(KeyOf(c)) = None
        /\ Moves(c, "missed")
    BY <1>2 DEF Miss, At, Goto, Moves, Quiet
  <2>2. Len(got[c]) < Turns /\ KeyOf(c) \in Keys
    BY <1>0, <2>1, KeysInUse DEF IInv, InTurn, Active
  <2>3. last[KeyAfter(c, got[c])] = None
    BY <1>0, <2>1, <2>2, MirrorsLookup
  <2>4. SUFFICES ASSUME baseline[c] # None PROVE FALSE
    BY <1>0, <2>1, NothingReturned DEF Moves, Quiet, Active, Typed
  <2> DEFINE b == baseline[c]
             n == Len(got[c])
  <2>5. /\ b \in Seq(Values) /\ Len(b) = Turns /\ Start(b, n) = got[c]
        /\ RecordedIn(last, c, b)
    BY <1>0, <2>1, <2>4 DEF Reproducible
  <2> HIDE DEF b
  <2>6. n + 1 \in 1 .. Len(b) /\ n + 1 - 1 = n
    BY <1>0, <2>2, <2>5, CassettesAssumption
  <2>7. last[KeyAfter(c, Start(b, n))] = b[n + 1] /\ b[n + 1] \in Values
    BY <2>5, <2>6 DEF RecordedIn
  <2> QED
    BY <2>3, <2>5, <2>7, CassettesAssumption
<1>3. CASE \/ AskLive(c) \/ TransientFailure(c) \/ FatalFailure(c) \/ BackoffOver(c)
           \/ PutFails(c) \/ \E v \in Values : AnswerLive(c, v)
  <2>1. /\ Quiet /\ pc[c] \in Active
        /\ \E where \in {"live", "failed", "backoff", "writing"} :
             pc' = [pc EXCEPT ![c] = where]
    BY <1>3 DEF AskLive, TransientFailure, FatalFailure, BackoffOver, PutFails, AnswerLive,
                At, Goto, Quiet, Active
  <2> QED
    BY <1>0, <2>1, NothingReturned DEF Quiet, Active, Typed
<1>4. ASSUME NEW v \in Values, AnswerUnrecorded(c, v)
      PROVE  \A d \in Callers : Reproducible(d)'
  <2>1. /\ pc[c] \in Active /\ mode = "off" /\ Return(c, v)
        /\ mode' = mode /\ last' = last
    BY <1>4 DEF AnswerUnrecorded, At, Active
  <2>2. Reproducible(c)'
    BY <1>0, <2>1, ReturnReproducible
  <2>3. ASSUME NEW d \in Callers \ {c} PROVE Reproducible(d)'
    BY <1>0, <2>1, NothingReturned DEF Return, Goto, Typed
  <2> QED
    BY <2>2, <2>3
<1>5. CASE Replace(c)
  <2> DEFINE v == pending[c]
  <2>1. /\ pc[c] \in Active /\ v \in Values /\ mode \in {"auto", "record"}
        /\ Return(c, v) /\ mode' = mode /\ last' = [last EXCEPT ![KeyOf(c)] = v]
    BY <1>0, <1>5 DEF Replace, IInv, InTurn, Active
  <2>2. Len(got[c]) < Turns /\ KeyOf(c) \in Keys
    BY <1>0, <2>1, KeysInUse DEF IInv, InTurn
  <2> HIDE DEF v
  <2>3. last'[KeyAfter(c, got[c])] = v
    BY <1>0, <2>1, <2>2 DEF Typed
  <2>4. RecordedIn(last', c, got[c])
    <3>1. RecordedIn(last, c, got[c]) /\ Len(got[c]) <= Turns
      BY <1>0, <2>1 DEF Reproducible, IInv, InTurn
    <3>2. got[c] \in Seq(Values) /\ Len(got[c]) <= Len(got[c])
      BY <1>0
    <3>3. RecordedIn([last EXCEPT ![KeyOf(c)] = v], c, got[c])
      BY <1>0, <2>1, <3>1, <3>2, StillRecorded
    <3> QED
      BY <2>1, <3>3
  <2>5. Reproducible(c)'
    BY <1>0, <2>1, <2>3, <2>4, ReturnReproducible
  <2>6. ASSUME NEW d \in Callers \ {c} PROVE Reproducible(d)'
    <3>1. /\ got'[d] = got[d] /\ pc'[d] = pc[d] /\ baseline'[d] = baseline[d]
      BY <1>0, <2>1, <2>6 DEF Return, Goto, Typed
    <3>2. RecordedIn(last', d, got[d])
      <4>1. RecordedIn(last, d, got[d]) /\ Len(got[d]) <= Turns
        BY <1>0, <2>1 DEF Reproducible, IInv, InTurn
      <4> QED
        BY <1>0, <2>1, <2>6, <4>1, StillRecorded
    <3>3. baseline[d] # None => RecordedIn(last', d, baseline[d])
      <4> SUFFICES ASSUME baseline[d] # None PROVE RecordedIn(last', d, baseline[d])
        OBVIOUS
      <4>1. baseline[d] \in Seq(Values) /\ Len(baseline[d]) = Turns
            /\ RecordedIn(last, d, baseline[d]) /\ Len(baseline[d]) <= Turns
        BY <1>0, CassettesAssumption DEF Reproducible
      <4> QED
        BY <1>0, <2>1, <2>6, <4>1, StillRecorded
    <3> QED
      BY <1>0, <2>1, <3>1, <3>2, <3>3 DEF Reproducible
  <2> QED
    BY <2>5, <2>6
<1> QED
  BY <1>1, <1>2, <1>3, <1>4, <1>5 DEF Caller

LEMMA ReproducibleStep ==
  ASSUME OneCallerPerKey, RInv, [Next]_vars
  PROVE  \A c \in Callers : Reproducible(c)'
<1> USE DEF RInv, IInv, Typed
<1>1. CASE Kill
  BY <1>1, NothingReturned DEF Kill, Active, Finished
<1>2. ASSUME NEW m \in Modes, StartSession(m), NEW c \in Callers PROVE Reproducible(c)'
  <2>1. /\ mode' = m /\ got'[c] = <<>> /\ pc'[c] = "ready" /\ last' = last
        /\ baseline'[c] = IF m \in {"auto", "record"} THEN None ELSE baseline[c]
    BY <1>2 DEF StartSession
  <2>2. \A s : Start(s, 0) = <<>>
    BY DEF Start
  <2>3. RecordedIn(last, c, <<>>)
    BY DEF RecordedIn
  <2> QED
    BY <2>1, <2>2, <2>3 DEF Reproducible
<1>3. CASE UNCHANGED vars
  BY <1>3, NothingReturned DEF vars
<1> QED
  BY <1>1, <1>2, <1>3, ReproducibleCaller DEF Next

(* Where no two callers share a key, what a caller got from start to end   *)
(* in a session that records, a replay gives it again without a miss,      *)
(* whatever other callers, failures and kills there were in between.       *)
THEOREM Reproduces == OneCallerPerKey => (Spec => []ReplayReproduces)
<1> SUFFICES ASSUME OneCallerPerKey PROVE Spec => []ReplayReproduces
  OBVIOUS
<1>1. OneDirectoryPerKey
  BY DEF OneCallerPerKey, OneDirectoryPerKey
<1>2. Spec => [](IInv /\ FilesMirrorLast)
  BY <1>1, Mirrors
<1> DEFINE AllReproducible == \A c \in Callers : Reproducible(c)
<1>3. Init => AllReproducible
  BY ReproducibleInit
<1>4. IInv /\ FilesMirrorLast /\ AllReproducible /\ [Next]_vars => AllReproducible'
  BY ReproducibleStep DEF RInv
<1>5. IInv /\ FilesMirrorLast /\ AllReproducible => ReplayReproduces
  BY ReproducibleReplays DEF RInv
<1> HIDE DEF AllReproducible
<1> QED
  BY <1>2, <1>3, <1>4, <1>5, PTL DEF Spec

============================================================================
