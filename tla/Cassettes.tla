----------------------------- MODULE Cassettes -----------------------------
(***************************************************************************)
(* Cassette record and replay: CachingGateway (adapters/driven/providers/  *)
(* caching.py) over RetryingGateway (retrying.py) over a live provider,    *)
(* with the responses in files (adapters/driven/cache/file_store.py).  One *)
(* run of the program is a session in one mode; its callers, each a        *)
(* repetition of a case with its own CachingGateway, interleave where they *)
(* await the provider or the backoff of a retry.  The process may be       *)
(* killed at any point, also between the two steps of a write; the files   *)
(* stay for the next session.                                              *)
(*                                                                         *)
(* A fingerprint is determined by the conversation, that is by the case's  *)
(* first request and the answers so far.  The path of a cassette is its    *)
(* case's directory and its key; directories are compared by their number. *)
(***************************************************************************)
EXTENDS Integers, Sequences, SequencesExt

CONSTANTS
  Callers,       \* the repetitions of the cases of the suite
  CaseOf,        \* CaseOf[c]: the directory of c's case, in sorting order
  RepeatOf,      \* RepeatOf[c]: the repetition index
  FirstRequest,  \* FirstRequest[c]: the fingerprint input of c's first turn
  Turns,         \* how many requests a caller makes
  Values,        \* what the provider may answer
  MaxRetries,    \* max_retries
  Stale,         \* the paths that hold a file of an older schema at first
  MaxSessions,   \* bound on the sessions of a behaviour
  None

ASSUME CassettesAssumption ==
  /\ CaseOf \in [Callers -> Nat]
  /\ RepeatOf \in [Callers -> Nat]
  /\ Turns \in Nat \ {0}
  /\ MaxRetries \in Nat
  /\ MaxSessions \in Nat
  /\ None \notin Values
  /\ None \notin [schema : {"current", "stale"}, response : Values \cup {None}]

VARIABLES
  mode,      \* the cassette mode of the session
  sessions,  \* how many sessions have started
  pc,        \* where each caller is
  attempts,  \* the retries of its live call
  got,       \* the answers it has been given
  pending,   \* the live answer it is writing to a temporary file
  files,     \* the cassettes on disk
  last,      \* history: the response last stored under each key
  baseline   \* history: what each caller got in the latest session that records

vars == <<mode, sessions, pc, attempts, got, pending, files, last, baseline>>

-----------------------------------------------------------------------------

Modes == {"auto", "record", "replay", "off"}

(* Faulty: every repetition of a case has the same key.                    *)
storage_key_shared(fingerprint, repeat_index) ==
  <<fingerprint[1], fingerprint[2], 0>>

storage_key(fingerprint, repeat_index) ==
  <<fingerprint[1], fingerprint[2], repeat_index>>

Keys == {storage_key(<<FirstRequest[c], h>>, RepeatOf[c]) :
           c \in Callers, h \in SeqOf(Values, Turns - 1)}

KeyOf(c) == storage_key(<<FirstRequest[c], got[c]>>, RepeatOf[c])

Paths == {CaseOf[c] : c \in Callers} \X Keys

PathOf(c) == <<CaseOf[c], KeyOf(c)>>

(* The files whose name ends in the key and that `get` can use: one of an  *)
(* older schema is passed over.                                            *)
Usable(key) ==
  {p \in Paths : p[2] = key /\ files[p] # None /\ files[p].schema = "current"}

(* FileCassetteStore.get: the first usable one in sorted order.            *)
get(key) ==
  IF Usable(key) = {} THEN None
  ELSE files[CHOOSE p \in Usable(key) : \A q \in Usable(key) : p[1] <= q[1]].response

Current(v) == [schema |-> "current", response |-> v]

Init ==
  /\ mode \in Modes
  /\ sessions = 1
  /\ pc = [c \in Callers |-> "ready"]
  /\ attempts = [c \in Callers |-> 0]
  /\ got = [c \in Callers |-> <<>>]
  /\ pending = [c \in Callers |-> None]
  /\ files = [p \in Paths |->
                IF p \in Stale THEN [schema |-> "stale", response |-> None] ELSE None]
  /\ last = [k \in Keys |-> None]
  /\ baseline = [c \in Callers |-> None]

-----------------------------------------------------------------------------

Finished == {"done", "missed", "failed", "killed"}

(* put does not await: while it runs no other task of the process does.    *)
NobodyWrites == \A c \in Callers : pc[c] # "writing"

At(c, where) == pc[c] = where /\ NobodyWrites

Goto(c, where) == pc' = [pc EXCEPT ![c] = where]

(* complete() returns v to the agent loop, which asks again or is done.    *)
Return(c, v) ==
  /\ got' = [got EXCEPT ![c] = Append(@, v)]
  /\ Goto(c, IF Len(got[c]) + 1 < Turns THEN "ready" ELSE "done")
  /\ baseline' = IF mode \in {"auto", "record"} /\ Len(got[c]) + 1 = Turns
                 THEN [baseline EXCEPT ![c] = Append(got[c], v)]
                 ELSE baseline

(* complete() up to its first await: a cassette answers.                   *)
Hit(c) ==
  /\ At(c, "ready")
  /\ mode \in {"auto", "replay"}
  /\ get(KeyOf(c)) # None
  /\ Return(c, get(KeyOf(c)))
  /\ UNCHANGED <<mode, sessions, attempts, pending, files, last>>

(* A miss in replay mode raises CassetteMiss, which ends the case.         *)
Miss(c) ==
  /\ At(c, "ready")
  /\ mode = "replay"
  /\ get(KeyOf(c)) = None
  /\ Goto(c, "missed")
  /\ UNCHANGED <<mode, sessions, attempts, got, pending, files, last, baseline>>

(* `record`, `off`, and a miss in `auto` go to the provider.               *)
AskLive(c) ==
  /\ At(c, "ready")
  /\ mode \in {"record", "off"} \/ (mode = "auto" /\ get(KeyOf(c)) = None)
  /\ Goto(c, "live")
  /\ attempts' = [attempts EXCEPT ![c] = 0]
  /\ UNCHANGED <<mode, sessions, got, pending, files, last, baseline>>

(* A transient failure: sleep and try again, unless the retries are used   *)
(* up; then the loop records a provider error.                             *)
TransientFailure(c) ==
  /\ At(c, "live")
  /\ Goto(c, IF attempts[c] >= MaxRetries THEN "failed" ELSE "backoff")
  /\ UNCHANGED <<mode, sessions, attempts, got, pending, files, last, baseline>>

FatalFailure(c) ==
  /\ At(c, "live")
  /\ Goto(c, "failed")
  /\ UNCHANGED <<mode, sessions, attempts, got, pending, files, last, baseline>>

(* Faulty: the retry is not counted.                                       *)
BackoffOverUncounted(c) ==
  /\ At(c, "backoff")
  /\ Goto(c, "live")
  /\ UNCHANGED <<mode, sessions, attempts, got, pending, files, last, baseline>>

(* The sleep is over and the next attempt starts.                          *)
BackoffOver(c) ==
  /\ At(c, "backoff")
  /\ Goto(c, "live")
  /\ attempts' = [attempts EXCEPT ![c] = @ + 1]
  /\ UNCHANGED <<mode, sessions, got, pending, files, last, baseline>>

(* The provider answers while cassettes are off.                           *)
AnswerUnrecorded(c, v) ==
  /\ At(c, "live")
  /\ mode = "off"
  /\ Return(c, v)
  /\ UNCHANGED <<mode, sessions, attempts, pending, files, last>>

(* Faulty: put writes over the cassette instead of beside it.              *)
AnswerInPlace(c, v) ==
  /\ At(c, "live")
  /\ mode # "off"
  /\ Goto(c, "writing")
  /\ pending' = [pending EXCEPT ![c] = v]
  /\ files' = [files EXCEPT ![PathOf(c)] = None]
  /\ UNCHANGED <<mode, sessions, attempts, got, last, baseline>>

(* The provider answers: put serialises the record and writes a temporary  *)
(* file, which no reader looks at.                                         *)
AnswerLive(c, v) ==
  /\ At(c, "live")
  /\ mode # "off"
  /\ Goto(c, "writing")
  /\ pending' = [pending EXCEPT ![c] = v]
  /\ UNCHANGED <<mode, sessions, attempts, got, files, last, baseline>>

(* os.replace moves it over the cassette, and complete() returns.          *)
Replace(c) ==
  /\ pc[c] = "writing"
  /\ files' = [files EXCEPT ![PathOf(c)] = Current(pending[c])]
  /\ last' = [last EXCEPT ![KeyOf(c)] = pending[c]]
  /\ pending' = [pending EXCEPT ![c] = None]
  /\ Return(c, pending[c])
  /\ UNCHANGED <<mode, sessions, attempts>>

(* Faulty: a failed write is swallowed and the answer returned.            *)
PutFailsSilently(c) ==
  /\ pc[c] = "writing"
  /\ pending' = [pending EXCEPT ![c] = None]
  /\ Return(c, pending[c])
  /\ UNCHANGED <<mode, sessions, attempts, files, last>>

(* The write fails: the temporary file is removed and the error becomes a  *)
(* provider error of the case.                                             *)
PutFails(c) ==
  /\ pc[c] = "writing"
  /\ pending' = [pending EXCEPT ![c] = None]
  /\ Goto(c, "failed")
  /\ UNCHANGED <<mode, sessions, attempts, got, files, last, baseline>>

(* The process is killed.                                                  *)
Kill ==
  /\ \E c \in Callers : pc[c] \notin Finished
  /\ pc' = [c \in Callers |-> IF pc[c] \in Finished THEN pc[c] ELSE "killed"]
  /\ pending' = [c \in Callers |-> None]
  /\ UNCHANGED <<mode, sessions, attempts, got, files, last, baseline>>

(* The program is run again.  A session that may write has no baseline     *)
(* until its callers are done.                                             *)
StartSession(m) ==
  /\ sessions < MaxSessions
  /\ \A c \in Callers : pc[c] \in Finished
  /\ mode' = m
  /\ sessions' = sessions + 1
  /\ pc' = [c \in Callers |-> "ready"]
  /\ attempts' = [c \in Callers |-> 0]
  /\ got' = [c \in Callers |-> <<>>]
  /\ baseline' = IF m \in {"auto", "record"} THEN [c \in Callers |-> None]
                                             ELSE baseline
  /\ UNCHANGED <<pending, files, last>>

Caller(c) ==
  \/ Hit(c) \/ Miss(c) \/ AskLive(c)
  \/ TransientFailure(c) \/ FatalFailure(c) \/ BackoffOver(c)
  \/ \E v \in Values : AnswerUnrecorded(c, v) \/ AnswerLive(c, v)
  \/ Replace(c) \/ PutFails(c)

Next ==
  \/ Kill
  \/ \E m \in Modes : StartSession(m)
  \/ \E c \in Callers : Caller(c)

(* The event loop runs every ready task, a provider call ends (the client  *)
(* has a timeout) and a backoff is bounded.  Nobody has to run the program *)
(* again.                                                                  *)
Spec == Init /\ [][Next]_vars /\ \A c \in Callers : WF_vars(Caller(c))

-----------------------------------------------------------------------------

(* What a caller got from start to end in a session that records, replay   *)
(* gives it again, answer by answer and without a miss, although other     *)
(* callers recorded at the same time, failed, or were killed.              *)
ReplayReproduces ==
  mode = "replay" =>
    \A c \in Callers : baseline[c] # None =>
      /\ pc[c] # "missed"
      /\ IsPrefix(got[c], baseline[c])

(* A recording survives: a kill in the middle of a rewrite, a write that   *)
(* fails or a session in any mode never turns a stored key into a miss.    *)
RecordingSurvives ==
  [][\A k \in Keys : get(k) # None => get(k)' # None]_vars

(* Every session ends: no caller waits or retries forever.                 *)
SessionEnds ==
  []<>(\A c \in Callers : pc[c] \in Finished)

(* The gateways over the files do what the table of modes promises.        *)
Promise == INSTANCE CassetteModes WITH cache <- last

ImplementsModes == Promise!Spec

============================================================================
