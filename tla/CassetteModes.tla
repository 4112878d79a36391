--------------------------- MODULE CassetteModes ---------------------------
(***************************************************************************)
(* What the cassette modes promise (SPEC.md 8, the table of modes), with   *)
(* no files in it: one response is stored per key, last write wins; `auto` *)
(* and `replay` serve it, `auto` and `record` store a live answer no later *)
(* than the agent sees it, `replay` never answers live, and `off` neither  *)
(* reads nor writes.                                                       *)
(*                                                                         *)
(* A caller is one repetition of one case.  Its next request is determined *)
(* by its first one and by the answers it has got, so a key is the first   *)
(* request, those answers, and the repetition index.                       *)
(***************************************************************************)
EXTENDS Integers, Sequences, SequencesExt

CONSTANTS
  Callers,       \* the repetitions of the cases of the suite
  FirstRequest,  \* FirstRequest[c]: the fingerprint input of c's first turn
  RepeatOf,      \* RepeatOf[c]: the repetition index
  Turns,         \* how many requests a caller makes
  Values,        \* what the provider may answer
  None

VARIABLES mode, cache, got

vars == <<mode, cache, got>>

Modes == {"auto", "record", "replay", "off"}

Keys == {<<FirstRequest[c], h, RepeatOf[c]>> :
           c \in Callers, h \in SeqOf(Values, Turns - 1)}

KeyOf(c) == <<FirstRequest[c], got[c], RepeatOf[c]>>

Init ==
  /\ mode \in Modes
  /\ cache \in [Keys -> Values \cup {None}]
  /\ got = [c \in Callers |-> <<>>]

(* A new run of the program, after the last one ended or died.             *)
Session(m) ==
  /\ mode' = m
  /\ got' = [c \in Callers |-> <<>>]
  /\ UNCHANGED cache

Answer(c, v) ==
  /\ Len(got[c]) < Turns
  /\ got' = [got EXCEPT ![c] = Append(@, v)]
  /\ UNCHANGED mode

Serve(c) ==
  /\ mode \in {"auto", "replay"}
  /\ Len(got[c]) < Turns
  /\ cache[KeyOf(c)] # None
  /\ Answer(c, cache[KeyOf(c)])
  /\ UNCHANGED cache

Record(c, v) ==
  /\ mode \in {"auto", "record"}
  /\ Answer(c, v)
  /\ cache' = [cache EXCEPT ![KeyOf(c)] = v]

Bypass(c, v) ==
  /\ mode = "off"
  /\ Answer(c, v)
  /\ UNCHANGED cache

Next ==
  \/ \E m \in Modes : Session(m)
  \/ \E c \in Callers :
       Serve(c) \/ \E v \in Values : Record(c, v) \/ Bypass(c, v)

Spec == Init /\ [][Next]_vars

============================================================================
