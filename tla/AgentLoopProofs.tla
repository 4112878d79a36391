-------------------------- MODULE AgentLoopProofs --------------------------
(***************************************************************************)
(* For any number of runs, any mock rules, any answers of the provider and *)
(* any max_turns: the conversation a run sends pairs every call with its   *)
(* result, its trace is a transcript of it, and the reason why it ended    *)
(* can be read off the trace; and however the runs interleave, the calls   *)
(* of a run that one rule answers get the steps of its sequence in order.  *)
(* The loop over a scripted gateway keeps these promises too, and plays    *)
(* the script from its start when the gateway has one run only.            *)
(***************************************************************************)
EXTENDS ScriptedCase, SequenceTheorems, FiniteSetTheorems, WellFoundedInduction, TLAPS

-----------------------------------------------------------------------------
(* Sequences of anything.                                                  *)

IsSequence(s) == s \in Seq({s[i] : i \in DOMAIN s})

LEMMA SequenceDomain ==
  ASSUME NEW s, IsSequence(s)
  PROVE  Len(s) \in Nat /\ DOMAIN s = 1 .. Len(s)
BY DEF IsSequence

LEMMA SequenceOf == ASSUME NEW T, NEW s \in Seq(T) PROVE IsSequence(s)
<1>1. Len(s) \in Nat /\ DOMAIN s = 1 .. Len(s) /\ s \in [1 .. Len(s) -> T]
  BY LenProperties
<1>2. s \in [1 .. Len(s) -> {s[i] : i \in DOMAIN s}]
  BY <1>1
<1> QED
  BY <1>1, <1>2, SeqDef DEF IsSequence

LEMMA EmptyIsSequence == IsSequence(<<>>) /\ Len(<<>>) = 0 /\ DOMAIN <<>> = {}
BY DEF IsSequence

LEMMA Appended ==
  ASSUME NEW s, IsSequence(s), NEW x
  PROVE  /\ IsSequence(Append(s, x))
         /\ Len(Append(s, x)) = Len(s) + 1
         /\ DOMAIN Append(s, x) = 1 .. Len(s) + 1
         /\ \A i \in 1 .. Len(s) : Append(s, x)[i] = s[i]
         /\ Append(s, x)[Len(s) + 1] = x
<1> DEFINE T == {s[i] : i \in DOMAIN s} \cup {x}
<1>1. s \in Seq(T)
  BY SeqMonotonic DEF IsSequence
<1>2. Append(s, x) \in Seq(T)
  BY <1>1
<1>3. /\ Len(Append(s, x)) = Len(s) + 1
      /\ DOMAIN Append(s, x) = 1 .. Len(s) + 1
      /\ \A i \in 1 .. Len(s) : Append(s, x)[i] = s[i]
      /\ Append(s, x)[Len(s) + 1] = x
  BY <1>1
<1>4. IsSequence(Append(s, x))
  BY <1>2, SequenceOf
<1> QED
  BY <1>3, <1>4

(* What CloseTurn does to the messages.                                    *)
LEMMA TwoMore ==
  ASSUME NEW s, IsSequence(s), NEW x, NEW y
  PROVE  LET t == s \o <<x, y>> IN
           /\ IsSequence(t)
           /\ Len(t) = Len(s) + 2
           /\ DOMAIN t = 1 .. Len(s) + 2
           /\ \A i \in 1 .. Len(s) : t[i] = s[i]
           /\ t[Len(s) + 1] = x
           /\ t[Len(s) + 2] = y
<1> DEFINE T == {s[i] : i \in DOMAIN s} \cup {x, y}
           t == s \o <<x, y>>
<1>1. s \in Seq(T)
  BY SeqMonotonic DEF IsSequence
<1>2. <<x, y>> \in Seq(T) /\ Len(<<x, y>>) = 2
  OBVIOUS
<1>3. t \in Seq(T) /\ Len(t) = Len(s) + 2
  BY <1>1, <1>2, ConcatProperties
<1>4. \A i \in 1 .. Len(s) + 2 : t[i] = IF i <= Len(s) THEN s[i] ELSE <<x, y>>[i - Len(s)]
  BY <1>1, <1>2, ConcatProperties
<1>5. Len(s) \in Nat /\ DOMAIN t = 1 .. Len(s) + 2
  BY <1>1, <1>3
<1>6. \A i \in 1 .. Len(s) : t[i] = s[i]
  BY <1>4, <1>5
<1>7. t[Len(s) + 1] = x /\ t[Len(s) + 2] = y
  BY <1>4, <1>5
<1>8. IsSequence(t)
  BY <1>3, SequenceOf
<1> QED
  BY <1>3, <1>5, <1>6, <1>7, <1>8

-----------------------------------------------------------------------------
(* The invariant of one run.                                               *)

Phases == {"new", "asking", "resolving", "invoking", "ended"}

Typed(r) ==
  /\ phase[r] \in Phases
  /\ IsSequence(messages[r]) /\ IsSequence(turns[r]) /\ IsSequence(results[r])
  /\ \A i \in DOMAIN turns[r] :
       IsSequence(turns[r][i].calls) /\ IsSequence(turns[r][i].results)

Full(t) == t.stop = "tool_use" /\ Len(t.results) = Len(t.calls)

(* The conversation after a turn, and after all turns so far.              *)
Extended(t) == t.sent \o <<Assistant(t.calls), Tool(t.results)>>

SoFar(r) ==
  IF Len(turns[r]) = 0 THEN <<User>> ELSE Extended(turns[r][Len(turns[r])])

(* While a run is on, its messages are what its turns add up to, and it    *)
(* has asked less often than max_turns allows.                             *)
Underway(r) ==
  phase[r] # "ended" =>
    /\ termination[r] = None
    /\ \A i \in DOMAIN turns[r] : Full(turns[r][i])
    /\ messages[r] = SoFar(r)
    /\ phase[r] = "new" => Len(turns[r]) = 0
    /\ phase[r] # "new" => Len(turns[r]) < MaxTurns

(* The results so far are those of the first calls of the response.        *)
Batch(r) ==
  phase[r] \in {"resolving", "invoking"} =>
    /\ response[r].stop = "tool_use"
    /\ IsSequence(response[r].calls)
    /\ Len(results[r]) <= Len(response[r].calls)
    /\ phase[r] = "invoking" => Len(results[r]) < Len(response[r].calls)
    /\ \A i \in DOMAIN results[r] : results[r][i].id = response[r].calls[i].id

(* EveryCallAnswered, TraceIsTranscript and TerminationExplained of a run. *)
Paired(r) ==
  \A i \in DOMAIN messages[r] :
    /\ messages[r][i].role = "assistant" =>
         /\ i + 1 \in DOMAIN messages[r]
         /\ messages[r][i + 1].role = "tool"
         /\ CallIds(messages[r][i + 1].results) = CallIds(messages[r][i].calls)
    /\ messages[r][i].role = "tool" =>
         i - 1 \in DOMAIN messages[r] /\ messages[r][i - 1].role = "assistant"

Transcript(r) ==
  \A i \in DOMAIN turns[r] :
    turns[r][i].sent = IF i = 1 THEN <<User>> ELSE Extended(turns[r][i - 1])

Explained(r) ==
  LET n == Len(turns[r])
      short(t) == t.stop = "tool_use" /\ Len(t.results) < Len(t.calls)
      asked == IF phase[r] \in {"asking", "resolving", "invoking"} THEN n + 1 ELSE n
  IN  /\ asked = 0 \/ asked <= MaxTurns
      /\ \A i \in 1 .. n - 1 : Full(turns[r][i])
      /\ termination[r] = "max_turns_exceeded" => (n = 0 \/ Full(turns[r][n])) /\ n >= MaxTurns
      /\ termination[r] \in {"end_turn", "max_tokens", "refusal"} =>
           n > 0 /\ turns[r][n].stop # "tool_use"
      /\ termination[r] = "unmocked_tool" <=> n > 0 /\ short(turns[r][n])
      /\ termination[r] = "unmocked_tool" =>
           RuleFor(turns[r][n].calls[Len(turns[r][n].results) + 1]) = None

RunInv(r) ==
  Typed(r) /\ Underway(r) /\ Batch(r) /\ Paired(r) /\ Transcript(r) /\ Explained(r)

(* Each variable has a value for each run.                                 *)
PerRun ==
  /\ DOMAIN phase = Runs /\ DOMAIN messages = Runs /\ DOMAIN turns = Runs
  /\ DOMAIN response = Runs /\ DOMAIN results = Runs /\ DOMAIN termination = Runs

IInv == PerRun /\ \A r \in Runs : RunInv(r)

LEMMA ImpliesProperties ==
  ASSUME IInv
  PROVE  EveryCallAnswered /\ TraceIsTranscript /\ TerminationExplained
<1>1. EveryCallAnswered
  BY DEF IInv, RunInv, Paired, EveryCallAnswered
<1>2. TraceIsTranscript
  BY DEF IInv, RunInv, Transcript, Extended, TraceIsTranscript
<1>3. TerminationExplained
  BY DEF IInv, RunInv, Explained, Full, TerminationExplained
<1> QED
  BY <1>1, <1>2, <1>3

LEMMA InitInvariant == ASSUME Init PROVE IInv
<1> SUFFICES ASSUME NEW r \in Runs PROVE RunInv(r)
  BY DEF Init, PerRun, IInv
<1>1. /\ phase[r] = "new" /\ messages[r] = <<User>> /\ turns[r] = <<>>
      /\ results[r] = <<>> /\ termination[r] = None
  BY DEF Init
<1>2. IsSequence(<<User>>) /\ <<User>>[1] = User /\ DOMAIN <<User>> = {1}
  <2>1. <<User>> \in Seq({User})
    OBVIOUS
  <2>2. IsSequence(<<User>>)
    BY <2>1, SequenceOf
  <2>3. <<User>>[1] = User /\ DOMAIN <<User>> = {1}
    OBVIOUS
  <2> QED
    BY <2>2, <2>3
<1>3. Typed(r)
  BY <1>1, <1>2, EmptyIsSequence DEF Typed, Phases
<1>4. Underway(r) /\ Batch(r)
  BY <1>1, EmptyIsSequence DEF Underway, Batch, SoFar
<1>5. Paired(r)
  BY <1>1, <1>2 DEF Paired, User
<1>6. Transcript(r)
  BY <1>1, EmptyIsSequence DEF Transcript
<1>7. Explained(r)
  BY <1>1, EmptyIsSequence, AgentLoopAssumption DEF Explained, Terminations
<1> QED
  BY <1>3, <1>4, <1>5, <1>6, <1>7 DEF RunInv

-----------------------------------------------------------------------------
(* What a step does to the run that takes it.                              *)

(* An action that asks, ends or waits without recording anything.          *)
LEMMA Goes ==
  ASSUME NEW r \in Runs, RunInv(r),
         phase[r] # "ended", phase'[r] \in {"asking", "ended"},
         messages'[r] = messages[r], turns'[r] = turns[r], results'[r] = results[r],
         \/ /\ phase'[r] = "asking" /\ Len(turns[r]) < MaxTurns
            /\ termination'[r] = None
         \/ /\ phase'[r] = "ended" /\ termination'[r] \in {"provider_error", "none"}
            /\ phase[r] # "new"
         \/ /\ phase'[r] = "ended" /\ termination'[r] = "max_turns_exceeded"
            /\ Len(turns[r]) = 0 /\ Len(turns[r]) >= MaxTurns
  PROVE  RunInv(r)'
<1> USE DEF RunInv
<1>1. Len(turns[r]) \in Nat /\ DOMAIN turns[r] = 1 .. Len(turns[r])
  BY SequenceDomain DEF Typed
<1>2. Typed(r)'
  BY DEF Typed, Phases
<1>3. Underway(r)'
  BY DEF Underway, SoFar
<1>4. Batch(r)'
  BY DEF Batch
<1>5. Paired(r)'
  BY DEF Paired
<1>6. Transcript(r)'
  BY DEF Transcript
<1>7. Explained(r)'
  <2>1. \A i \in 1 .. Len(turns[r]) :
          /\ Full(turns[r][i])
          /\ ~(Len(turns[r][i].results) < Len(turns[r][i].calls))
    BY <1>1, SequenceDomain DEF Underway, Full, Typed
  <2>2. None \notin Terminations /\ MaxTurns \in Int
    BY AgentLoopAssumption
  <2>3. Len(turns[r]) = 0 \/ Len(turns[r]) < MaxTurns
    BY DEF Underway
  <2> QED
    BY <1>1, <2>1, <2>2, <2>3 DEF Explained, Terminations
<1> QED
  BY <1>2, <1>3, <1>4, <1>5, <1>6, <1>7

(* The next call of the response gets a result of its id, at once or after *)
(* a wait.                                                                 *)
LEMMA GetsResult ==
  ASSUME NEW r \in Runs, RunInv(r), NEW x,
         phase[r] \in {"resolving", "invoking"}, phase'[r] = "resolving",
         Len(results[r]) < Len(response[r].calls), x.id = NextCall(r).id,
         results'[r] = Append(results[r], x), response'[r] = response[r],
         messages'[r] = messages[r], turns'[r] = turns[r],
         termination'[r] = termination[r]
  PROVE  RunInv(r)'
<1> USE DEF RunInv
<1>1. IsSequence(results[r]) /\ IsSequence(response[r].calls)
  BY DEF Typed, Batch
<1>2. Len(results[r]) \in Nat /\ Len(response[r].calls) \in Nat
      /\ DOMAIN results[r] = 1 .. Len(results[r])
  BY <1>1, SequenceDomain
<1>3. /\ IsSequence(results'[r]) /\ Len(results'[r]) = Len(results[r]) + 1
      /\ DOMAIN results'[r] = 1 .. Len(results[r]) + 1
      /\ \A i \in 1 .. Len(results[r]) : results'[r][i] = results[r][i]
      /\ results'[r][Len(results[r]) + 1] = x
  BY <1>1, Appended
<1>4. Typed(r)'
  BY <1>3 DEF Typed, Phases
<1>5. Underway(r)'
  BY DEF Underway, SoFar
<1>6. Batch(r)'
  <2>1. \A i \in DOMAIN results'[r] : results'[r][i].id = response[r].calls[i].id
    BY <1>2, <1>3 DEF Batch, NextCall
  <2> QED
    BY <1>1, <1>2, <1>3, <2>1 DEF Batch
<1>7. Paired(r)' /\ Transcript(r)'
  BY DEF Paired, Transcript
<1>8. Explained(r)'
  BY DEF Explained
<1> QED
  BY <1>4, <1>5, <1>6, <1>7, <1>8

(* A turn is recorded: the transcript goes on.                             *)
LEMMA Recorded ==
  ASSUME NEW r \in Runs, RunInv(r), phase[r] # "ended",
         NEW t, t.sent = messages[r], turns'[r] = Append(turns[r], t)
  PROVE  /\ Transcript(r)'
         /\ IsSequence(turns'[r]) /\ Len(turns'[r]) = Len(turns[r]) + 1
         /\ Len(turns[r]) \in Nat /\ DOMAIN turns'[r] = 1 .. Len(turns[r]) + 1
         /\ \A i \in 1 .. Len(turns[r]) :
              /\ turns'[r][i] = turns[r][i] /\ Full(turns[r][i])
              /\ IsSequence(turns[r][i].calls) /\ IsSequence(turns[r][i].results)
         /\ turns'[r][Len(turns[r]) + 1] = t
<1> USE DEF RunInv
<1>1. IsSequence(turns[r])
  BY DEF Typed
<1>2. Len(turns[r]) \in Nat /\ DOMAIN turns[r] = 1 .. Len(turns[r])
  BY <1>1, SequenceDomain
<1>3. /\ IsSequence(turns'[r]) /\ Len(turns'[r]) = Len(turns[r]) + 1
      /\ DOMAIN turns'[r] = 1 .. Len(turns[r]) + 1
      /\ \A i \in 1 .. Len(turns[r]) : turns'[r][i] = turns[r][i]
      /\ turns'[r][Len(turns[r]) + 1] = t
  BY <1>1, Appended
<1>4. \A i \in 1 .. Len(turns[r]) :
        /\ Full(turns[r][i])
        /\ IsSequence(turns[r][i].calls) /\ IsSequence(turns[r][i].results)
  BY <1>2 DEF Underway, Typed
<1>5. t.sent = SoFar(r)
  BY DEF Underway
<1>6. Transcript(r)'
  BY <1>2, <1>3, <1>5 DEF Transcript, SoFar
<1> QED
  BY <1>2, <1>3, <1>4, <1>6

(* The last turn: a final answer, or a batch cut short at an unmocked call.*)
LEMMA LastTurn ==
  ASSUME NEW r \in Runs, RunInv(r), phase[r] \notin {"new", "ended"},
         NEW t, t.sent = messages[r], turns'[r] = Append(turns[r], t),
         IsSequence(t.calls), IsSequence(t.results),
         phase'[r] = "ended", messages'[r] = messages[r], results'[r] = results[r],
         \/ /\ t.stop # "tool_use"
            /\ termination'[r] \in {"end_turn", "max_tokens", "refusal", "provider_error"}
         \/ /\ t.stop = "tool_use" /\ Len(t.results) < Len(t.calls)
            /\ RuleFor(t.calls[Len(t.results) + 1]) = None
            /\ termination'[r] = "unmocked_tool"
  PROVE  RunInv(r)'
<1> USE DEF RunInv
<1> DEFINE n == Len(turns[r])
<1>1. /\ Transcript(r)' /\ IsSequence(turns'[r]) /\ Len(turns'[r]) = n + 1
      /\ n \in Nat /\ DOMAIN turns'[r] = 1 .. n + 1
      /\ \A i \in 1 .. n :
           /\ turns'[r][i] = turns[r][i] /\ Full(turns[r][i])
           /\ IsSequence(turns[r][i].calls) /\ IsSequence(turns[r][i].results)
      /\ turns'[r][n + 1] = t
  BY Recorded
<1> HIDE DEF n
<1>2. Typed(r)'
  <2>1. \A i \in DOMAIN turns'[r] :
          IsSequence(turns'[r][i].calls) /\ IsSequence(turns'[r][i].results)
    BY <1>1
  <2> QED
    BY <1>1, <2>1 DEF Typed, Phases
<1>3. Underway(r)' /\ Batch(r)'
  BY DEF Underway, Batch
<1>4. Paired(r)'
  BY DEF Paired
<1>5. Explained(r)'
  <2>1. n < MaxTurns /\ MaxTurns \in Int
    BY AgentLoopAssumption DEF Underway, n
  <2>2. \A i \in 1 .. n : Full(turns'[r][i])
    BY <1>1
  <2> QED
    BY <1>1, <2>1, <2>2 DEF Explained
<1> QED
  BY <1>1, <1>2, <1>3, <1>4, <1>5

(* A full turn: the conversation grows by its calls and their results.     *)
LEMMA TurnCloses ==
  ASSUME NEW r \in Runs, RunInv(r), phase[r] = "resolving",
         Len(results[r]) = Len(response[r].calls),
         NEW t, t = Turn(r, response[r], results[r]),
         turns'[r] = Append(turns[r], t), results'[r] = results[r],
         messages'[r] = messages[r] \o <<Assistant(response[r].calls), Tool(results[r])>>,
         IF Len(turns[r]) + 1 >= MaxTurns
           THEN phase'[r] = "ended" /\ termination'[r] = "max_turns_exceeded"
           ELSE phase'[r] = "asking" /\ termination'[r] = termination[r]
  PROVE  RunInv(r)'
<1> USE DEF RunInv
<1> DEFINE n == Len(turns[r])
           m == Len(messages[r])
<1>1. /\ t.sent = messages[r] /\ t.calls = response[r].calls /\ t.results = results[r]
      /\ t.stop = "tool_use" /\ IsSequence(t.calls) /\ IsSequence(t.results)
  BY DEF Turn, Typed, Batch
<1>2. /\ Transcript(r)' /\ IsSequence(turns'[r]) /\ Len(turns'[r]) = n + 1
      /\ n \in Nat /\ DOMAIN turns'[r] = 1 .. n + 1
      /\ \A i \in 1 .. n :
           /\ turns'[r][i] = turns[r][i] /\ Full(turns[r][i])
           /\ IsSequence(turns[r][i].calls) /\ IsSequence(turns[r][i].results)
      /\ turns'[r][n + 1] = t
  BY <1>1, Recorded
<1>3. /\ IsSequence(messages[r]) /\ m \in Nat /\ DOMAIN messages[r] = 1 .. m
      /\ IsSequence(messages'[r]) /\ DOMAIN messages'[r] = 1 .. m + 2
      /\ \A i \in 1 .. m : messages'[r][i] = messages[r][i]
      /\ messages'[r][m + 1] = Assistant(t.calls)
      /\ messages'[r][m + 2] = Tool(t.results)
  <2>1. IsSequence(messages[r])
    BY DEF Typed
  <2>2. m \in Nat /\ DOMAIN messages[r] = 1 .. m
    BY <2>1, SequenceDomain
  <2>3. messages'[r] = messages[r] \o <<Assistant(t.calls), Tool(t.results)>>
    BY <1>1
  <2> DEFINE a == Assistant(t.calls)
             b == Tool(t.results)
             u == messages[r] \o <<a, b>>
  <2>4. /\ IsSequence(u) /\ DOMAIN u = 1 .. m + 2
        /\ \A i \in 1 .. m : u[i] = messages[r][i]
        /\ u[m + 1] = a /\ u[m + 2] = b
    <3> HIDE DEF a, b
    <3> QED
      BY <2>1, TwoMore
  <2> QED
    BY <2>1, <2>2, <2>3, <2>4
<1> HIDE DEF n, m
<1>4. Full(t)
  BY <1>1 DEF Full
<1>5. Typed(r)'
  <2>1. \A i \in DOMAIN turns'[r] :
          IsSequence(turns'[r][i].calls) /\ IsSequence(turns'[r][i].results)
    BY <1>1, <1>2
  <2> QED
    BY <1>2, <1>3, <2>1 DEF Typed, Phases
<1>6. Underway(r)'
  <2>1. \A i \in DOMAIN turns'[r] : Full(turns'[r][i])
    BY <1>2, <1>4
  <2>2. messages'[r] = Extended(turns'[r][n + 1])
    BY <1>1, <1>2 DEF Extended
  <2>3. termination[r] = None
    BY DEF Underway
  <2>4. messages'[r] = SoFar(r)'
    <3>1. Len(turns'[r]) # 0 /\ turns'[r][Len(turns'[r])] = turns'[r][n + 1]
      BY <1>2
    <3> QED
      BY <2>2, <3>1 DEF SoFar
  <2>5. phase'[r] # "ended" => phase'[r] = "asking" /\ n + 1 < MaxTurns
    BY <1>2, AgentLoopAssumption DEF n
  <2> QED
    BY <1>2, <2>1, <2>3, <2>4, <2>5 DEF Underway
<1>7. Batch(r)'
  BY DEF Batch
<1>8. Paired(r)'
  <2>1. CallIds(t.results) = CallIds(t.calls)
    <3>1. DOMAIN t.results = DOMAIN t.calls
      BY <1>1, <1>4, SequenceDomain DEF Full
    <3>2. \A i \in DOMAIN t.results : t.results[i].id = t.calls[i].id
      BY <1>1 DEF Batch
    <3> QED
      BY <3>1, <3>2 DEF CallIds
  <2>2. /\ messages'[r][m + 1].role = "assistant" /\ messages'[r][m + 1].calls = t.calls
        /\ messages'[r][m + 2].role = "tool" /\ messages'[r][m + 2].results = t.results
    BY <1>3 DEF Assistant, Tool
  <2> SUFFICES ASSUME NEW i \in 1 .. m + 2
               PROVE  /\ messages'[r][i].role = "assistant" =>
                           /\ i + 1 \in 1 .. m + 2
                           /\ messages'[r][i + 1].role = "tool"
                           /\ CallIds(messages'[r][i + 1].results)
                                = CallIds(messages'[r][i].calls)
                      /\ messages'[r][i].role = "tool" =>
                           i - 1 \in 1 .. m + 2 /\ messages'[r][i - 1].role = "assistant"
    BY <1>3 DEF Paired
  <2>3. CASE i \in 1 .. m
    <3>1. /\ messages[r][i].role = "assistant" =>
               /\ i + 1 \in 1 .. m
               /\ messages[r][i + 1].role = "tool"
               /\ CallIds(messages[r][i + 1].results) = CallIds(messages[r][i].calls)
          /\ messages[r][i].role = "tool" =>
               i - 1 \in 1 .. m /\ messages[r][i - 1].role = "assistant"
      BY <1>3, <2>3 DEF Paired
    <3>2. \A j \in 1 .. m : j \in 1 .. m + 2 /\ messages'[r][j] = messages[r][j]
      BY <1>3
    <3> QED
      BY <2>3, <3>1, <3>2
  <2>4. CASE i = m + 1
    <3>1. i + 1 = m + 2 /\ i + 1 \in 1 .. m + 2
      BY <1>3, <2>4
    <3> QED
      BY <2>1, <2>2, <2>4, <3>1
  <2>5. CASE i = m + 2
    <3>1. i - 1 = m + 1 /\ i - 1 \in 1 .. m + 2
      BY <1>3, <2>5
    <3> QED
      BY <2>2, <2>5, <3>1
  <2> QED
    BY <1>3, <2>3, <2>4, <2>5
<1>9. Explained(r)'
  <2>1. \A i \in 1 .. n + 1 :
          /\ Full(turns'[r][i])
          /\ ~(Len(turns'[r][i].results) < Len(turns'[r][i].calls))
    <3>1. \A i \in 1 .. n + 1 : Full(turns'[r][i]) /\ IsSequence(turns'[r][i].calls)
      BY <1>1, <1>2, <1>4
    <3>2. \A i \in 1 .. n + 1 : Len(turns'[r][i].calls) \in Nat
      BY <3>1, SequenceDomain
    <3>3. \A x \in Nat : ~(x < x)
      OBVIOUS
    <3> QED
      BY <3>1, <3>2, <3>3 DEF Full
  <2>2. n < MaxTurns /\ MaxTurns \in Int /\ None \notin Terminations
        /\ termination[r] = None
    BY AgentLoopAssumption DEF Underway, n
  <2> QED
    BY <1>2, <2>1, <2>2 DEF Explained, Terminations, n
<1> QED
  BY <1>2, <1>5, <1>6, <1>7, <1>8, <1>9

-----------------------------------------------------------------------------

(* A step is one run's own.                                                *)
LEMMA OwnStep ==
  ASSUME PerRun, NEW q \in Runs, Step(q)
  PROVE  /\ PerRun'
         /\ \A r \in Runs \ {q} :
              /\ phase'[r] = phase[r] /\ messages'[r] = messages[r]
              /\ turns'[r] = turns[r] /\ response'[r] = response[r]
              /\ results'[r] = results[r] /\ termination'[r] = termination[r]
<1> USE DEF PerRun, LoopHead, End, Deliver
<1>1. CASE Begin(q)
  BY <1>1 DEF Begin
<1>2. CASE Complete(q)
  BY <1>2 DEF Complete, ProviderRaises, FinalAnswer, ToolUse
<1>3. CASE ResolveMocked(q)
  BY <1>3 DEF ResolveMocked
<1>4. CASE ResolvePassthrough(q)
  BY <1>4 DEF ResolvePassthrough
<1>5. CASE \E isError \in BOOLEAN : Invoked(q, isError)
  BY <1>5 DEF Invoked
<1>6. CASE ResolveRaises(q)
  BY <1>6 DEF ResolveRaises
<1>7. CASE ResolveToNull(q)
  BY <1>7 DEF ResolveToNull
<1>8. CASE StopUnmocked(q)
  BY <1>8 DEF StopUnmocked
<1>9. CASE CloseTurn(q)
  BY <1>9 DEF CloseTurn
<1> QED
  BY <1>1, <1>2, <1>3, <1>4, <1>5, <1>6, <1>7, <1>8, <1>9 DEF Step, Resolve

LEMMA OthersKeep ==
  ASSUME NEW r \in Runs, RunInv(r),
         phase'[r] = phase[r], messages'[r] = messages[r], turns'[r] = turns[r],
         response'[r] = response[r], results'[r] = results[r],
         termination'[r] = termination[r]
  PROVE  RunInv(r)'
BY DEF RunInv, Typed, Underway, SoFar, Batch, Paired, Transcript, Explained

(* The run that takes the step.                                            *)
LEMMA OneRun ==
  ASSUME PerRun, NEW q \in Runs, RunInv(q), Step(q)
  PROVE  RunInv(q)'
<1> USE DEF PerRun
<1>1. CASE Begin(q)
  <2>1. Len(turns[q]) = 0 /\ termination[q] = None
    BY <1>1 DEF Begin, RunInv, Underway
  <2>2. 0 >= MaxTurns <=> ~(0 < MaxTurns)
    BY AgentLoopAssumption
  <2> QED
    BY <1>1, <2>1, <2>2, Goes DEF Begin, LoopHead, End
<1>2. CASE ProviderRaises(q)
  BY <1>2, Goes DEF ProviderRaises, End
<1>3. ASSUME NEW resp \in Responses, FinalAnswer(q, resp) PROVE RunInv(q)'
  <2> DEFINE t == Turn(q, resp, <<>>)
  <2>1. IsSequence(t.calls) /\ IsSequence(t.results) /\ t.sent = messages[q]
        /\ t.stop # "tool_use"
    <3>1. IsSequence(resp.calls)
      BY AgentLoopAssumption DEF IsSequence
    <3> QED
      BY <1>3, <3>1, EmptyIsSequence DEF Turn, FinalAnswer
  <2>2. turns'[q] = Append(turns[q], t)
    BY <1>3 DEF FinalAnswer
  <2>3. Termination(resp.stop) \in {"end_turn", "max_tokens", "refusal", "provider_error"}
    BY DEF Termination
  <2> HIDE DEF t
  <2> QED
    BY <1>3, <2>1, <2>2, <2>3, LastTurn DEF FinalAnswer, End
<1>4. ASSUME NEW resp \in Responses, ToolUse(q, resp) PROVE RunInv(q)'
  <2>1. /\ phase[q] = "asking" /\ phase'[q] = "resolving" /\ response'[q] = resp
        /\ results'[q] = <<>> /\ resp.stop = "tool_use" /\ messages'[q] = messages[q]
        /\ turns'[q] = turns[q] /\ termination'[q] = termination[q]
    BY <1>4 DEF ToolUse
  <2>2. IsSequence(resp.calls) /\ Len(resp.calls) \in Nat
    BY AgentLoopAssumption, SequenceDomain DEF IsSequence
  <2>3. Typed(q)'
    BY <2>1, EmptyIsSequence DEF RunInv, Typed, Phases
  <2>4. Batch(q)'
    BY <2>1, <2>2, EmptyIsSequence DEF Batch
  <2>5. Underway(q)' /\ Paired(q)' /\ Transcript(q)'
    BY <2>1 DEF RunInv, Underway, SoFar, Paired, Transcript
  <2>6. Explained(q)'
    BY <2>1 DEF RunInv, Explained
  <2> QED
    BY <2>3, <2>4, <2>5, <2>6 DEF RunInv
<1>5. CASE ResolveMocked(q)
  <2> DEFINE k == RuleFor(NextCall(q))
             x == ToResult(NextCall(q),
                    RuleAt(k).steps[StepNumber(used[q][k], Len(RuleAt(k).steps))])
  <2>1. x.id = NextCall(q).id
    BY DEF ToResult
  <2>2. results'[q] = Append(results[q], x)
    BY <1>5 DEF ResolveMocked, Deliver
  <2> HIDE DEF k, x
  <2> QED
    BY <1>5, <2>1, <2>2, GetsResult DEF ResolveMocked, Deliver, CallLeft
<1>6. CASE ResolvePassthrough(q)
  <2>1. /\ phase[q] = "resolving" /\ phase'[q] = "invoking" /\ response'[q] = response[q]
        /\ results'[q] = results[q] /\ Len(results[q]) < Len(response[q].calls)
        /\ messages'[q] = messages[q] /\ turns'[q] = turns[q]
        /\ termination'[q] = termination[q]
    BY <1>6 DEF ResolvePassthrough, CallLeft
  <2>2. Typed(q)' /\ Batch(q)'
    BY <2>1 DEF RunInv, Typed, Phases, Batch
  <2>3. Underway(q)' /\ Paired(q)' /\ Transcript(q)'
    BY <2>1 DEF RunInv, Underway, SoFar, Paired, Transcript
  <2>4. Explained(q)'
    BY <2>1 DEF RunInv, Explained
  <2> QED
    BY <2>2, <2>3, <2>4 DEF RunInv
<1>7. ASSUME NEW isError \in BOOLEAN, Invoked(q, isError) PROVE RunInv(q)'
  <2> DEFINE x == [id |-> NextCall(q).id, value |-> "impl", isError |-> isError]
  <2>1. x.id = NextCall(q).id
    OBVIOUS
  <2>2. results'[q] = Append(results[q], x)
    BY <1>7 DEF Invoked, Deliver
  <2>3. Len(results[q]) < Len(response[q].calls)
    BY <1>7 DEF Invoked, RunInv, Batch
  <2> HIDE DEF x
  <2> QED
    BY <1>7, <2>1, <2>2, <2>3, GetsResult DEF Invoked, Deliver
<1>8. CASE ResolveRaises(q)
  BY <1>8, Goes DEF ResolveRaises, End, CallLeft
<1>9. CASE ResolveToNull(q)
  <2> DEFINE x == EmptyResult(NextCall(q))
  <2>1. x.id = NextCall(q).id
    BY DEF EmptyResult
  <2>2. results'[q] = Append(results[q], x)
    BY <1>9 DEF ResolveToNull, Deliver
  <2> HIDE DEF x
  <2> QED
    BY <1>9, <2>1, <2>2, GetsResult DEF ResolveToNull, Deliver, CallLeft
<1>10. CASE StopUnmocked(q)
  <2> DEFINE t == Turn(q, response[q], results[q])
  <2>1. /\ IsSequence(t.calls) /\ IsSequence(t.results) /\ t.sent = messages[q]
        /\ t.stop = "tool_use" /\ Len(t.results) < Len(t.calls)
        /\ RuleFor(t.calls[Len(t.results) + 1]) = None
    BY <1>10 DEF StopUnmocked, CallLeft, NextCall, Turn, RunInv, Typed, Batch
  <2>2. turns'[q] = Append(turns[q], t)
    BY <1>10 DEF StopUnmocked
  <2> HIDE DEF t
  <2> QED
    BY <1>10, <2>1, <2>2, LastTurn DEF StopUnmocked, CallLeft, End
<1>11. CASE CloseTurn(q)
  <2> DEFINE t == Turn(q, response[q], results[q])
  <2>1. turns'[q] = Append(turns[q], t)
    BY <1>11 DEF CloseTurn
  <2>2. Len(turns'[q]) = Len(turns[q]) + 1
    BY <2>1, Appended DEF RunInv, Typed
  <2> QED
    BY <1>11, <2>1, <2>2, TurnCloses DEF CloseTurn, LoopHead, End
<1> QED
  BY <1>1, <1>2, <1>3, <1>4, <1>5, <1>6, <1>7, <1>8, <1>9, <1>10, <1>11
     DEF Step, Complete, Resolve

LEMMA StepInvariant ==
  ASSUME IInv, [Next]_vars
  PROVE  IInv'
<1>1. CASE UNCHANGED vars
  BY <1>1, OthersKeep DEF vars, IInv, PerRun
<1>2. ASSUME NEW q \in Runs, Step(q) PROVE IInv'
  <2>1. PerRun'
    BY <1>2, OwnStep DEF IInv
  <2>2. RunInv(q)'
    BY <1>2, OneRun DEF IInv
  <2>3. ASSUME NEW r \in Runs \ {q} PROVE RunInv(r)'
    BY <1>2, OwnStep, OthersKeep DEF IInv
  <2> QED
    BY <2>1, <2>2, <2>3 DEF IInv
<1> QED
  BY <1>1, <1>2 DEF Next

(* The invariant is inductive.                                             *)
THEOREM Inductive == Spec => []IInv
<1>1. Init => IInv
  BY InitInvariant
<1>2. IInv /\ [Next]_vars => IInv'
  BY StepInvariant
<1> QED
  BY <1>1, <1>2, PTL DEF Spec

(* Every request of run_case pairs each tool call with its result, in      *)
(* order, for any number of runs, rules, turns and calls per turn.         *)
THEOREM CallsAnswered == Spec => []EveryCallAnswered
<1>1. IInv => EveryCallAnswered
  BY ImpliesProperties
<1> QED
  BY <1>1, Inductive, PTL

(* The trace of run_case is a transcript of what the provider was sent:    *)
(* the messages that the loop shares with the requests are copied in time. *)
THEOREM Transcribed == Spec => []TraceIsTranscript
<1>1. IInv => TraceIsTranscript
  BY ImpliesProperties
<1> QED
  BY <1>1, Inductive, PTL

(* The reason that run_case gives for the end of a trace is what its turns *)
(* show, and it asks at most max_turns times, also when that is 0 or less. *)
THEOREM EndExplained == Spec => []TerminationExplained
<1>1. IInv => TerminationExplained
  BY ImpliesProperties
<1> QED
  BY <1>1, Inductive, PTL

-----------------------------------------------------------------------------
(* The order of the mocks.  Nothing of the trace is in the resolver, which *)
(* only counts; what it has counted is the number of calls in the trace.   *)
(* First, the answered calls of a sequence of turns.                       *)

Positions(ts) == UNION {{<<i, c>> : c \in DOMAIN ts[i].results} : i \in DOMAIN ts}

CallOf(ts, p) == ts[p[1]].calls[p[2]]

ResultOf(ts, p) == ts[p[1]].results[p[2]]

Before(q, p) == q[1] < p[1] \/ (q[1] = p[1] /\ q[2] < p[2])

Earlier(ts, p) ==
  {q \in Positions(ts) : Before(q, p) /\ RuleFor(CallOf(ts, q)) = RuleFor(CallOf(ts, p))}

Played(ts, k) == {p \in Positions(ts) : RuleFor(CallOf(ts, p)) = k}

StepOf(steps, n) == IF n \in DOMAIN steps THEN steps[n] ELSE steps[Len(steps)]

InOrderAt(ts, p) ==
  LET k == RuleFor(CallOf(ts, p)) IN
    k # None /\ RuleAt(k).kind = "steps" =>
      ResultOf(ts, p)
        = ToResult(CallOf(ts, p), StepOf(RuleAt(k).steps, Cardinality(Earlier(ts, p)) + 1))

InOrder(ts) == \A p \in Positions(ts) : InOrderAt(ts, p)

LEMMA PositionsOf ==
  ASSUME NEW ts, NEW p
  PROVE  p \in Positions(ts) <=>
           \E i \in DOMAIN ts : \E c \in DOMAIN ts[i].results : p = <<i, c>>
BY DEF Positions

(* The turns with one more that has these calls and results.               *)
LEMMA WithTurn ==
  ASSUME NEW ts, IsSequence(ts), NEW t
  PROVE  /\ \A p : p \in Positions(Append(ts, t)) <=>
              \/ p \in Positions(ts)
              \/ \E c \in DOMAIN t.results : p = <<Len(ts) + 1, c>>
         /\ \A p \in Positions(ts) :
              /\ CallOf(Append(ts, t), p) = CallOf(ts, p)
              /\ ResultOf(Append(ts, t), p) = ResultOf(ts, p)
              /\ p[1] \in 1 .. Len(ts)
         /\ \A c : /\ CallOf(Append(ts, t), <<Len(ts) + 1, c>>) = t.calls[c]
                   /\ ResultOf(Append(ts, t), <<Len(ts) + 1, c>>) = t.results[c]
<1> DEFINE us == Append(ts, t)
           n == Len(ts)
<1>1. /\ n \in Nat /\ DOMAIN ts = 1 .. n /\ DOMAIN us = 1 .. n + 1
      /\ \A i \in 1 .. n : us[i] = ts[i]
      /\ us[n + 1] = t
  BY SequenceDomain, Appended
<1> HIDE DEF us, n
<1>2. ASSUME NEW p
      PROVE  p \in Positions(us) <=>
               p \in Positions(ts) \/ \E c \in DOMAIN t.results : p = <<n + 1, c>>
  <2>1. p \in Positions(us) <=>
          \E i \in 1 .. n + 1 : \E c \in DOMAIN us[i].results : p = <<i, c>>
    BY <1>1, PositionsOf
  <2>2. p \in Positions(ts) <=>
          \E i \in 1 .. n : \E c \in DOMAIN ts[i].results : p = <<i, c>>
    BY <1>1, PositionsOf
  <2>3. \A i : i \in 1 .. n + 1 <=> i \in 1 .. n \/ i = n + 1
    BY <1>1
  <2> QED
    BY <1>1, <2>1, <2>2, <2>3
<1>3. ASSUME NEW p \in Positions(ts)
      PROVE  CallOf(us, p) = CallOf(ts, p) /\ ResultOf(us, p) = ResultOf(ts, p)
             /\ p[1] \in 1 .. n
  <2>1. p[1] \in 1 .. n
    BY <1>1, PositionsOf
  <2> QED
    BY <1>1, <2>1 DEF CallOf, ResultOf
<1>4. \A c : CallOf(us, <<n + 1, c>>) = t.calls[c] /\ ResultOf(us, <<n + 1, c>>) = t.results[c]
  BY <1>1 DEF CallOf, ResultOf
<1> QED
  BY <1>2, <1>3, <1>4 DEF us, n

(* What comes after a call does not change its place in the order.         *)
LEMMA Grown ==
  ASSUME NEW ts, NEW us, NEW N, Positions(us) = Positions(ts) \cup N,
         \A p \in Positions(ts) :
           /\ CallOf(us, p) = CallOf(ts, p) /\ ResultOf(us, p) = ResultOf(ts, p)
           /\ \A q \in N : ~Before(q, p)
  PROVE  /\ \A p \in Positions(ts) : InOrderAt(us, p) <=> InOrderAt(ts, p)
         /\ \A k : Played(us, k)
                     = Played(ts, k) \cup {q \in N : RuleFor(CallOf(us, q)) = k}
<1>1. ASSUME NEW p \in Positions(ts) PROVE InOrderAt(us, p) <=> InOrderAt(ts, p)
  <2>1. Earlier(us, p) = Earlier(ts, p)
    BY DEF Earlier
  <2> QED
    BY <2>1 DEF InOrderAt
<1>2. \A k : Played(us, k) = Played(ts, k) \cup {q \in N : RuleFor(CallOf(us, q)) = k}
  BY DEF Played
<1> QED
  BY <1>1, <1>2

(* A turn without results adds nothing, and with results leaves the turns  *)
(* before it in order.                                                     *)
LEMMA TurnAdded ==
  ASSUME NEW ts, IsSequence(ts), NEW t
  PROVE  /\ InOrder(Append(ts, t)) => InOrder(ts)
         /\ t.results = <<>> =>
              /\ Positions(Append(ts, t)) = Positions(ts)
              /\ InOrder(ts) => InOrder(Append(ts, t))
              /\ \A k : Played(Append(ts, t), k) = Played(ts, k)
<1> DEFINE us == Append(ts, t)
           N == {<<Len(ts) + 1, c>> : c \in DOMAIN t.results}
<1>1. Positions(us) = Positions(ts) \cup N
  <2>1. \A p : p \in Positions(us) <=>
               p \in Positions(ts) \/ \E c \in DOMAIN t.results : p = <<Len(ts) + 1, c>>
    BY WithTurn
  <2>2. \A p : p \in N <=> \E c \in DOMAIN t.results : p = <<Len(ts) + 1, c>>
    OBVIOUS
  <2> HIDE DEF us, N
  <2> QED
    BY <2>1, <2>2
<1>2. ASSUME NEW p \in Positions(ts)
      PROVE  /\ CallOf(us, p) = CallOf(ts, p) /\ ResultOf(us, p) = ResultOf(ts, p)
             /\ \A q \in N : ~Before(q, p)
  <2>1. /\ CallOf(us, p) = CallOf(ts, p) /\ ResultOf(us, p) = ResultOf(ts, p)
        /\ p[1] \in 1 .. Len(ts)
    BY WithTurn
  <2>2. Len(ts) \in Nat
    BY SequenceDomain
  <2>3. \A q \in N : q[1] = Len(ts) + 1
    OBVIOUS
  <2> QED
    BY <2>1, <2>2, <2>3 DEF Before
<1>3. /\ \A p \in Positions(ts) : InOrderAt(us, p) <=> InOrderAt(ts, p)
      /\ \A k : Played(us, k) = Played(ts, k) \cup {q \in N : RuleFor(CallOf(us, q)) = k}
  <2> HIDE DEF us, N
  <2> QED
    BY <1>1, <1>2, Grown
<1>4. t.results = <<>> => N = {}
  BY EmptyIsSequence
<1> HIDE DEF us, N
<1>5. InOrder(us) => InOrder(ts)
  BY <1>1, <1>3 DEF InOrder
<1>6. t.results = <<>> => /\ Positions(us) = Positions(ts)
                          /\ InOrder(ts) => InOrder(us)
                          /\ \A k : Played(us, k) = Played(ts, k)
  BY <1>1, <1>3, <1>4 DEF InOrder
<1> QED
  BY <1>5, <1>6 DEF us

(* Turns ws are the turns us with one more result, x, of the call at p in  *)
(* the last turn t: a new call, later than all others.                     *)
ResultFits(us, ws, p, t, x) ==
  /\ Positions(ws) = Positions(us) \cup {p} /\ p \notin Positions(us)
  /\ \A q \in Positions(us) : InOrderAt(ws, q) <=> InOrderAt(us, q)
  /\ \A k : Played(ws, k) = IF RuleFor(t.calls[p[2]]) = k
                              THEN Played(us, k) \cup {p} ELSE Played(us, k)
  /\ CallOf(ws, p) = t.calls[p[2]] /\ ResultOf(ws, p) = x
  /\ Earlier(ws, p) = Played(us, RuleFor(t.calls[p[2]]))

(* The place of the next result of the last turn.                          *)
Following(ts, t) == <<Len(ts) + 1, Len(t.results) + 1>>

LEMMA ResultAdded ==
  ASSUME NEW ts, IsSequence(ts), NEW t, IsSequence(t.results), NEW x,
         NEW v, v.calls = t.calls, v.results = Append(t.results, x)
  PROVE  ResultFits(Append(ts, t), Append(ts, v), Following(ts, t), t, x)
<1> DEFINE n == Len(ts)
           m == Len(t.results)
           us == Append(ts, t)
           ws == Append(ts, v)
           p == Following(ts, t)
<1>1. /\ n \in Nat /\ m \in Nat /\ DOMAIN t.results = 1 .. m
      /\ DOMAIN v.results = 1 .. m + 1
      /\ \A c \in 1 .. m : v.results[c] = t.results[c]
      /\ v.results[m + 1] = x
  BY SequenceDomain, Appended
<1>2. \A q : q \in Positions(us) <=>
               q \in Positions(ts) \/ \E c \in 1 .. m : q = <<n + 1, c>>
  <2>1. \A q : q \in Positions(Append(ts, t)) <=>
               \/ q \in Positions(ts)
               \/ \E c \in DOMAIN t.results : q = <<Len(ts) + 1, c>>
    BY WithTurn
  <2> QED
    BY <1>1, <2>1
<1>3. \A q : q \in Positions(ws) <=>
               q \in Positions(ts) \/ \E c \in 1 .. m + 1 : q = <<n + 1, c>>
  <2>1. \A q : q \in Positions(Append(ts, v)) <=>
               \/ q \in Positions(ts)
               \/ \E c \in DOMAIN v.results : q = <<Len(ts) + 1, c>>
    BY WithTurn
  <2> QED
    BY <1>1, <2>1
<1>4. \A q \in Positions(ts) :
        /\ CallOf(us, q) = CallOf(ts, q) /\ ResultOf(us, q) = ResultOf(ts, q)
        /\ CallOf(ws, q) = CallOf(ts, q) /\ ResultOf(ws, q) = ResultOf(ts, q)
        /\ q[1] \in 1 .. n
  BY WithTurn
<1>5. \A c : /\ CallOf(us, <<n + 1, c>>) = t.calls[c]
             /\ ResultOf(us, <<n + 1, c>>) = t.results[c]
             /\ CallOf(ws, <<n + 1, c>>) = t.calls[c]
             /\ ResultOf(ws, <<n + 1, c>>) = v.results[c]
  <2>1. \A z, c : /\ CallOf(Append(ts, z), <<n + 1, c>>) = z.calls[c]
                  /\ ResultOf(Append(ts, z), <<n + 1, c>>) = z.results[c]
    BY WithTurn
  <2> QED
    BY <2>1
<1>6. p = <<n + 1, m + 1>> /\ p[1] = n + 1 /\ p[2] = m + 1
  BY DEF Following
<1> HIDE DEF n, m, us, ws, p
<1>7. Positions(ws) = Positions(us) \cup {p}
  <2>1. \A c : c \in 1 .. m + 1 <=> c \in 1 .. m \/ c = m + 1
    BY <1>1
  <2> QED
    BY <1>2, <1>3, <1>6, <2>1
<1>8. ASSUME NEW q \in Positions(us)
      PROVE  /\ CallOf(ws, q) = CallOf(us, q) /\ ResultOf(ws, q) = ResultOf(us, q)
             /\ Before(q, p) /\ ~Before(p, q) /\ q # p
  <2>1. CASE q \in Positions(ts)
    <3>1. q[1] < n + 1 /\ ~(n + 1 < q[1]) /\ n + 1 # q[1]
      BY <1>1, <1>4, <2>1
    <3> QED
      BY <1>4, <1>6, <2>1, <3>1 DEF Before
  <2>2. ASSUME NEW c \in 1 .. m, q = <<n + 1, c>> PROVE <1>8!2
    <3>1. q[1] = n + 1 /\ q[2] = c /\ c < m + 1 /\ ~(m + 1 < c) /\ ~(n + 1 < n + 1)
      BY <1>1, <2>2
    <3> QED
      BY <1>1, <1>5, <1>6, <2>2, <3>1 DEF Before
  <2> QED
    BY <1>2, <2>1, <2>2
<1>9. CallOf(ws, p) = t.calls[p[2]] /\ ResultOf(ws, p) = x
  BY <1>1, <1>5, <1>6
<1>10. ASSUME NEW q \in Positions(us) PROVE InOrderAt(ws, q) <=> InOrderAt(us, q)
  <2>1. Earlier(ws, q) = Earlier(us, q)
    BY <1>7, <1>8 DEF Earlier
  <2> QED
    BY <1>8, <2>1 DEF InOrderAt
<1>11. ~Before(p, p)
  <2>1. ~(n + 1 < n + 1) /\ ~(m + 1 < m + 1)
    BY <1>1
  <2> QED
    BY <1>6, <2>1 DEF Before
<1>12. Earlier(ws, p) = Played(us, RuleFor(t.calls[p[2]]))
  BY <1>7, <1>8, <1>9, <1>11 DEF Earlier, Played
<1>13. \A k : Played(ws, k) = IF RuleFor(t.calls[p[2]]) = k
                                THEN Played(us, k) \cup {p} ELSE Played(us, k)
  BY <1>7, <1>8, <1>9 DEF Played
<1> QED
  BY <1>7, <1>8, <1>9, <1>10, <1>12, <1>13 DEF ResultFits, us, ws, p

-----------------------------------------------------------------------------
(* The rule of a call.                                                     *)

LEMMA LeastOf ==
  ASSUME NEW S \in SUBSET Nat, S # {}
  PROVE  \E n \in S : \A i \in S : n <= i
<1>1. IsWellFoundedOn(OpToRel(<, Nat), Nat)
  BY NatLessThanWellFounded, Zenon
<1>2. PICK n \in S : \A i \in S : ~(<<i, n>> \in OpToRel(<, Nat))
  BY <1>1, WFMin
<1>3. \A i \in S : ~(i < n)
  BY <1>2 DEF OpToRel
<1> QED
  BY <1>3

LEMMA RuleForIsARule ==
  ASSUME NEW call, RuleFor(call) # None
  PROVE  RuleFor(call) \in Rules
<1>1. Matching(call) # {} /\ Matching(call) \subseteq Rules
  BY DEF RuleFor, Matching
<1>2. \A k \in Rules : k[2] \in Nat
  <2> SUFFICES ASSUME NEW name \in DOMAIN Mocks, NEW i \in DOMAIN Mocks[name]
               PROVE  i \in Nat
    BY DEF Rules
  <2> QED
    BY AgentLoopAssumption
<1> DEFINE places == {k[2] : k \in Matching(call)}
<1>3. places \subseteq Nat /\ places # {}
  BY <1>1, <1>2
<1>4. PICK n \in places : \A i \in places : n <= i
  <2> HIDE DEF places
  <2> QED
    BY <1>3, LeastOf
<1>7. \E k \in Matching(call) : \A j \in Matching(call) : k[2] <= j[2]
  BY <1>4
<1>8. RuleFor(call) \in Matching(call)
  BY <1>1, <1>7 DEF RuleFor
<1> QED
  BY <1>1, <1>8

LEMMA StepsOfRule ==
  ASSUME NEW k \in Rules
  PROVE  IsSequence(RuleAt(k).steps)
<1>1. PICK name \in DOMAIN Mocks : \E i \in DOMAIN Mocks[name] : k = <<name, i>>
  BY DEF Rules
<1>2. PICK i \in DOMAIN Mocks[name] : k = <<name, i>>
  BY <1>1
<1>3. LET t == Mocks[name][i].steps IN t \in Seq({t[j] : j \in DOMAIN t})
  BY AgentLoopAssumption
<1> QED
  BY <1>2, <1>3 DEF RuleAt, IsSequence

(* The last step repeats.                                                  *)
LEMMA NextStep ==
  ASSUME NEW steps, IsSequence(steps), Len(steps) > 0, NEW n \in Nat
  PROVE  steps[StepNumber(n, Len(steps))] = StepOf(steps, n + 1)
BY SequenceDomain DEF StepNumber, StepOf

-----------------------------------------------------------------------------

(* The turns of a run, the batch that is being resolved included.          *)
TurnsSoFar(r) ==
  IF phase[r] \in {"resolving", "invoking"}
  THEN Append(turns[r], Turn(r, response[r], results[r])) ELSE turns[r]

(* The resolver's positions count the calls of the trace.                  *)
Counts(r) ==
  \A k \in Rules \ {None} : RuleAt(k).kind = "steps" =>
    /\ IsFiniteSet(Played(TurnsSoFar(r), k))
    /\ used[r][k] = Cardinality(Played(TurnsSoFar(r), k))

Counted(r) ==
  /\ DOMAIN used[r] = Rules
  /\ phase[r] # "ended" => Counts(r)
  /\ InOrder(TurnsSoFar(r))
  /\ phase[r] = "invoking" =>
       LET k == RuleFor(NextCall(r)) IN k # None /\ RuleAt(k).kind # "steps"

OInv == IInv /\ DOMAIN used = Runs /\ \A r \in Runs : Counted(r)

LEMMA OrderedRuns ==
  ASSUME OInv
  PROVE  SequencesPlayInOrder
<1>1. ASSUME NEW r \in Runs PROVE InOrder(turns[r])
  <2>1. IsSequence(turns[r])
    BY DEF OInv, IInv, RunInv, Typed
  <2> QED
    BY <2>1, TurnAdded DEF OInv, Counted, TurnsSoFar
<1>2. ASSUME NEW r \in Runs
      PROVE  /\ Answered(r) = Positions(turns[r])
             /\ \A p : /\ CallAt(r, p) = CallOf(turns[r], p)
                       /\ SameRuleBefore(r, p) = Earlier(turns[r], p)
  BY DEF Answered, Positions, CallAt, CallOf, SameRuleBefore, Earlier, Before
<1> QED
  BY <1>1, <1>2 DEF SequencesPlayInOrder, InOrder, InOrderAt, StepOf, ResultOf

(* A step that answers no call.                                            *)
LEMMA NothingAnswered ==
  ASSUME NEW r \in Runs, Counted(r), used'[r] = used[r],
         phase[r] # "ended", phase'[r] # "invoking",
         \/ TurnsSoFar(r)' = TurnsSoFar(r)
         \/ phase'[r] = "ended" /\ InOrder(TurnsSoFar(r)')
         \/ /\ \A k : Played(TurnsSoFar(r)', k) = Played(TurnsSoFar(r), k)
            /\ InOrder(TurnsSoFar(r)')
  PROVE  Counted(r)'
BY DEF Counted, Counts

(* A step that answers the next call, from a sequence or not.              *)
AnswersWith(r, x) ==
  /\ phase[r] \in {"resolving", "invoking"} /\ phase'[r] = "resolving"
  /\ results'[r] = Append(results[r], x) /\ response'[r] = response[r]
  /\ messages'[r] = messages[r] /\ turns'[r] = turns[r]
  /\ LET k == RuleFor(NextCall(r)) IN
       \/ /\ k = None \/ RuleAt(k).kind # "steps"
          /\ used'[r] = used[r]
       \/ /\ k # None /\ RuleAt(k).kind = "steps" /\ Len(RuleAt(k).steps) > 0
          /\ x = ToResult(NextCall(r),
                   RuleAt(k).steps[StepNumber(used[r][k], Len(RuleAt(k).steps))])
          /\ used'[r] = [used[r] EXCEPT ![k] = @ + 1]

LEMMA CallAnswered ==
  ASSUME NEW r \in Runs, RunInv(r), Counted(r), NEW x, AnswersWith(r, x)
  PROVE  Counted(r)'
<1> DEFINE t == Turn(r, response[r], results[r])
           v == Turn(r, response[r], results'[r])
           us == Append(turns[r], t)
           ws == Append(turns[r], v)
           p == Following(turns[r], t)
           k == RuleFor(NextCall(r))
<1>1. TurnsSoFar(r) = us /\ TurnsSoFar(r)' = ws
  BY DEF AnswersWith, TurnsSoFar, Turn
<1>2. IsSequence(turns[r]) /\ IsSequence(t.results)
  BY DEF RunInv, Typed, Turn
<1>3. v.calls = t.calls /\ v.results = Append(t.results, x) /\ t.results = results[r]
      /\ t.calls[p[2]] = NextCall(r)
  BY DEF AnswersWith, Turn, NextCall, Following
<1> HIDE DEF t, v
<1>4. /\ Positions(ws) = Positions(us) \cup {p} /\ p \notin Positions(us)
      /\ \A q \in Positions(us) : InOrderAt(ws, q) <=> InOrderAt(us, q)
      /\ \A j : Played(ws, j) = IF k = j THEN Played(us, j) \cup {p} ELSE Played(us, j)
      /\ CallOf(ws, p) = NextCall(r) /\ ResultOf(ws, p) = x
      /\ Earlier(ws, p) = Played(us, k)
  <2>1. ResultFits(us, ws, p, t, x)
    BY <1>2, <1>3, ResultAdded
  <2>2. RuleFor(t.calls[p[2]]) = k
    BY <1>3
  <2> HIDE DEF us, ws, p, k
  <2> QED
    BY <1>3, <2>1, <2>2 DEF ResultFits
<1>5. \/ /\ k = None \/ RuleAt(k).kind # "steps"
         /\ used'[r] = used[r]
      \/ /\ k # None /\ RuleAt(k).kind = "steps" /\ Len(RuleAt(k).steps) > 0
         /\ x = ToResult(NextCall(r),
                  RuleAt(k).steps[StepNumber(used[r][k], Len(RuleAt(k).steps))])
         /\ used'[r] = [used[r] EXCEPT ![k] = @ + 1]
  BY DEF AnswersWith
<1>6. k = RuleFor(NextCall(r)) /\ (k # None => k \in Rules)
  BY RuleForIsARule
<1> HIDE DEF us, ws, p, k
<1>7. \A j : p \notin Played(us, j)
  BY <1>4 DEF Played
<1>8. /\ \A j \in Rules \ {None} : RuleAt(j).kind = "steps" =>
           /\ IsFiniteSet(Played(us, j))
           /\ used[r][j] = Cardinality(Played(us, j))
           /\ used[r][j] \in Nat
      /\ DOMAIN used[r] = Rules /\ InOrder(us)
  BY <1>1, FS_CardinalityType DEF Counted, Counts, AnswersWith
<1>9. InOrderAt(ws, p)
  <2> SUFFICES ASSUME k # None, RuleAt(k).kind = "steps"
               PROVE  x = ToResult(NextCall(r),
                            StepOf(RuleAt(k).steps, Cardinality(Played(us, k)) + 1))
    BY <1>4, <1>6 DEF InOrderAt
  <2>1. used[r][k] = Cardinality(Played(us, k)) /\ used[r][k] \in Nat
    BY <1>8, <1>6
  <2>2. IsSequence(RuleAt(k).steps)
    BY <1>6, StepsOfRule
  <2>3. /\ Len(RuleAt(k).steps) > 0
        /\ x = ToResult(NextCall(r),
                 RuleAt(k).steps[StepNumber(used[r][k], Len(RuleAt(k).steps))])
    BY <1>5
  <2>4. RuleAt(k).steps[StepNumber(used[r][k], Len(RuleAt(k).steps))]
          = StepOf(RuleAt(k).steps, used[r][k] + 1)
    BY <2>1, <2>2, <2>3, NextStep
  <2> QED
    BY <2>1, <2>3, <2>4
<1>10. InOrder(ws)
  BY <1>4, <1>8, <1>9 DEF InOrder
<1>11. ASSUME NEW j \in Rules \ {None}, RuleAt(j).kind = "steps"
       PROVE  IsFiniteSet(Played(ws, j)) /\ used'[r][j] = Cardinality(Played(ws, j))
  <2>1. CASE j = k
    <3>1. Played(ws, j) = Played(us, j) \cup {p}
      BY <1>4, <2>1
    <3>2. IsFiniteSet(Played(ws, j)) /\ Cardinality(Played(ws, j)) = used[r][j] + 1
      BY <1>7, <1>8, <1>11, <3>1, FS_AddElement
    <3>3. used'[r][j] = used[r][j] + 1
      BY <1>5, <1>8, <1>11, <2>1
    <3> QED
      BY <3>2, <3>3
  <2>2. CASE j # k
    <3>1. Played(ws, j) = Played(us, j)
      BY <1>4, <2>2
    <3>2. used'[r][j] = used[r][j]
      BY <1>5, <1>8, <2>2
    <3> QED
      BY <1>8, <1>11, <3>1, <3>2
  <2> QED
    BY <2>1, <2>2
<1>12. DOMAIN used'[r] = Rules
  BY <1>5, <1>8
<1>13. phase'[r] = "resolving"
  BY DEF AnswersWith
<1> QED
  BY <1>1, <1>10, <1>11, <1>12, <1>13 DEF Counted, Counts

LEMMA OwnUse ==
  ASSUME DOMAIN used = Runs, NEW q \in Runs, Step(q)
  PROVE  DOMAIN used' = Runs /\ \A r \in Runs \ {q} : used'[r] = used[r]
<1>1. CASE Begin(q)
  BY <1>1 DEF Begin
<1>2. CASE Complete(q)
  BY <1>2 DEF Complete, ProviderRaises, FinalAnswer, ToolUse
<1>3. CASE Resolve(q)
  BY <1>3 DEF Resolve, ResolveMocked, ResolvePassthrough, Invoked, ResolveRaises,
              ResolveToNull, StopUnmocked, CloseTurn
<1> QED
  BY <1>1, <1>2, <1>3 DEF Step

LEMMA OthersKeepCount ==
  ASSUME NEW r \in Runs, Counted(r), used'[r] = used[r],
         phase'[r] = phase[r], messages'[r] = messages[r], turns'[r] = turns[r],
         response'[r] = response[r], results'[r] = results[r]
  PROVE  Counted(r)'
<1>1. TurnsSoFar(r)' = TurnsSoFar(r) /\ NextCall(r)' = NextCall(r)
  BY DEF TurnsSoFar, Turn, NextCall
<1> QED
  BY <1>1 DEF Counted, Counts

LEMMA OneRunCounts ==
  ASSUME PerRun, DOMAIN used = Runs, NEW q \in Runs, RunInv(q), Counted(q), Step(q)
  PROVE  Counted(q)'
<1> USE DEF PerRun
<1>0. IsSequence(turns[q])
  BY DEF RunInv, Typed
<1>1. CASE Begin(q)
  <2>1. TurnsSoFar(q)' = TurnsSoFar(q)
    BY <1>1 DEF Begin, LoopHead, End, TurnsSoFar
  <2> QED
    BY <1>1, <2>1, NothingAnswered DEF Begin, LoopHead, End
<1>2. CASE ProviderRaises(q)
  <2>1. TurnsSoFar(q)' = TurnsSoFar(q)
    BY <1>2 DEF ProviderRaises, End, TurnsSoFar
  <2> QED
    BY <1>2, <2>1, NothingAnswered DEF ProviderRaises, End
<1>3. ASSUME NEW resp \in Responses, FinalAnswer(q, resp) PROVE Counted(q)'
  <2> DEFINE t == Turn(q, resp, <<>>)
  <2>1. TurnsSoFar(q) = turns[q] /\ TurnsSoFar(q)' = Append(turns[q], t)
    BY <1>3 DEF FinalAnswer, End, TurnsSoFar
  <2>2. t.results = <<>> /\ InOrder(turns[q])
    BY <2>1 DEF Turn, Counted
  <2> HIDE DEF t
  <2>3. InOrder(TurnsSoFar(q)')
    BY <1>0, <2>1, <2>2, TurnAdded
  <2> QED
    BY <1>3, <2>3, NothingAnswered DEF FinalAnswer, End
<1>4. ASSUME NEW resp \in Responses, ToolUse(q, resp) PROVE Counted(q)'
  <2> DEFINE t == [sent |-> messages[q], stop |-> resp.stop, calls |-> resp.calls,
                   results |-> <<>>]
  <2>1. TurnsSoFar(q) = turns[q] /\ TurnsSoFar(q)' = Append(turns[q], t)
    BY <1>4 DEF ToolUse, TurnsSoFar, Turn
  <2>2. t.results = <<>> /\ InOrder(turns[q])
    BY <2>1 DEF Counted
  <2> HIDE DEF t
  <2>3. /\ InOrder(TurnsSoFar(q)')
        /\ \A k : Played(TurnsSoFar(q)', k) = Played(TurnsSoFar(q), k)
    BY <1>0, <2>1, <2>2, TurnAdded
  <2> QED
    BY <1>4, <2>3, NothingAnswered DEF ToolUse
<1>5. CASE ResolveMocked(q)
  <2> DEFINE k == RuleFor(NextCall(q))
             x == ToResult(NextCall(q),
                    RuleAt(k).steps[StepNumber(used[q][k], Len(RuleAt(k).steps))])
  <2>1. /\ k # None /\ RuleAt(k).kind = "steps" /\ Len(RuleAt(k).steps) > 0
        /\ results'[q] = Append(results[q], x)
        /\ used'[q] = [used[q] EXCEPT ![k] = @ + 1]
    BY <1>5 DEF ResolveMocked, Deliver
  <2>2. /\ phase[q] = "resolving" /\ phase'[q] = "resolving"
        /\ response'[q] = response[q] /\ messages'[q] = messages[q]
        /\ turns'[q] = turns[q]
    BY <1>5 DEF ResolveMocked, Deliver, CallLeft
  <2>3. AnswersWith(q, x)
    BY <2>1, <2>2 DEF AnswersWith
  <2> QED
    BY <2>3, CallAnswered
<1>6. CASE ResolvePassthrough(q)
  <2>1. /\ TurnsSoFar(q)' = TurnsSoFar(q) /\ NextCall(q)' = NextCall(q)
        /\ used'[q] = used[q] /\ phase[q] = "resolving" /\ phase'[q] = "invoking"
    BY <1>6 DEF ResolvePassthrough, CallLeft, TurnsSoFar, Turn, NextCall
  <2>2. LET k == RuleFor(NextCall(q)) IN k # None /\ RuleAt(k).kind # "steps"
    BY <1>6 DEF ResolvePassthrough
  <2> QED
    BY <2>1, <2>2 DEF Counted, Counts
<1>7. ASSUME NEW isError \in BOOLEAN, Invoked(q, isError) PROVE Counted(q)'
  <2> DEFINE x == [id |-> NextCall(q).id, value |-> "impl", isError |-> isError]
             k == RuleFor(NextCall(q))
  <2>1. /\ k # None /\ RuleAt(k).kind # "steps" /\ used'[q] = used[q]
        /\ results'[q] = Append(results[q], x)
    BY <1>7 DEF Invoked, Deliver, Counted
  <2>2. /\ phase[q] = "invoking" /\ phase'[q] = "resolving"
        /\ response'[q] = response[q] /\ messages'[q] = messages[q]
        /\ turns'[q] = turns[q]
    BY <1>7 DEF Invoked, Deliver
  <2>3. AnswersWith(q, x)
    BY <2>1, <2>2 DEF AnswersWith
  <2> QED
    BY <2>3, CallAnswered
<1>8. CASE ResolveRaises(q)
  <2>1. /\ TurnsSoFar(q)' = turns[q] /\ TurnsSoFar(q) = Append(turns[q], Turn(q, response[q], results[q]))
    BY <1>8 DEF ResolveRaises, CallLeft, End, TurnsSoFar
  <2>2. InOrder(TurnsSoFar(q)')
    BY <1>0, <2>1, TurnAdded DEF Counted
  <2> QED
    BY <1>8, <2>2, NothingAnswered DEF ResolveRaises, CallLeft, End
<1>9. CASE ResolveToNull(q)
  <2> DEFINE x == EmptyResult(NextCall(q))
             k == RuleFor(NextCall(q))
  <2>1. k = None /\ used'[q] = used[q] /\ results'[q] = Append(results[q], x)
    BY <1>9 DEF ResolveToNull, Deliver
  <2>2. /\ phase[q] = "resolving" /\ phase'[q] = "resolving"
        /\ response'[q] = response[q] /\ messages'[q] = messages[q]
        /\ turns'[q] = turns[q]
    BY <1>9 DEF ResolveToNull, Deliver, CallLeft
  <2>3. AnswersWith(q, x)
    BY <2>1, <2>2 DEF AnswersWith
  <2> QED
    BY <2>3, CallAnswered
<1>10. CASE StopUnmocked(q)
  <2>1. TurnsSoFar(q)' = TurnsSoFar(q)
    BY <1>10 DEF StopUnmocked, CallLeft, End, TurnsSoFar
  <2> QED
    BY <1>10, <2>1, NothingAnswered DEF StopUnmocked, CallLeft, End
<1>11. CASE CloseTurn(q)
  <2>1. TurnsSoFar(q)' = TurnsSoFar(q)
    BY <1>11 DEF CloseTurn, LoopHead, End, TurnsSoFar
  <2> QED
    BY <1>11, <2>1, NothingAnswered DEF CloseTurn, LoopHead, End
<1> QED
  BY <1>1, <1>2, <1>3, <1>4, <1>5, <1>6, <1>7, <1>8, <1>9, <1>10, <1>11
     DEF Step, Complete, Resolve

LEMMA InitCounts == ASSUME Init PROVE OInv
<1>1. IInv
  BY InitInvariant
<1> SUFFICES ASSUME NEW r \in Runs PROVE Counted(r)
  BY <1>1 DEF Init, OInv
<1>2. phase[r] = "new" /\ turns[r] = <<>> /\ used[r] = [k \in Rules |-> 0]
  BY DEF Init
<1>3. TurnsSoFar(r) = <<>>
  BY <1>2 DEF TurnsSoFar
<1>4. Positions(<<>>) = {}
  BY PositionsOf, EmptyIsSequence
<1>5. InOrder(<<>>) /\ \A k : Played(<<>>, k) = {}
  BY <1>4 DEF InOrder, Played
<1> QED
  BY <1>2, <1>3, <1>5, FS_EmptySet DEF Counted, Counts

LEMMA StepCounts ==
  ASSUME OInv, [Next]_vars
  PROVE  OInv'
<1>1. IInv'
  BY StepInvariant DEF OInv
<1>2. CASE UNCHANGED vars
  BY <1>1, <1>2, OthersKeepCount DEF vars, OInv
<1>3. ASSUME NEW q \in Runs, Step(q) PROVE OInv'
  <2>1. DOMAIN used' = Runs /\ \A r \in Runs \ {q} : used'[r] = used[r]
    BY <1>3, OwnUse DEF OInv
  <2>2. Counted(q)'
    BY <1>3, OneRunCounts DEF OInv, IInv
  <2>3. ASSUME NEW r \in Runs \ {q} PROVE Counted(r)'
    BY <1>3, <2>1, OwnStep, OthersKeepCount DEF OInv, IInv
  <2> QED
    BY <1>1, <2>1, <2>2, <2>3 DEF OInv
<1> QED
  BY <1>2, <1>3 DEF Next

(* Every rule's sequence plays in order in every run, whatever runs share  *)
(* the rule and however they interleave: the resolver's counters are fresh *)
(* for each run and count exactly the calls of its trace.                  *)
THEOREM SequencesInOrder == Spec => []SequencesPlayInOrder
<1>1. Init => OInv
  BY InitCounts
<1>2. OInv /\ [Next]_vars => OInv'
  BY StepCounts
<1>3. OInv => SequencesPlayInOrder
  BY OrderedRuns
<1> QED
  BY <1>1, <1>2, <1>3, PTL DEF Spec

-----------------------------------------------------------------------------
(* The loop over a scripted gateway.                                       *)

(* A script as map_script makes it: an entry fails, or is a response that  *)
(* says something or asks for tools (fake.py, _build).                     *)
Written ==
  Script \in Seq({resp \in Responses : resp.stop \in {"end_turn", "tool_use"}} \cup {Fails})

LEMMA EntryIs ==
  ASSUME Written, callsMade \in Nat, callsMade < Len(Script)
  PROVE  /\ callsMade + 1 \in DOMAIN Script
         /\ Entry # Fails => Entry \in Responses /\ Entry.stop \in {"end_turn", "tool_use"}
<1> DEFINE T == {resp \in Responses : resp.stop \in {"end_turn", "tool_use"}} \cup {Fails}
<1>1. /\ Len(Script) \in Nat /\ DOMAIN Script = 1 .. Len(Script)
      /\ \A i \in 1 .. Len(Script) : Script[i] \in T
  BY LenProperties DEF Written
<1>2. callsMade + 1 \in 1 .. Len(Script)
  BY <1>1
<1>3. Script[callsMade + 1] \in T
  BY <1>1, <1>2
<1> QED
  BY <1>1, <1>2, <1>3 DEF Entry

(* A step over the script is one of the loop.                              *)
LEMMA ScriptedStepIs ==
  ASSUME Written, callsMade \in Nat, [ScriptedNext]_scriptedVars
  PROVE  [Next]_vars /\ callsMade' \in Nat
<1>1. CASE UNCHANGED scriptedVars
  BY <1>1 DEF scriptedVars, vars
<1>2. ASSUME NEW r \in Runs, ScriptedStep(r)  PROVE Step(r) /\ callsMade' \in Nat
  <2>1. CASE Play(r)
    <3>1. Entry = Fails => ProviderRaises(r)
      BY <2>1 DEF Play
    <3>2. Entry # Fails => Entry \in Responses /\ (FinalAnswer(r, Entry) \/ ToolUse(r, Entry))
      BY <2>1, EntryIs DEF Play
    <3>3. callsMade' \in Nat
      BY <2>1 DEF Play
    <3> QED
      BY <3>1, <3>2, <3>3 DEF Step, Complete
  <2>2. CASE Exhaust(r)
    BY <2>2 DEF Exhaust, Step, Complete
  <2>3. CASE (Begin(r) \/ Resolve(r)) /\ UNCHANGED callsMade
    BY <2>3 DEF Step
  <2> QED
    BY <1>2, <2>1, <2>2, <2>3 DEF ScriptedStep
<1> QED
  BY <1>1, <1>2 DEF ScriptedNext, Next

(* A case with a script, however many repetitions share its gateway, keeps *)
(* what the loop promises of conversation, trace and termination.          *)
THEOREM ScriptedKeeps ==
  ASSUME Written
  PROVE  ScriptedSpec => [](EveryCallAnswered /\ TraceIsTranscript /\ TerminationExplained)
<1> DEFINE J == IInv /\ callsMade \in Nat
<1>1. ScriptedInit => J
  BY InitInvariant DEF ScriptedInit
<1>2. J /\ [ScriptedNext]_scriptedVars => J'
  BY ScriptedStepIs, StepInvariant
<1>3. J => EveryCallAnswered /\ TraceIsTranscript /\ TerminationExplained
  BY ImpliesProperties
<1> HIDE DEF J
<1> QED
  BY <1>1, <1>2, <1>3, PTL DEF ScriptedSpec

(* The only run of a gateway: where it is in the script, and what it has   *)
(* been given.                                                             *)
InScript(r) ==
  /\ callsMade \in 0 .. Len(Script)
  /\ phase[r] \in {"new", "asking"} => callsMade = Len(turns[r])
  /\ phase[r] \in {"resolving", "invoking"} =>
       /\ callsMade = Len(turns[r]) + 1
       /\ response[r] = Script[callsMade]

FromScript(r) ==
  /\ \A i \in DOMAIN turns[r] :
       /\ i <= Len(Script)
       /\ turns[r][i].stop = Script[i].stop
       /\ turns[r][i].calls = Script[i].calls
  /\ termination[r] = "provider_error" =>
       Len(turns[r]) = Len(Script) \/ Script[Len(turns[r]) + 1] = Fails

(* A turn of the loop that was played from the next entry is played.       *)
LEMMA PlaysOn ==
  ASSUME NEW r \in Runs, IInv, InScript(r), FromScript(r), NEW t,
         turns'[r] = Append(turns[r], t),
         Len(turns[r]) + 1 <= Len(Script),
         t.stop = Script[Len(turns[r]) + 1].stop, t.calls = Script[Len(turns[r]) + 1].calls,
         termination'[r] # "provider_error"
  PROVE  FromScript(r)' /\ Len(turns'[r]) = Len(turns[r]) + 1
<1> DEFINE n == Len(turns[r])
<1>1. IsSequence(turns[r])
  BY DEF IInv, RunInv, Typed
<1>2. n \in Nat /\ DOMAIN turns[r] = 1 .. n
  BY <1>1, SequenceDomain
<1>3. /\ Len(turns'[r]) = n + 1 /\ DOMAIN turns'[r] = 1 .. n + 1
      /\ \A i \in 1 .. n : turns'[r][i] = turns[r][i]
      /\ turns'[r][n + 1] = t
  BY <1>1, Appended
<1>4. \A i \in 1 .. n + 1 : i \in 1 .. n \/ i = n + 1
  BY <1>2
<1>5. ASSUME NEW i \in 1 .. n + 1
      PROVE  /\ i <= Len(Script)
             /\ turns'[r][i].stop = Script[i].stop
             /\ turns'[r][i].calls = Script[i].calls
  BY <1>2, <1>3, <1>4 DEF FromScript
<1> QED
  BY <1>3, <1>5 DEF FromScript

LEMMA BeginsInScript ==
  ASSUME NEW r \in Runs, IInv, InScript(r), FromScript(r), Begin(r), UNCHANGED callsMade
  PROVE  InScript(r)' /\ FromScript(r)'
<1>1. /\ phase[r] = "new" /\ turns'[r] = turns[r] /\ response'[r] = response[r]
      /\ phase'[r] \in {"ended", "asking"} /\ DOMAIN phase = Runs /\ DOMAIN termination = Runs
  BY DEF Begin, LoopHead, End, IInv, PerRun
<1>2. termination'[r] = "provider_error" => termination[r] = "provider_error"
  BY <1>1 DEF Begin, LoopHead, End
<1> QED
  BY <1>1, <1>2 DEF InScript, FromScript

LEMMA PlaysInScript ==
  ASSUME Written, NEW r \in Runs, IInv, InScript(r), FromScript(r), Play(r)
  PROVE  InScript(r)' /\ FromScript(r)'
<1>1. /\ DOMAIN phase = Runs /\ DOMAIN turns = Runs /\ DOMAIN response = Runs
      /\ DOMAIN termination = Runs
  BY DEF IInv, PerRun
<1>2. phase[r] = "asking" /\ callsMade' = callsMade + 1 /\ callsMade < Len(Script)
  BY DEF Play, ProviderRaises, FinalAnswer, ToolUse
<1>3. callsMade = Len(turns[r]) /\ callsMade \in Nat /\ Len(Script) \in Nat
  BY <1>2, LenProperties DEF InScript, Written
<1>4. callsMade + 1 \in 0 .. Len(Script) /\ callsMade + 1 <= Len(Script)
  BY <1>2, <1>3
<1>5. CASE Entry = Fails
  <2>1. phase'[r] = "ended" /\ turns'[r] = turns[r]
    BY <1>1, <1>5 DEF Play, ProviderRaises, End
  <2>2. Script[Len(turns'[r]) + 1] = Fails
    BY <1>3, <1>5, <2>1 DEF Entry
  <2> QED
    BY <1>2, <1>4, <2>1, <2>2 DEF InScript, FromScript
<1>6. CASE Entry # Fails /\ FinalAnswer(r, Entry)
  <2> DEFINE t == Turn(r, Entry, <<>>)
  <2>1. /\ turns'[r] = Append(turns[r], t) /\ phase'[r] = "ended"
        /\ termination'[r] = Termination(Entry.stop) /\ Entry.stop # "tool_use"
    BY <1>1, <1>6 DEF FinalAnswer, End
  <2>2. Entry.stop = "end_turn"
    BY <1>2, <1>3, <1>6, <2>1, EntryIs
  <2>3. termination'[r] = "end_turn"
    BY <2>1, <2>2 DEF Termination
  <2>4. t.stop = Script[Len(turns[r]) + 1].stop /\ t.calls = Script[Len(turns[r]) + 1].calls
    BY <1>3 DEF Turn, Entry
  <2> HIDE DEF t
  <2>5. FromScript(r)'
    BY <1>3, <1>4, <2>1, <2>3, <2>4, PlaysOn
  <2> QED
    BY <1>2, <1>4, <2>1, <2>5 DEF InScript
<1>7. CASE Entry # Fails /\ ToolUse(r, Entry)
  <2>1. /\ phase'[r] = "resolving" /\ response'[r] = Entry /\ turns'[r] = turns[r]
        /\ termination'[r] = termination[r]
    BY <1>1, <1>7 DEF ToolUse
  <2>2. response'[r] = Script[callsMade']
    BY <1>2, <2>1 DEF Entry
  <2>3. callsMade' = Len(turns'[r]) + 1
    BY <1>2, <1>3, <2>1
  <2> QED
    BY <1>2, <1>4, <2>1, <2>2, <2>3 DEF InScript, FromScript
<1> QED
  BY <1>5, <1>6, <1>7 DEF Play

LEMMA ExhaustsInScript ==
  ASSUME Written, NEW r \in Runs, IInv, InScript(r), FromScript(r), Exhaust(r)
  PROVE  InScript(r)' /\ FromScript(r)'
<1>1. DOMAIN phase = Runs
  BY DEF IInv, PerRun
<1>2. /\ phase[r] = "asking" /\ phase'[r] = "ended" /\ turns'[r] = turns[r]
      /\ callsMade >= Len(Script) /\ callsMade' = callsMade
  BY <1>1 DEF Exhaust, ProviderRaises, End
<1>3. Len(turns'[r]) = Len(Script)
  <2>1. Len(Script) \in Nat
    BY LenProperties DEF Written
  <2> QED
    BY <1>2, <2>1 DEF InScript
<1> QED
  BY <1>2, <1>3 DEF InScript, FromScript

LEMMA ResolvesInScript ==
  ASSUME Written, NEW r \in Runs, IInv, InScript(r), FromScript(r), Resolve(r), UNCHANGED callsMade
  PROVE  InScript(r)' /\ FromScript(r)'
<1>1. /\ DOMAIN phase = Runs /\ DOMAIN turns = Runs /\ DOMAIN response = Runs
      /\ DOMAIN termination = Runs
  BY DEF IInv, PerRun
<1>2. phase[r] \in {"resolving", "invoking"}
  BY DEF Resolve, ResolveMocked, ResolvePassthrough, Invoked, ResolveRaises, ResolveToNull,
         StopUnmocked, CloseTurn, CallLeft
<1>3. /\ callsMade = Len(turns[r]) + 1 /\ response[r] = Script[callsMade]
      /\ callsMade \in 0 .. Len(Script) /\ callsMade' = callsMade /\ termination[r] = None
  BY <1>2 DEF InScript, IInv, RunInv, Underway
<1>4. None # "provider_error" /\ Len(Script) \in Nat /\ Len(turns[r]) \in Nat
  <2>1. IsSequence(turns[r])
    BY DEF IInv, RunInv, Typed
  <2> QED
    BY <2>1, SequenceDomain, AgentLoopAssumption, LenProperties DEF Terminations, Written
<1>5. CASE /\ turns'[r] = turns[r] /\ response'[r] = response[r] /\ termination'[r] = termination[r]
           /\ phase'[r] \in {"resolving", "invoking"}
  BY <1>3, <1>5 DEF InScript, FromScript
<1>6. CASE ResolveRaises(r)
  <2>1. turns'[r] = turns[r] /\ phase'[r] = "ended" /\ termination'[r] = "none"
    BY <1>1, <1>6 DEF ResolveRaises, End
  <2> QED
    BY <1>3, <2>1 DEF InScript, FromScript
<1>7. CASE StopUnmocked(r) \/ CloseTurn(r)
  <2> DEFINE t == Turn(r, response[r], results[r])
  <2>1. turns'[r] = Append(turns[r], t)
    BY <1>1, <1>7 DEF StopUnmocked, CloseTurn
  <2>2. phase'[r] \in {"ended", "asking"} /\ termination'[r] # "provider_error"
    BY <1>1, <1>3, <1>4, <1>7 DEF StopUnmocked, CloseTurn, LoopHead, End
  <2>3. t.stop = Script[Len(turns[r]) + 1].stop /\ t.calls = Script[Len(turns[r]) + 1].calls
    BY <1>3 DEF Turn
  <2>4. Len(turns[r]) + 1 <= Len(Script)
    BY <1>3, <1>4
  <2> HIDE DEF t
  <2>5. FromScript(r)' /\ Len(turns'[r]) = Len(turns[r]) + 1
    BY <2>1, <2>2, <2>3, <2>4, PlaysOn
  <2> QED
    BY <1>3, <2>2, <2>5 DEF InScript
<1>8. CASE ResolveMocked(r) \/ ResolvePassthrough(r) \/ ResolveToNull(r)
  BY <1>1, <1>2, <1>5, <1>8
     DEF ResolveMocked, ResolvePassthrough, ResolveToNull, Deliver, CallLeft
<1>9. ASSUME NEW isError \in BOOLEAN, Invoked(r, isError)  PROVE InScript(r)' /\ FromScript(r)'
  BY <1>1, <1>5, <1>9 DEF Invoked, Deliver
<1> QED
  BY <1>6, <1>7, <1>8, <1>9 DEF Resolve

(* What the fake gateway promises holds when it has one run: each turn of  *)
(* the trace plays the entry of its number, and the provider fails only    *)
(* where the script does or is over.  The gateway that repetitions share   *)
(* is what breaks it.                                                      *)
THEOREM FreshForOneRun ==
  ASSUME Written, NEW r, Runs = {r}
  PROVE  ScriptedSpec => []ScriptStartsFresh
<1> DEFINE J == IInv /\ InScript(r) /\ FromScript(r)
<1>1. ScriptedInit => J
  <2> SUFFICES ASSUME ScriptedInit  PROVE J
    OBVIOUS
  <2>1. /\ phase[r] = "new" /\ turns[r] = <<>> /\ termination[r] = None /\ callsMade = 0
        /\ Len(Script) \in Nat
    BY LenProperties DEF ScriptedInit, Init, Written
  <2>2. None # "provider_error"
    BY AgentLoopAssumption DEF Terminations
  <2> QED
    BY <2>1, <2>2, InitInvariant, EmptyIsSequence DEF ScriptedInit, InScript, FromScript
<1>2. J /\ [ScriptedNext]_scriptedVars => J'
  <2> SUFFICES ASSUME J, [ScriptedNext]_scriptedVars  PROVE J'
    OBVIOUS
  <2>1. callsMade \in Nat
    BY LenProperties DEF InScript, Written
  <2>2. IInv'
    BY <2>1, ScriptedStepIs, StepInvariant
  <2>3. CASE UNCHANGED scriptedVars
    BY <2>2, <2>3 DEF scriptedVars, vars, InScript, FromScript
  <2>4. CASE ScriptedStep(r)
    <3>1. InScript(r)' /\ FromScript(r)'
      BY <2>4, BeginsInScript, PlaysInScript, ExhaustsInScript, ResolvesInScript DEF ScriptedStep
    <3> QED
      BY <2>2, <3>1
  <2> QED
    BY <2>3, <2>4 DEF ScriptedNext
<1>3. J => ScriptStartsFresh
  BY DEF FromScript, ScriptStartsFresh
<1> HIDE DEF J
<1> QED
  BY <1>1, <1>2, <1>3, PTL DEF ScriptedSpec

============================================================================
