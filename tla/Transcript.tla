----------------------------- MODULE Transcript ----------------------------
(***************************************************************************)
(* One case, run again and again in the modes of its cassettes while its   *)
(* mocks are edited: the conversation that grows turn by turn              *)
(* (application/loop.py), what the provider's adapter puts on the wire and *)
(* reads from it (adapters/driven/providers/{openai,anthropic,gemini}.py), *)
(* the key under which each answer is kept (Fingerprint) and what the      *)
(* assertions say of the calls so far (Assertions).                        *)
(*                                                                         *)
(* Providers mint a new id for every call; ids are handed out in turn from *)
(* CallIds.  Answers end the loop or ask for tools; the other stop reasons *)
(* are in AgentLoop, failing stores and repetitions in Cassettes.          *)
(***************************************************************************)
EXTENDS Fingerprint, Assertions, FiniteSetsExt, SequencesExt

CONSTANTS
  Providers,  \* the wire families a behaviour may use
  Tools,      \* the tools, all of them mocked
  Answers,    \* the calls a live answer may ask for: sequences of
              \* [name, args, malformed]; the empty one is the final answer
  Mocks,      \* the mocks the file may have: Mocks[m][tool] = [content, isError]
  CallIds,    \* the ids that are minted, in order; no data holds one
  Matches,    \* the objects that tool_args may ask for
  TurnLimit,  \* max_turns
  MaxRuns     \* bound on the runs of a behaviour

Marks == {"{", "}"}

Malformed == {"none", "raw"}

NoArguments == [dict |-> <<>>]

ASSUME TranscriptAssumption ==
  /\ Providers \subseteq {"openai", "anthropic", "gemini"}
  /\ Answers \subseteq Seq([name : Tools, args : Objects, malformed : Malformed])
  /\ Mocks \subseteq [Tools -> [content : Values, isError : {"ok", "error"}]]
  /\ Matches \subseteq Objects
  /\ CallIds \in Seq(ToSet(CallIds)) /\ IsInjective(CallIds)
  /\ Atoms \cap Marks = {} /\ ToSet(CallIds) \cap (Atoms \cup Marks) = {}
  /\ TurnLimit \in Nat /\ MaxRuns \in Nat

VARIABLES
  provider,  \* the provider of the case
  mocks,     \* the mocks in the suite file
  mode,      \* the cassette mode of the run that is on, or "idle"
  messages,  \* its conversation
  store,     \* the cassettes: a function from keys to answers with ids
  minted,    \* how many ids were minted
  runs,      \* how many runs there have been
  asked      \* history: the conversation each cassette answered last

vars == <<provider, mocks, mode, messages, store, minted, runs, asked>>

User == [role |-> "user", calls |-> <<>>, results |-> <<>>]

AssistantOf(calls) == [role |-> "assistant", calls |-> calls, results |-> <<>>]

ToolMessage(results) == [role |-> "tool", calls |-> <<>>, results |-> results]

Turns(conv) == Cardinality({i \in DOMAIN conv : conv[i].role = "assistant"})

(* Trace.tool_calls.                                                       *)
Calls(conv) == FlattenSeq([i \in DOMAIN conv |-> conv[i].calls])

-----------------------------------------------------------------------------
(* The fields of a request as _reduce_message lists them.                  *)

(* canonical_json: the keys of an object in an order of their own, however *)
(* it was written.                                                         *)
SortedKeys(dict) == SetToSeq(DOMAIN dict)

Enclosed(key, value, members) ==
  IF IsDict(value) THEN <<<<key, "{">>>> \o members \o <<<<key, "}">>>>
                   ELSE <<<<key, value.atom>>>>

(* The fields of what an object holds, one key after the other.            *)
Members[value \in Values] ==
  IF ~IsDict(value) THEN <<>>
  ELSE LET keys == SortedKeys(value.dict)
       IN  FlattenSeq([k \in DOMAIN keys |->
             Enclosed(keys[k], value.dict[keys[k]], Members[value.dict[keys[k]]])])

ValueFields(key, value) == Enclosed(key, value, Members[value])

CallFields(call) ==
  <<<<"id", call.id>>, <<"name", call.name>>>>
    \o ValueFields("arguments", call.args)
    \o <<<<"malformed_arguments", call.malformed>>>>

(* Faulty: what the tool said is not hashed.                               *)
ResultFieldsBare(result) == <<<<"call_id", result.id>>, <<"is_error", result.isError>>>>

ResultFields(result) ==
  <<<<"call_id", result.id>>>>
    \o ValueFields("content", result.content)
    \o <<<<"is_error", result.isError>>>>

MessageFields(msg) ==
  <<<<"role", msg.role>>>>
    \o FlattenSeq([i \in DOMAIN msg.calls |-> CallFields(msg.calls[i])])
    \o FlattenSeq([i \in DOMAIN msg.results |-> ResultFields(msg.results[i])])

Fields(conv) == FlattenSeq([i \in DOMAIN conv |-> MessageFields(conv[i])])

Key(conv) == normalise_call_ids(Fields(conv))

-----------------------------------------------------------------------------
(* The wire.  A payload is a sequence of [role, calls, results]; what an   *)
(* adapter puts in a result is [id, name, content, isError].               *)

Block(result, name) ==
  [id |-> result.id, name |-> name, content |-> result.content, isError |-> result.isError]

(* openai: each result is a message of its own, and names no tool.         *)
openai_to_wire(conv) ==
  FlattenSeq([i \in DOMAIN conv |->
    IF conv[i].role = "tool"
      THEN [j \in DOMAIN conv[i].results |->
              [role |-> "tool", calls |-> <<>>,
               results |-> <<Block(conv[i].results[j], "none")>>]]
      ELSE <<conv[i]>>])

(* anthropic: one user message with a block for each result.               *)
anthropic_to_wire(conv) ==
  [i \in DOMAIN conv |->
    IF conv[i].role = "tool"
      THEN [role |-> "user", calls |-> <<>>,
            results |-> [j \in DOMAIN conv[i].results |-> Block(conv[i].results[j], "none")]]
      ELSE conv[i]]

(* Faulty: the first call with an id wins, of the first assistant turn.     *)
name_by_id_first(conv, id) ==
  LET of == {k \in DOMAIN conv[2].calls : conv[2].calls[k].id = id}
  IN  IF of = {} THEN "none" ELSE conv[2].calls[Min(of)].name

(* gemini finds the name of a result in a map from ids to names, where the *)
(* last call with an id wins.                                              *)
name_by_id(conv, id) ==
  LET of == {k \in DOMAIN Calls(conv) : Calls(conv)[k].id = id}
  IN  IF of = {} THEN "none" ELSE Calls(conv)[Max(of)].name

gemini_to_wire(conv) ==
  [i \in DOMAIN conv |->
    IF conv[i].role = "tool"
      THEN [role |-> "user", calls |-> <<>>,
            results |-> [j \in DOMAIN conv[i].results |->
                           Block(conv[i].results[j],
                                 name_by_id(conv, conv[i].results[j].id))]]
      ELSE IF conv[i].role = "assistant" THEN [conv[i] EXCEPT !.role = "model"]
      ELSE conv[i]]

to_wire(conv) ==
  CASE provider = "openai"    -> openai_to_wire(conv)
    [] provider = "anthropic" -> anthropic_to_wire(conv)
    [] provider = "gemini"    -> gemini_to_wire(conv)

(* The calls of an answer, in its order, with ids that the provider minted *)
(* from the given one on.  openai's arguments are text: what does not      *)
(* parse is kept aside, and the arguments are empty.                       *)
openai_from_wire(answer, first) ==
  [i \in DOMAIN answer |->
     [id |-> CallIds[first + i], name |-> answer[i].name,
      args |-> IF answer[i].malformed = "none" THEN answer[i].args ELSE NoArguments,
      malformed |-> answer[i].malformed]]

(* anthropic sends objects, and text between the calls.                    *)
anthropic_from_wire(answer, first) ==
  [i \in DOMAIN answer |->
     [id |-> CallIds[first + i], name |-> answer[i].name, args |-> answer[i].args,
      malformed |-> "none"]]

(* gemini as well; that there are calls makes the stop reason tool_use.    *)
gemini_from_wire(answer, first) == anthropic_from_wire(answer, first)

from_wire(answer, first) ==
  CASE provider = "openai"    -> openai_from_wire(answer, first)
    [] provider = "anthropic" -> anthropic_from_wire(answer, first)
    [] provider = "gemini"    -> gemini_from_wire(answer, first)

-----------------------------------------------------------------------------

Init ==
  /\ provider \in Providers
  /\ mocks \in Mocks
  /\ mode = "idle"
  /\ messages = <<>>
  /\ store = <<>>
  /\ minted = 0
  /\ runs = 0
  /\ asked = <<>>

(* The mocks in the suite file are edited between two runs.                *)
Edit ==
  /\ mode = "idle" /\ runs > 0 /\ runs < MaxRuns
  /\ mocks' \in Mocks \ {mocks}
  /\ UNCHANGED <<provider, mode, messages, store, minted, runs, asked>>

Start(m) ==
  /\ mode = "idle" /\ runs < MaxRuns
  /\ mode' = m
  /\ messages' = <<User>>
  /\ runs' = runs + 1
  /\ UNCHANGED <<provider, mocks, store, minted, asked>>

Result(call) ==
  [id |-> call.id, content |-> mocks[call.name].content,
   isError |-> mocks[call.name].isError]

(* The loop goes on with the answer: a final one or the last turn ends it. *)
Continue(calls) ==
  /\ messages' = messages \o <<AssistantOf(calls)>>
       \o (IF calls = <<>> THEN <<>>
           ELSE <<ToolMessage([i \in DOMAIN calls |-> Result(calls[i])])>>)
  /\ mode' = IF calls = <<>> \/ Turns(messages) + 1 = TurnLimit THEN "idle" ELSE mode

Hit ==
  /\ mode \in {"auto", "replay"}
  /\ Key(messages) \in DOMAIN store
  /\ Continue(store[Key(messages)])
  /\ UNCHANGED <<provider, mocks, store, minted, runs, asked>>

(* A cassette miss ends the run.                                           *)
Miss ==
  /\ mode = "replay"
  /\ Key(messages) \notin DOMAIN store
  /\ mode' = "idle"
  /\ UNCHANGED <<provider, mocks, messages, store, minted, runs, asked>>

(* A cassette that was there is written over.                              *)
Put(table, key, value) ==
  [k \in DOMAIN table \cup {key} |-> IF k = key THEN value ELSE table[k]]

(* The provider answers what the adapter sent it, and the gateway stores   *)
(* the answer under the key of the request.                                *)
AskLive(answer) ==
  /\ \/ mode = "record"
     \/ mode = "auto" /\ Key(messages) \notin DOMAIN store
  /\ minted + Len(answer) <= Len(CallIds)
  /\ LET calls == from_wire(answer, minted) IN
       /\ store' = Put(store, Key(messages), calls)
       /\ Continue(calls)
  /\ asked' = Put(asked, Key(messages), messages)
  /\ minted' = minted + Len(answer)
  /\ UNCHANGED <<provider, mocks, runs>>

(* The run is interrupted, or its provider goes away.                      *)
Interrupt ==
  /\ mode # "idle"
  /\ mode' = "idle"
  /\ UNCHANGED <<provider, mocks, messages, store, minted, runs, asked>>

Next ==
  \/ Edit
  \/ \E m \in {"auto", "record", "replay"} : Start(m)
  \/ Hit \/ Miss \/ Interrupt
  \/ \E a \in Answers : AskLive(a)

Spec == Init /\ [][Next]_vars

-----------------------------------------------------------------------------

(* A conversation as the provider reads it: which id a call was given does *)
(* not matter, only which results answer it.                               *)
Reading(conv) ==
  [i \in DOMAIN conv |->
     [role    |-> conv[i].role,
      calls   |-> [j \in DOMAIN conv[i].calls |->
                     [conv[i].calls[j] EXCEPT !.id = "any"]],
      results |-> [j \in DOMAIN conv[i].results |->
                     [conv[i].results[j] EXCEPT
                        !.id = {k \in DOMAIN Calls(conv) : Calls(conv)[k].id = @}]]]]

Same(conv, other) == Reading(conv) = Reading(other)

(* "Change any of it and the fingerprint changes" (docs/cassettes.md): an  *)
(* answer served from a cassette was given to this very conversation, up   *)
(* to the ids its provider minted; an edited mock is never answered by     *)
(* what the model said to the old result.                                  *)
ServedForThisConversation ==
  mode \in {"auto", "replay"} /\ Key(messages) \in DOMAIN store
    => Same(messages, asked[Key(messages)])

(* The ids do not matter: once a conversation was answered, the same one   *)
(* is served, although other ids were minted for it when it was recorded   *)
(* again, in part or after an interruption.                                *)
RecordedIsFound ==
  mode \in {"auto", "replay"} =>
    \A key \in DOMAIN asked :
      Same(messages, asked[key]) => Key(messages) \in DOMAIN store

(* What the provider is sent answers each of its calls once, in the order  *)
(* of the calls, under its id and, where the wire names tools, its name.   *)
WireAnswersEveryCall ==
  mode # "idle" =>
  LET wire == to_wire(messages)
      sent == FlattenSeq([i \in DOMAIN wire |-> wire[i].calls])
      answered == FlattenSeq([i \in DOMAIN wire |-> wire[i].results])
      due == IF messages # <<>> /\ Last(messages).role = "assistant"
               THEN Len(sent) - Len(Last(messages).calls) ELSE Len(sent)
  IN  /\ Len(answered) = due
      /\ \A i \in 1 .. due :
           /\ answered[i].id = sent[i].id
           /\ provider = "gemini" => answered[i].name = sent[i].name
           /\ answered[i].content = mocks[sent[i].name].content

Overlay[args \in Objects] ==
  [when \in Objects |->
     [dict |-> [key \in DOMAIN args.dict \cup DOMAIN when.dict |->
        IF key \notin DOMAIN when.dict THEN args.dict[key]
        ELSE IF key \in DOMAIN args.dict /\ IsDict(args.dict[key]) /\ IsDict(when.dict[key])
          THEN Overlay[args.dict[key]][when.dict[key]]
        ELSE when.dict[key]]]]

Names(conv) == [i \in DOMAIN Calls(conv) |-> Calls(conv)[i].name]

Embeds(order, names) ==
  \E f \in [DOMAIN order -> DOMAIN names] :
    \A i, j \in DOMAIN order :
      names[f[i]] = order[i] /\ (i < j => f[i] < f[j])

(* The assertions mean what they are documented to: call_order holds       *)
(* exactly when the names are a subsequence of the calls, and arguments    *)
(* match an object exactly when writing it over them, at every depth,      *)
(* changes nothing; `when` and tool_args share that.                       *)
AssertionsMeanWhatTheySay ==
  /\ \A order \in SeqOf(Tools, 3) :
       CallOrder(Calls(messages), order) <=> Embeds(order, Names(messages))
  /\ \A call \in ToSet(Calls(messages)), when \in Matches :
       matches_subset[when][call.args] <=> Overlay[call.args][when] = call.args

(* What a trace has shown stays shown as it grows: a forbidden call, a     *)
(* required one, an order, a count that was reached and the arguments of   *)
(* the nth call are not undone by later turns, so that a trace cut short   *)
(* can only fail to show something.                                        *)
VerdictsSettle ==
  [][IsPrefix(messages, messages') =>
       LET before == Calls(messages)
           after == Calls(messages')
       IN  /\ \A t \in Tools :
                /\ CallsTool(before, t) => CallsTool(after, t)
                /\ ~NotCallsTool(before, t) => ~NotCallsTool(after, t)
                /\ \A n \in 0 .. 2 :
                     /\ MinToolCalls(before, t, n) => MinToolCalls(after, t, n)
                     /\ MinToolCalls(before, t, n + 1) => ~CallsToolExactly(after, t, n)
                /\ \A n \in 0 .. 1, when \in Matches :
                     n < Occurrences(before, t) =>
                       (ToolArgs(before, t, when, n) <=> ToolArgs(after, t, when, n))
           /\ \A order \in SeqOf(Tools, 2) : CallOrder(before, order) => CallOrder(after, order)
           /\ ~MaxTurns(Turns(messages), 1) => ~MaxTurns(Turns(messages'), 1)]_vars

============================================================================
