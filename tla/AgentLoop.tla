----------------------------- MODULE AgentLoop -----------------------------
(***************************************************************************)
(* The agent loop of one case (application/loop.py, run_case) with the     *)
(* mock resolver it calls (domain/mocking/resolver.py) and the passthrough *)
(* invoker it awaits (adapters/driven/mocking/passthrough.py).  Several    *)
(* runs are in flight at once, repetitions of a case or cases of a suite,  *)
(* each with a fresh resolver over the same mock rules; they interleave    *)
(* where a run awaits its provider or the invoker.                         *)
(*                                                                         *)
(* A tool call is [id, name, arg]; its arguments are one of a few classes, *)
(* or Malformed when they could not be parsed. A rule is [when, kind,      *)
(* steps]: a guard (the set of argument classes that contain it, or        *)
(* NoGuard for a catch-all) and an outcome; a plain `return` or `error` is *)
(* a sequence of one step, which repeats. A step or a tool result says     *)
(* what it delivers and whether it is an error.                            *)
(***************************************************************************)
EXTENDS Integers, Sequences, FiniteSets

CONSTANTS
  Runs,        \* the runs in flight
  MaxTurns,    \* case.max_turns, any integer
  OnUnmocked,  \* OnUnmocked[r]: case.on_unmocked
  Mocks,       \* Mocks[name]: the sequence of rules of a mocked tool
  HasInvoker,  \* HasInvoker[r]: whether run_case was given a ToolInvoker
  Responses,   \* what the provider may answer: [stop, calls]
  NoGuard,     \* the absent guard
  Malformed,   \* arguments that are not an object
  None

StopReasons ==
  {"end_turn", "tool_use", "max_tokens", "stop_sequence", "refusal", "error"}

Terminations ==
  {"end_turn", "max_tokens", "refusal", "provider_error", "unmocked_tool",
   "max_turns_exceeded", "none"}

ASSUME AgentLoopAssumption ==
  /\ MaxTurns \in Int
  /\ OnUnmocked \in [Runs -> {"error", "null", "passthrough"}]
  /\ HasInvoker \in [Runs -> BOOLEAN]
  /\ \A resp \in Responses :
       /\ resp.stop \in StopReasons
       /\ resp.calls \in Seq({resp.calls[i] : i \in DOMAIN resp.calls})
  /\ \A name \in DOMAIN Mocks :
       LET rules == Mocks[name] IN
         /\ rules \in Seq({rules[i] : i \in DOMAIN rules})
         /\ \A i \in DOMAIN rules :
              /\ rules[i].kind \in {"steps", "passthrough"}
              /\ rules[i].steps \in Seq({rules[i].steps[j] : j \in DOMAIN rules[i].steps})
  /\ None \notin Terminations

VARIABLES
  phase,        \* where each run is suspended
  messages,     \* the loop's own list
  turns,        \* the turns recorded so far
  response,     \* the response whose calls are being resolved
  results,      \* their results so far
  used,         \* the resolver's _sequence_pos
  termination   \* of the trace; "none" when run_case raised

vars == <<phase, messages, turns, response, results, used, termination>>

-----------------------------------------------------------------------------
(* The mock resolver.                                                      *)

Rules == UNION {{<<name, i>> : i \in DOMAIN Mocks[name]} : name \in DOMAIN Mocks}

RuleAt(k) == Mocks[k[1]][k[2]]

(* A call with malformed arguments only matches a catch-all.               *)
Matches(rule, call) ==
  rule.when = NoGuard \/ (call.arg # Malformed /\ call.arg \in rule.when)

Matching(call) ==
  {k \in Rules : k[1] = call.name /\ Matches(RuleAt(k), call)}

(* The first matching rule of the tool, or None: UNMOCKED.                 *)
RuleFor(call) ==
  IF Matching(call) = {} THEN None
  ELSE CHOOSE k \in Matching(call) : \A j \in Matching(call) : k[2] <= j[2]

(* The step of a sequence consumed after n earlier ones: the last repeats. *)
StepNumber(n, len) == IF n + 1 < len THEN n + 1 ELSE len

ToResult(call, step) == [id |-> call.id, value |-> step.value, isError |-> step.isError]

EmptyResult(call) == [id |-> call.id, value |-> "empty", isError |-> FALSE]

-----------------------------------------------------------------------------

User == [role |-> "user"]

Assistant(calls) == [role |-> "assistant", calls |-> calls]

Tool(rs) == [role |-> "tool", results |-> rs]

Init ==
  /\ phase = [r \in Runs |-> "new"]
  /\ messages = [r \in Runs |-> <<User>>]
  /\ turns = [r \in Runs |-> <<>>]
  /\ response = [r \in Runs |-> None]
  /\ results = [r \in Runs |-> <<>>]
  /\ used = [r \in Runs |-> [k \in Rules |-> 0]]
  /\ termination = [r \in Runs |-> None]

End(r, t) ==
  /\ phase' = [phase EXCEPT ![r] = "ended"]
  /\ termination' = [termination EXCEPT ![r] = t]

(* Faulty: lets one turn too many start.                                   *)
LoopHeadLate(r, n) ==
  IF n > MaxTurns
  THEN End(r, "max_turns_exceeded")
  ELSE phase' = [phase EXCEPT ![r] = "asking"] /\ UNCHANGED termination

(* The head of `while True` after n turns; turn_index is n there.          *)
LoopHead(r, n) ==
  IF n >= MaxTurns
  THEN End(r, "max_turns_exceeded")
  ELSE phase' = [phase EXCEPT ![r] = "asking"] /\ UNCHANGED termination

(* The task runs up to its first await, with the request built from a copy *)
(* of the messages.                                                        *)
Begin(r) ==
  /\ phase[r] = "new"
  /\ LoopHead(r, 0)
  /\ UNCHANGED <<messages, turns, response, results, used>>

(* A recorded Turn; request_messages is a copy of the messages right then. *)
Turn(r, resp, rs) ==
  [sent |-> messages[r], stop |-> resp.stop, calls |-> resp.calls, results |-> rs]

(* How a response that asks for no tools ends the trace.                   *)
Termination(stop) ==
  CASE stop = "max_tokens" -> "max_tokens"
    [] stop = "refusal"    -> "refusal"
    [] stop = "error"      -> "provider_error"
    [] OTHER               -> "end_turn"

(* The provider raises: no turn is recorded for the failed attempt.        *)
ProviderRaises(r) ==
  /\ phase[r] = "asking"
  /\ End(r, "provider_error")
  /\ UNCHANGED <<messages, turns, response, results, used>>

(* The provider answers without asking for tools.                          *)
FinalAnswer(r, resp) ==
  /\ phase[r] = "asking"
  /\ resp.stop # "tool_use"
  /\ turns' = [turns EXCEPT ![r] = Append(@, Turn(r, resp, <<>>))]
  /\ End(r, Termination(resp.stop))
  /\ UNCHANGED <<messages, response, results, used>>

(* The provider asks for tools; its calls are resolved one by one.         *)
ToolUse(r, resp) ==
  /\ phase[r] = "asking"
  /\ resp.stop = "tool_use"
  /\ phase' = [phase EXCEPT ![r] = "resolving"]
  /\ response' = [response EXCEPT ![r] = resp]
  /\ results' = [results EXCEPT ![r] = <<>>]
  /\ UNCHANGED <<messages, turns, used, termination>>

-----------------------------------------------------------------------------
(* One iteration of `for call in response.tool_calls`.                     *)

NextCall(r) == response[r].calls[Len(results[r]) + 1]

CallLeft(r) == phase[r] = "resolving" /\ Len(results[r]) < Len(response[r].calls)

Deliver(r, result) ==
  /\ results' = [results EXCEPT ![r] = Append(@, result)]
  /\ UNCHANGED <<messages, turns, response, termination>>

(* Faulty: the repetitions share one resolver.                             *)
ResolveMockedShared(r) ==
  /\ CallLeft(r)
  /\ LET k == RuleFor(NextCall(r)) IN
       /\ k # None
       /\ RuleAt(k).kind = "steps"
       /\ Len(RuleAt(k).steps) > 0
       /\ Deliver(r, ToResult(NextCall(r),
                       RuleAt(k).steps[StepNumber(used[r][k], Len(RuleAt(k).steps))]))
       /\ used' = [q \in Runs |-> [used[q] EXCEPT ![k] = @ + 1]]
  /\ UNCHANGED phase

(* A rule that returns, fails, or plays the next step of its sequence.     *)
ResolveMocked(r) ==
  /\ CallLeft(r)
  /\ LET k == RuleFor(NextCall(r)) IN
       /\ k # None
       /\ RuleAt(k).kind = "steps"
       /\ Len(RuleAt(k).steps) > 0
       /\ Deliver(r, ToResult(NextCall(r),
                       RuleAt(k).steps[StepNumber(used[r][k], Len(RuleAt(k).steps))]))
       /\ used' = [used EXCEPT ![r][k] = @ + 1]
  /\ UNCHANGED phase

(* A passthrough rule: await the invoker.                                  *)
ResolvePassthrough(r) ==
  /\ CallLeft(r)
  /\ HasInvoker[r]
  /\ LET k == RuleFor(NextCall(r)) IN k # None /\ RuleAt(k).kind = "passthrough"
  /\ phase' = [phase EXCEPT ![r] = "invoking"]
  /\ UNCHANGED <<messages, turns, response, results, used, termination>>

(* The real callable returned, or it could not be resolved, raised or      *)
(* timed out, which is an error result.                                    *)
Invoked(r, isError) ==
  /\ phase[r] = "invoking"
  /\ Deliver(r, [id |-> NextCall(r).id, value |-> "impl", isError |-> isError])
  /\ phase' = [phase EXCEPT ![r] = "resolving"]
  /\ UNCHANGED used

(* What raises out of run_case: a passthrough without an invoker, and a    *)
(* sequence with no step to play.  The case has no trace.                  *)
ResolveRaises(r) ==
  /\ CallLeft(r)
  /\ LET k == RuleFor(NextCall(r)) IN
       /\ k # None
       /\ \/ RuleAt(k).kind = "passthrough" /\ ~HasInvoker[r]
          \/ RuleAt(k).kind = "steps" /\ RuleAt(k).steps = <<>>
  /\ End(r, "none")
  /\ UNCHANGED <<messages, turns, response, results, used>>

(* No rule, any other on_unmocked (`passthrough` is reserved and behaves   *)
(* like `null`): an empty result.                                          *)
ResolveToNull(r) ==
  /\ CallLeft(r)
  /\ RuleFor(NextCall(r)) = None
  /\ OnUnmocked[r] # "error"
  /\ Deliver(r, EmptyResult(NextCall(r)))
  /\ UNCHANGED <<phase, used>>

(* Faulty: the case goes on with the results it has.                       *)
CarryOnUnmocked(r) ==
  /\ CallLeft(r)
  /\ RuleFor(NextCall(r)) = None
  /\ OnUnmocked[r] = "error"
  /\ turns' = [turns EXCEPT ![r] = Append(@, Turn(r, response[r], results[r]))]
  /\ messages' = [messages EXCEPT ![r] =
                    @ \o <<Assistant(response[r].calls), Tool(results[r])>>]
  /\ LoopHead(r, Len(turns'[r]))
  /\ UNCHANGED <<response, results, used>>

(* No rule, on_unmocked: error -- the turn keeps the results so far and    *)
(* the trace ends.                                                         *)
StopUnmocked(r) ==
  /\ CallLeft(r)
  /\ RuleFor(NextCall(r)) = None
  /\ OnUnmocked[r] = "error"
  /\ turns' = [turns EXCEPT ![r] = Append(@, Turn(r, response[r], results[r]))]
  /\ End(r, "unmocked_tool")
  /\ UNCHANGED <<messages, response, results, used>>

(* Faulty: the request of the turn is taken after the messages have grown. *)
CloseTurnAliased(r) ==
  /\ phase[r] = "resolving"
  /\ Len(results[r]) = Len(response[r].calls)
  /\ messages' = [messages EXCEPT ![r] =
                    @ \o <<Assistant(response[r].calls), Tool(results[r])>>]
  /\ turns' = [turns EXCEPT ![r] =
                 Append(@, [Turn(r, response[r], results[r])
                              EXCEPT !.sent = messages'[r]])]
  /\ LoopHead(r, Len(turns'[r]))
  /\ UNCHANGED <<response, results, used>>

(* Faulty: goes on only when there is a result to send.                    *)
CloseTurnWithResults(r) ==
  /\ phase[r] = "resolving"
  /\ results[r] # <<>>
  /\ Len(results[r]) = Len(response[r].calls)
  /\ turns' = [turns EXCEPT ![r] = Append(@, Turn(r, response[r], results[r]))]
  /\ messages' = [messages EXCEPT ![r] =
                    @ \o <<Assistant(response[r].calls), Tool(results[r])>>]
  /\ LoopHead(r, Len(turns'[r]))
  /\ UNCHANGED <<response, results, used>>

(* Every call has its result: record the turn, extend the conversation and *)
(* go back to the head of the loop.                                        *)
CloseTurn(r) ==
  /\ phase[r] = "resolving"
  /\ Len(results[r]) = Len(response[r].calls)
  /\ turns' = [turns EXCEPT ![r] = Append(@, Turn(r, response[r], results[r]))]
  /\ messages' = [messages EXCEPT ![r] =
                    @ \o <<Assistant(response[r].calls), Tool(results[r])>>]
  /\ LoopHead(r, Len(turns'[r]))
  /\ UNCHANGED <<response, results, used>>

Resolve(r) ==
  \/ ResolveMocked(r)
  \/ ResolvePassthrough(r)
  \/ \E isError \in BOOLEAN : Invoked(r, isError)
  \/ ResolveRaises(r)
  \/ ResolveToNull(r)
  \/ StopUnmocked(r)
  \/ CloseTurn(r)

(* A live provider answers anything, or fails.                             *)
Complete(r) ==
  \/ ProviderRaises(r)
  \/ \E resp \in Responses : FinalAnswer(r, resp) \/ ToolUse(r, resp)

Step(r) == Begin(r) \/ Complete(r) \/ Resolve(r)

Next == \E r \in Runs : Step(r)

(* The event loop runs every ready task; the provider's and the invoker's  *)
(* calls end (both have timeouts).                                         *)
Spec == Init /\ [][Next]_vars /\ \A r \in Runs : WF_vars(Step(r))

-----------------------------------------------------------------------------

CallIds(calls) == [i \in DOMAIN calls |-> calls[i].id]

(* The conversation a provider is sent never leaves a tool call without    *)
(* its answer: an assistant message with calls is followed by one tool     *)
(* message that answers each of them, in order, whatever was unmocked,     *)
(* raised or timed out in between (a provider rejects anything else).      *)
EveryCallAnswered ==
  \A r \in Runs : \A i \in DOMAIN messages[r] :
    /\ messages[r][i].role = "assistant" =>
         /\ i + 1 \in DOMAIN messages[r]
         /\ messages[r][i + 1].role = "tool"
         /\ CallIds(messages[r][i + 1].results) = CallIds(messages[r][i].calls)
    /\ messages[r][i].role = "tool" =>
         i - 1 \in DOMAIN messages[r] /\ messages[r][i - 1].role = "assistant"

(* The trace is a transcript: what a turn records as sent is the           *)
(* conversation as it stood at that request, so each turn was sent what    *)
(* the turn before was sent plus that turn's calls and results.            *)
TraceIsTranscript ==
  \A r \in Runs : \A i \in DOMAIN turns[r] :
    turns[r][i].sent =
      IF i = 1 THEN <<User>>
      ELSE turns[r][i - 1].sent \o <<Assistant(turns[r][i - 1].calls),
                                     Tool(turns[r][i - 1].results)>>

(* The answered calls of a run, as <<turn, call>>.                         *)
Answered(r) ==
  UNION {{<<i, c>> : c \in DOMAIN turns[r][i].results} : i \in DOMAIN turns[r]}

CallAt(r, p) == turns[r][p[1]].calls[p[2]]

(* The earlier calls of the run that the same rule answered.               *)
SameRuleBefore(r, p) ==
  {q \in Answered(r) : /\ q[1] < p[1] \/ (q[1] = p[1] /\ q[2] < p[2])
                       /\ RuleFor(CallAt(r, q)) = RuleFor(CallAt(r, p))}

(* What a sequence promises, counted on the trace alone: the n-th call of  *)
(* a run that a rule answers gets the rule's n-th step, the last one again *)
(* when the steps are used up, whatever the other repetitions did with the *)
(* same rule meanwhile.                                                    *)
SequencesPlayInOrder ==
  \A r \in Runs : \A p \in Answered(r) :
    LET k == RuleFor(CallAt(r, p))
        n == Cardinality(SameRuleBefore(r, p)) + 1
        steps == RuleAt(k).steps
    IN  k # None /\ RuleAt(k).kind = "steps" =>
          turns[r][p[1]].results[p[2]]
            = ToResult(CallAt(r, p), IF n \in DOMAIN steps THEN steps[n]
                                                           ELSE steps[Len(steps)])

(* Why a trace ended can be read off its turns: only the last turn may     *)
(* lack results or tool calls, an unmocked call is the first one without a *)
(* result, and a run never asks the provider more than max_turns times.    *)
TerminationExplained ==
  \A r \in Runs :
    LET n == Len(turns[r])
        full(t) == t.stop = "tool_use" /\ Len(t.results) = Len(t.calls)
        short(t) == t.stop = "tool_use" /\ Len(t.results) < Len(t.calls)
        asked == IF phase[r] \in {"asking", "resolving", "invoking"} THEN n + 1 ELSE n
    IN  /\ asked = 0 \/ asked <= MaxTurns
        /\ \A i \in 1 .. n - 1 : full(turns[r][i])
        /\ termination[r] = "max_turns_exceeded" =>
             /\ n = 0 \/ full(turns[r][n])
             /\ n >= MaxTurns
        /\ termination[r] \in {"end_turn", "max_tokens", "refusal"} =>
             n > 0 /\ turns[r][n].stop # "tool_use"
        /\ termination[r] = "unmocked_tool" <=> n > 0 /\ short(turns[r][n])
        /\ termination[r] = "unmocked_tool" =>
             RuleFor(turns[r][n].calls[Len(turns[r][n].results) + 1]) = None

(* A run ends: a model that always asks for more tools is stopped.         *)
RunEnds == \A r \in Runs : <>(phase[r] = "ended")

============================================================================
