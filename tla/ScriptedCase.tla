---------------------------- MODULE ScriptedCase ----------------------------
(***************************************************************************)
(* A case of provider `fake` (adapters/driven/providers/fake.py): the      *)
(* agent loop over a FakeGateway that plays the case's script.  The plan   *)
(* holds one gateway per case (composition.py, _plan) and every repetition *)
(* of the case is given that gateway (application/scheduler.py,            *)
(* _process_case), so its position in the script is shared.                *)
(*                                                                         *)
(* The gateway answers without suspending: a run that has the event loop   *)
(* keeps it until it ends or awaits passthrough code.  The running number  *)
(* in the ids of the calls is left out.                                    *)
(***************************************************************************)
EXTENDS AgentLoop

CONSTANTS
  Script,  \* the entries of the script: a response, or Fails
  Fails    \* a `fails` step

VARIABLE callsMade  \* the gateway's _calls_made

scriptedVars == <<vars, callsMade>>

-----------------------------------------------------------------------------

ScriptedInit == Init /\ callsMade = 0

(* No other run is between two of its awaits.                              *)
HasTheLoop(r) == \A q \in Runs \ {r} : phase[q] \notin {"asking", "resolving"}

Entry == Script[callsMade + 1]

(* The next entry of the script answers, or is a failure.                  *)
Play(r) ==
  /\ callsMade < Len(Script)
  /\ IF Entry = Fails THEN ProviderRaises(r)
                      ELSE FinalAnswer(r, Entry) \/ ToolUse(r, Entry)
  /\ callsMade' = callsMade + 1

(* ScriptExhausted: one more request than the script has entries.          *)
Exhaust(r) ==
  /\ callsMade >= Len(Script)
  /\ ProviderRaises(r)
  /\ UNCHANGED callsMade

ScriptedStep(r) ==
  /\ HasTheLoop(r)
  /\ \/ Play(r)
     \/ Exhaust(r)
     \/ (Begin(r) \/ Resolve(r)) /\ UNCHANGED callsMade

ScriptedNext == \E r \in Runs : ScriptedStep(r)

ScriptedSpec ==
  /\ ScriptedInit /\ [][ScriptedNext]_scriptedVars
  /\ \A r \in Runs : WF_scriptedVars(ScriptedStep(r))

-----------------------------------------------------------------------------

(* A fake case "carries its own freshly-scripted FakeGateway - stateful,   *)
(* so it must not be shared" (application/scheduler.py, PlannedCase): the  *)
(* turns of every repetition play the script from its first entry, and the *)
(* provider fails only where the script does or is over.                   *)
ScriptStartsFresh ==
  \A r \in Runs :
    /\ \A i \in DOMAIN turns[r] :
         /\ i <= Len(Script)
         /\ turns[r][i].stop = Script[i].stop
         /\ turns[r][i].calls = Script[i].calls
    /\ termination[r] = "provider_error" =>
         Len(turns[r]) = Len(Script) \/ Script[Len(turns[r]) + 1] = Fails

============================================================================
