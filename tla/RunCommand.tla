---------------------------- MODULE RunCommand -----------------------------
(***************************************************************************)
(* What `dryfire run`, `compare` and `trace` do before and around the      *)
(* scheduler (composition.py): refuse, plan, skip the cases whose provider *)
(* has no key, choose the shared gateway and wrap it in cassettes, run the *)
(* repetitions, and turn the results into an exit code; compare does this  *)
(* once per label, one column after the other.  Commands follow each other *)
(* over one cassette directory, each in the environment it finds.          *)
(*                                                                         *)
(* A repetition makes one request here, determined by the case and the     *)
(* label (the overriding model or prompt), and what a cassette holds of    *)
(* the answer is the outcome it leads to.  Workers, turns, retries and     *)
(* files are in Scheduler, AgentLoop and Cassettes.                        *)
(***************************************************************************)
EXTENDS Aggregation, FiniteSetsExt, SequencesExt

CONSTANTS
  Commands,      \* [kind, labels, mode, keys, selected, broken, yes]; run and
                 \* trace have one label, which stands for --model or its absence
  Provider,      \* Provider[c]: the provider of case c, or "fake"
  Known,         \* the providers that resolve_gateway knows
  Passthrough,   \* the cases that use passthrough mocks
  Unscripted,    \* the fake cases without a script
  Scripted,      \* Scripted[c]: what the script of fake case c leads to
  Unreadable,    \* the labels that name a prompt file that cannot be read
  LiveOutcomes,  \* what a repetition on a live provider may lead to
  Threshold,     \* COMPARE_CONFIRM_THRESHOLD
  MaxCommands    \* bound on the commands of a behaviour

Real == {c \in Cases : Provider[c] # "fake"}

ASSUME RunCommandAssumption ==
  /\ Passthrough \subseteq Cases
  /\ Unscripted \subseteq Cases \ Real
  /\ "fake" \notin Known
  /\ LiveOutcomes \subseteq Outcomes
  /\ \A c \in Cases \ Real : Scripted[c] \in Outcomes
  /\ None \notin 0 .. 3
  /\ Threshold \in Nat
  /\ \A cmd \in Commands :
       /\ cmd.kind \in {"run", "compare", "trace"}
       /\ cmd.labels \in Seq(ToSet(cmd.labels)) \ {<<>>}
       /\ cmd.kind # "compare" => Len(cmd.labels) = 1 /\ cmd.labels[1] \notin Unreadable
       /\ cmd.kind = "compare" => cmd.selected = Cases
       /\ cmd.kind = "trace" => Cardinality(cmd.selected) = 1 /\ cmd.mode = "off"
       /\ cmd.selected \subseteq Cases

Modes == {"auto", "record", "replay", "off"}

Labels == UNION {ToSet(cmd.labels) : cmd \in Commands}

(* A CassetteMiss or a provider that is down ends the repetition.          *)
Missed == {o \in Outcomes : o.term = "provider_error"}

Raised == {o \in Outcomes : o.term = "none"}

VARIABLES
  cmd,       \* the command with its arguments and environment
  number,    \* how many commands there have been
  phase,     \* "start", "wiring", "running" or "ended"
  kept,      \* the runnable cases of the current column
  default,   \* the provider of its shared gateway, or None
  slots,     \* the outcomes of its repetitions
  columns,   \* what the finished columns show: [code, ran, passed]
  exit,      \* the exit code, or None
  store,     \* the cassettes: <<provider, label, unit>> to an outcome or None
  asked,     \* history: the live calls of the command, <<provider, label, unit>>
  recorded   \* history: what was recorded last of a label and a unit

wired == <<kept, default, slots>>
cassettes == <<store, asked, recorded>>
vars == <<cmd, number, phase, wired, columns, exit, cassettes>>

label == cmd.labels[Len(columns) + 1]

Empty == [u \in Units |-> None]

Init ==
  /\ cmd \in Commands
  /\ number = 1
  /\ phase = "start"
  /\ kept = {} /\ default = None /\ slots = Empty
  /\ columns = <<>>
  /\ exit = None
  /\ store = [k \in {Provider[c] : c \in Real} \X Labels \X Units |-> None]
  /\ asked = {}
  /\ recorded = [k \in Labels \X Units |-> None]

-----------------------------------------------------------------------------
(* Before the network.                                                     *)

CaseRuns(cs) == MapThenSumSet(LAMBDA c : Repeat[c], cs)

(* _plan: trace plans every case, run and compare the selected ones.       *)
Planned == IF cmd.kind = "trace" THEN Cases ELSE cmd.selected

(* Faulty: the estimate of one column stands for the matrix.               *)
NeedsYesPerColumn ==
  /\ cmd.kind = "compare"
  /\ CaseRuns(cmd.selected) > Threshold
  /\ cmd.mode # "replay"
  /\ ~cmd.yes

(* compare asks for --yes above the threshold, unless the run is free.     *)
NeedsYes ==
  /\ cmd.kind = "compare"
  /\ Len(cmd.labels) * CaseRuns(cmd.selected) > Threshold
  /\ cmd.mode # "replay"
  /\ ~cmd.yes

(* _load: dryfire.yaml or a suite file is invalid, or no file matches.     *)
LoadFails == cmd.broken

(* A run that selects nothing ends before it looks at the cassette mode.   *)
ConfigError ==
  \/ LoadFails
  \/ Planned \cap Unscripted # {}
  \/ cmd.mode \notin Modes /\ (cmd.kind = "run" => cmd.selected # {})
  \/ NeedsYes

End(code) == exit' = code /\ phase' = "ended"

Refuse ==
  /\ phase = "start" /\ ConfigError
  /\ End(2)
  /\ UNCHANGED <<cmd, number, wired, columns, cassettes>>

NothingSelected ==
  /\ phase = "start" /\ ~ConfigError
  /\ cmd.kind = "run" /\ cmd.selected = {}
  /\ End(0)
  /\ UNCHANGED <<cmd, number, wired, columns, cassettes>>

Accept ==
  /\ phase = "start" /\ ~ConfigError
  /\ cmd.kind = "run" => cmd.selected # {}
  /\ phase' = "wiring"
  /\ UNCHANGED <<cmd, number, wired, columns, exit, cassettes>>

-----------------------------------------------------------------------------
(* Wiring a column.                                                        *)

NeedsKeys == cmd.mode # "replay"

Available(c) == c \notin Real \/ Provider[c] \in cmd.keys

(* resolve_gateway knows neither a built-in nor a custom provider, or trace *)
(* finds no key for its case.                                              *)
Unresolvable ==
  /\ NeedsKeys
  /\ \E c \in cmd.selected \cap Real :
       Provider[c] \notin Known \/ (cmd.kind = "trace" /\ ~Available(c))

CannotWire == label \in Unreadable \/ Unresolvable

(* Faulty: skipped cases choose the default gateway, too.                  *)
SharedGatewaySelected(cs) ==
  IF cmd.selected \cap Real = {} THEN None ELSE Provider[Max(cmd.selected \cap Real)]

(* The loop over the cases leaves the gateway of the last real one.        *)
SharedGateway(cs) ==
  IF cs \cap Real = {} THEN None ELSE Provider[Max(cs \cap Real)]

Kept == IF NeedsKeys THEN {c \in cmd.selected : Available(c)} ELSE cmd.selected

Wire ==
  /\ phase = "wiring" /\ ~CannotWire
  /\ cmd.kind = "run" => Kept # {}
  /\ kept' = Kept
  /\ default' = IF NeedsKeys THEN SharedGateway(Kept) ELSE None
  /\ slots' = Empty
  /\ phase' = "running"
  /\ UNCHANGED <<cmd, number, columns, exit, cassettes>>

(* A run whose every case was skipped for want of credentials.             *)
SkipAll ==
  /\ phase = "wiring" /\ ~CannotWire
  /\ cmd.kind = "run" /\ Kept = {}
  /\ End(0)
  /\ UNCHANGED <<cmd, number, wired, columns, cassettes>>

WiringFails ==
  /\ phase = "wiring" /\ CannotWire /\ cmd.kind # "compare"
  /\ End(2)
  /\ UNCHANGED <<cmd, number, wired, columns, cassettes>>

-----------------------------------------------------------------------------
(* A repetition and the gateway it is given.                               *)

(* _wrap_cases: replay wraps every real case; the recording modes leave    *)
(* out those that use passthrough mocks.                                   *)
Wrapped(c) ==
  /\ c \in Real
  /\ \/ cmd.mode = "replay"
     \/ cmd.mode \in {"auto", "record"} /\ c \notin Passthrough

(* Faulty: the cassettes of the first label serve every label.             *)
KeyOfAnyLabel(u) ==
  <<IF cmd.mode = "replay" THEN Provider[u[1]] ELSE default, cmd.labels[1], u>>

(* The fingerprint has the name of the wrapped gateway in it: in replay    *)
(* the provider of the case, else the shared gateway.                      *)
KeyOf(u) ==
  <<IF cmd.mode = "replay" THEN Provider[u[1]] ELSE default, label, u>>

(* Faulty: auto does not look for a cassette.                              *)
HitInReplay(u) == Wrapped(u[1]) /\ cmd.mode = "replay" /\ store[KeyOf(u)] # None

Hit(u) == Wrapped(u[1]) /\ cmd.mode # "record" /\ store[KeyOf(u)] # None

Land(u, o) == slots' = [slots EXCEPT ![u] = o]

Pending(u) == phase = "running" /\ u[1] \in kept /\ slots[u] = None

Play(u) ==
  /\ Pending(u) /\ u[1] \notin Real
  /\ Land(u, Scripted[u[1]])
  /\ UNCHANGED <<cmd, number, phase, kept, default, columns, exit, cassettes>>

Serve(u) ==
  /\ Pending(u) /\ Hit(u)
  /\ Land(u, store[KeyOf(u)])
  /\ UNCHANGED <<cmd, number, phase, kept, default, columns, exit, cassettes>>

Miss(u) ==
  /\ Pending(u) /\ Wrapped(u[1]) /\ ~Hit(u) /\ cmd.mode = "replay"
  /\ \E o \in Missed : Land(u, o)
  /\ UNCHANGED <<cmd, number, phase, kept, default, columns, exit, cassettes>>

(* What is asked goes to the shared gateway, and is recorded when the case *)
(* is wrapped and an answer came.                                          *)
AskLive(u, o) ==
  /\ Pending(u) /\ u[1] \in Real /\ ~Hit(u) /\ cmd.mode # "replay"
  /\ Land(u, o)
  /\ asked' = asked \cup {<<default, label, u>>}
  /\ IF Wrapped(u[1]) /\ o \notin Missed
       THEN /\ store' = [store EXCEPT ![KeyOf(u)] = o]
            /\ recorded' = [recorded EXCEPT ![<<label, u>>] = o]
       ELSE UNCHANGED <<store, recorded>>
  /\ UNCHANGED <<cmd, number, phase, kept, default, columns, exit>>

(* trace wires no invoker, so a passthrough call raises there.             *)
Ends(u) ==
  IF cmd.kind = "trace" /\ u[1] \in Passthrough THEN LiveOutcomes \cup Raised
                                                ELSE LiveOutcomes

-----------------------------------------------------------------------------
(* After a column.                                                         *)

Result(c) == Aggregate(slots, c)

(* _exit_code.                                                             *)
ExitCode ==
  IF \E c \in kept : Result(c).shown.term = "provider_error" THEN 3
  ELSE IF \E c \in kept : ~Result(c).passed THEN 1
  ELSE 0

(* Faulty: the last column decides.                                        *)
WorstIsLast(cols) == Last(cols).code

(* _compare_exit_code: the worst outcome across the columns.               *)
Worst(cols) == Max({cols[i].code : i \in DOMAIN cols})

(* A column is finished: go on with the next label or report.              *)
NextColumn(col) ==
  /\ columns' = Append(columns, col)
  /\ IF Len(columns) + 1 < Len(cmd.labels)
       THEN phase' = "wiring" /\ UNCHANGED exit
       ELSE End(Worst(Append(columns, col)))

(* column_metrics, and the exit code the column stands for.                *)
Metrics ==
  [code |-> ExitCode, ran |-> kept, passed |-> {c \in kept : Result(c).passed}]

EndColumn ==
  /\ phase = "running"
  /\ \A c \in kept : AllFilled(slots, c)
  /\ NextColumn(Metrics)
  /\ UNCHANGED <<cmd, number, wired, cassettes>>

(* Faulty: a column that raises ends the matrix.                           *)
FailColumnAborting ==
  /\ phase = "wiring" /\ CannotWire /\ cmd.kind = "compare"
  /\ columns' = Append(columns, [code |-> 3, ran |-> {}, passed |-> {}])
  /\ End(3)
  /\ UNCHANGED <<cmd, number, wired, cassettes>>

(* run_compare isolates what a column raises; the others go on.            *)
FailColumn ==
  /\ phase = "wiring" /\ CannotWire /\ cmd.kind = "compare"
  /\ NextColumn([code |-> 3, ran |-> {}, passed |-> {}])
  /\ UNCHANGED <<cmd, number, wired, cassettes>>

(* The next command, in another environment and over the same cassettes.   *)
NextCommand ==
  /\ phase = "ended" /\ number < MaxCommands
  /\ number' = number + 1
  /\ cmd' \in Commands
  /\ phase' = "start"
  /\ kept' = {} /\ default' = None /\ slots' = Empty
  /\ columns' = <<>> /\ exit' = None
  /\ asked' = {}
  /\ UNCHANGED <<store, recorded>>

Repetition == \E u \in Units : Play(u) \/ Serve(u) \/ Miss(u) \/ \E o \in Ends(u) : AskLive(u, o)

Command ==
  \/ Refuse \/ NothingSelected \/ Accept
  \/ Wire \/ SkipAll \/ WiringFails \/ FailColumn
  \/ Repetition
  \/ EndColumn

Next == Command \/ NextCommand

(* A command goes on until it ends; nobody has to start another one.       *)
Spec == Init /\ [][Next]_vars /\ WF_vars(Command)

-----------------------------------------------------------------------------

(* Nothing is spent that was not agreed to: a command that is refused and  *)
(* any command in replay mode call no provider ("config before network"),  *)
(* and without --yes the live repetitions of a matrix stay within the      *)
(* threshold (docs/compare.md, "Cost before you spend").                   *)
SpendsAsAgreed ==
  /\ exit = 2 \/ cmd.mode = "replay" => asked = {}
  /\ cmd.kind = "compare" /\ ~cmd.yes => Cardinality(asked) <= Threshold

(* A live call goes to the provider that its suite names                   *)
(* (docs/providers.md), and that provider has a key.                       *)
LiveCallsGoHome ==
  \A a \in asked : a[1] = Provider[a[3][1]] /\ a[1] \in cmd.keys

(* Whatever was recorded last under a label, by run or by compare and with *)
(* any selection, is what replay gives the same repetition.                *)
RecordedReplays ==
  cmd.mode = "replay" =>
    \A u \in Units :
      phase = "running" /\ slots[u] # None /\ u[1] \in Real
        /\ recorded[<<label, u>>] # None
      => slots[u] = recorded[<<label, u>>]

(* auto calls the provider only for what was never recorded, or cannot be: *)
(* "replay when a cassette exists, record when it doesn't".                *)
AutoAsksOnce ==
  [][cmd.mode = "auto" =>
       \A a \in asked' \ asked :
         a[3][1] \notin Passthrough => recorded[<<a[2], a[3]>>] = None]_vars

(* Exit code 0 of a command that ran means that under every label every    *)
(* selected case that needs no missing key passed; one failed column or    *)
(* case is enough for another code.                                        *)
ZeroMeansAllColumnsPassed ==
  exit = 0 /\ columns # <<>> =>
    /\ Len(columns) = Len(cmd.labels)
    /\ \A i \in DOMAIN columns :
         /\ columns[i].ran = Kept
         /\ columns[i].passed = Kept
         /\ cmd.labels[i] \notin Unreadable

(* A command ends: no column is waited for that nobody runs; and one that  *)
(* got as far as its columns ends with a column for each label, so that no *)
(* column that raises keeps the others from running.                       *)
CommandEnds ==
  (phase = "start") ~>
    (phase = "ended" /\ (columns # <<>> => Len(columns) = Len(cmd.labels)))

============================================================================
