# Dryfire, specified

TLA+ specifications of dryfire (`src/dryfire/`), a test runner for tool-calling
LLM agents: a YAML suite of cases is run against a real or scripted model with
mocked tools, each trace is asserted on, and the run ends in reports and an exit
code. The modules here are translations of the Python code, at the level of its
control flow; TLC checks them on small instances and TLAPS proves the central
results for every size. Paths below are relative to `src/dryfire/`.

## 1. The system

One process, one asyncio event loop. `composition.py` reads the suites and wires
the parts; `application/scheduler.py` runs the cases in a pool of worker tasks;
each repetition of a case is one `run_case` (`application/loop.py`), which talks
to a gateway (`adapters/driven/providers/`) and to the mock resolver
(`domain/mocking/resolver.py`). The gateway of a real provider is wrapped, from the
inside out, in `RetryingGateway` and one `CachingGateway` per repetition, all of
the latter over one `FileCassetteStore`. Nothing runs in parallel: tasks
interleave only at an `await`. What persists between processes are the cassette
files, and other commands (`prune`) act on them.

| component | state | operations | what is hard | what makes it correct |
|---|---|---|---|---|
| Case scheduler (`application/scheduler.py`) | iterator over units, slot per repetition, count per case, results, worker tasks | pull, process, deposit, aggregate, report progress, cancel, gather | workers share everything; completion in any order; fail-fast cancels tasks at any await; tool code can end a task | each unit once, slots to the right case, each case published once, nothing lost, nothing after the stop, the run returns |
| Run outcome (`_group`, `composition._exit_code`) | none: computed from the results | regroup by suite, exit code | dropped cases, one trace standing for N repetitions | spec order, exit 0 only when all passed |
| Reporting (`adapters/driven/reporting/`, `composition._report`) | the report files and their temporary files | classify, render to terminal, JUnit, JSON and HTML, read the artifact back, write and rename | four renderers that look at different fields of one result, steps that may fail and kills between them | the reports agree, a partial run is green nowhere, an exit code means that the reports are there |
| Agent loop (`application/loop.py`) | messages, turns, results of the current batch | ask, answer, resolve each call, close the turn, stop | early exits in the middle of a batch, a list that is shared and copied, bounds at 0 | every call answered, the trace a transcript, termination explained, it ends |
| Mock resolver, passthrough (`domain/mocking/resolver.py`, `adapters/driven/mocking/passthrough.py`) | position per sequence, of one run | first matching rule, next step, await real code | repetitions interleave over the same rules; timeouts and exceptions of foreign code | sequences play in order per run; failures become results |
| Cassettes (`providers/caching.py`, `cache/file_store.py`, `domain/fingerprint.py`) | one file per (case directory, key) | look up, call live, write beside and rename | check-then-act around an await, kills, failed writes, several files for a key, several sessions and modes | replay offline and reproducing, recordings survive, the table of modes |
| Retries (`providers/retrying.py`) | attempt count of a call | classify, back off, give up | off-by-one, never ending | bounded, and nothing stored on failure |
| Fake provider (`providers/fake.py`, `spec/scripts.py`) | position in the script | play, fail, exhaust | one gateway per case, many repetitions | the script starts fresh |
| Prune (`cache/prune.py`, `composition.prune`) | the cassette directory against the suite files | classify, delete | files that do not load, renames, format changes that give every case a new file beside the old | loses nothing that is live, leaves nothing that is dead |
| Judge (`application/judging/`, `domain/judging/`, `domain/assertions/judge.py`) | the semaphore of the run, a verdict per request key | collect, grade under the semaphore, parse, assert | one of several gradings raising, cancellation while waiting, woken or holding, newcomers between a wake-up and the woken waiter, recordings shared by rubrics | no permit is lost, a verdict goes to its own assertion, replay reports what was recorded |
| Compare (`application/usecases/compare.py`, `reporting/compare_terminal.py`) | results per column | confirm the cost, run each label, metrics, matrix, exit code | a column that raises, the product in the cost gate, cells looked up by a name that is not unique, dropped columns | one failed column shows, nothing is spent unconfirmed, disagreement is marked |
| Composition root, CLI (`composition.py`, `adapters/driving/cli/app.py`) | plan, gateways | load, filter, choose gateways, partition by availability, wrap, report | order of the wrappings, gateways shared between cases | every planned case has the right gateway |
| Spec loading (`adapters/driven/spec/`, `composition._load`, `_plan`) | the files on disk and the environment | resolve refs, interpolate, check kinds and impls, validate; select cases, precedence of settings | five stages whose errors are shown together, suppression of cascades, files that two arguments name, values that are false | every mistake shows and no other error does (some show twice, and none when rendering fails, see section 5), one repair suffices, a plan is what was written and asked for |
| Assertions, pass rate (`domain/assertions/`, `domain/pass_rate.py`) | none | evaluate over a trace | subset match, call order with repetitions | equal to their reference definitions |
| Provider adapters (`openai.py`, `anthropic.py`, `gemini.py`) | a client | to and from the wire | pairing of calls and results | conversation accepted by the provider |
| Pricing, scaffold | none | price, copy | formatting | - |

## 2. Modules

| module | models | notes |
|---|---|---|
| `Aggregation` | cases, units, outcomes, `_aggregate` | pure operators, shared by the pool, its contract and the commands |
| `RunContract` | what `run_suites` promises | abstract: no workers, no iterator |
| `Scheduler` | the worker pool | refines `RunContract` (`ImplementsContract`) |
| `RunOutcome` | `_group`, `_exit_code` and JUnit's `_classify` over the pool | extends `Scheduler` |
| `ReportContents` | what the terminal, JUnit, the JSON artifact and the HTML page say of a run | operators, extends `RunOutcome` |
| `Reports` | writing them, once the pool has returned, and the exit | composes: a step is one of the pool or one of the sinks |
| `AgentLoop` | `run_case`, resolver, passthrough; several runs at once | |
| `ScriptedCase` | `AgentLoop` over a shared `FakeGateway` | composes: each gateway step is the loop's step conjoined with the script's |
| `CassetteModes` | the promise of the four modes, one response per key | abstract: no files, no failures |
| `Cassettes` | `CachingGateway` over `RetryingGateway` over a provider, and the files | refines `CassetteModes` with `cache <- last` |
| `Fingerprint` | `normalise_call_ids` over the fields of a request | pure operators |
| `Json` | JSON objects, nested to a depth | the values of `Assertions` and `Transcript` |
| `Assertions` | the assertions over tool calls and turns, `matches_subset` | pure operators |
| `Transcript` | a case run again and again while its mocks are edited: conversation, wire, key, assertions | composes `Fingerprint` and `Assertions` |
| `Judge` | grading: semaphore, gather, cancellation, cassettes, verdicts | |
| `RunCommand` | `run`, `compare` and `trace` from their first check to the exit code, over one cassette directory | uses `Aggregation` |
| `CompareMatrix` | the matrix of `compare`, in the terminal and as a page | operators, extends `RunCommand` |
| `SpecLoading` | suite files loaded, mended and loaded again | |
| `Planning` | from accepted files to the cases of a run | composes: extends `SpecLoading` by the plan |
| `Prune` | suite files, single-case runs, format changes, `prune --yes` | |
| `SchedulerProofs`, `AgentLoopProofs`, `CassettesProofs`, `TranscriptProofs`, `JudgeProofs`, `RunCommandProofs`, `PruneProofs`, `SpecLoadingProofs` | theorems | each about the module in its name; `SchedulerProofs` has those of `RunOutcome`, `ReportContents` and `Reports` too, `AgentLoopProofs` those of `ScriptedCase`, `TranscriptProofs` those of `Fingerprint` and `Assertions`, `RunCommandProofs` those of `CompareMatrix`, `SpecLoadingProofs` those of `Planning` |
| `MC*` | constants of the TLC instances | |

Every definition that models code is listed in `PROJECT.json` under "map" with
the lines it stands for. Definitions whose comment starts with "Faulty:" are no
part of a model: each is a plausible bug in the definition after it, and "mutants"
says which property notices it.

### How they correspond to the code

**Scheduler.** An action is what a worker does between two suspensions. The only
await in the body of `worker` is `_process_case`, so `FinishRepetition`,
`FinishCase` and `FinishCaseAndStop` each run from its return to the next pull:
deposit in the slot, count, perhaps aggregate and report progress, perhaps cancel
the others, and take the next unit. `next`, `slots`, `filled`, `results`,
`progress` are `pending`, `rep_slots`, `rep_filled`, `case_results` and the calls
of `on_progress`; the iterator is the unit it yields next. What happens inside
`_process_case` is one suspension ending in an outcome: the termination of the
trace (`none` when the case raised) and what the assertions said. `Unwind` is the
`CancelledError` a cancelled task resumes with. `Escape` is tool code that raises
`CancelledError` itself: it is not an `Exception`, so neither the invoker nor
`_process_case` stops it, and `gather(return_exceptions=True)` swallows it.

**RunOutcome.** `Group` is the fold `_group` does with its running index;
`ExitCode` and `Classify` are the functions of their names.

**ReportContents, Reports.** `CaseLine`, `CaseHtml` and `CaseDict` are what each
renderer takes from a `CaseResult`: the mark, the rate, the remark on how the
shown repetition ended, whether there is a block of failed assertions. `CaseFrom`
is what `deserialize_run` gets back from the artifact. In `Reports` each sink goes
through a temporary file (`BeginFile`, `FillFile`) and `os.replace`
(`ReplaceFile`); `SinkFails` is any exception on the way, with the removal of the
temporary file, which may fail too; `Kill` falls between any two steps.

**AgentLoop.** A run is suspended at the provider (`asking`), in passthrough code
(`invoking`), or is about to resolve the next call of its response
(`resolving`; no await there, so splitting the `for` loop by call only adds
interleavings of runs that share nothing). `ResolveMocked`, `ResolvePassthrough`,
`ResolveRaises`, `ResolveToNull` and `StopUnmocked` are the branches of the body
of the loop, `CloseTurn` what follows it, `LoopHead` the test of `max_turns`.
Arguments are classes and a guard is a set of classes; the subset match itself is
in `Assertions`. A plain `return` or `error` is a sequence of one step.

**ScriptedCase.** `callsMade` is the gateway's `_calls_made`. The gateway does not
await, so a run that has the event loop keeps it until it ends or waits for
passthrough code (`HasTheLoop`).

**Cassettes.** A caller is one repetition with its own `CachingGateway`. `Hit`,
`Miss` and `AskLive` are `complete` up to its first await; `TransientFailure`,
`BackoffOver`, `FatalFailure` the retry loop; `AnswerLive`/`Replace`/`PutFails`
are `put`, split between the temporary file and `os.replace` because a kill can
fall there (no task of the process runs in between, `NobodyWrites`). A
fingerprint hashes the request, which is determined by the first request and the
answers so far, so a key is those and the repetition. Files of an older schema
are passed over by `get`. `last` and `baseline` are history variables: the
response last stored under a key, and what a caller got in the last session that
may write.

**Fingerprint.** A request is the sequence of its fields in the order in which
`remap` walks the JSON tree. `IdPositions` are the fields that `remap` renames: a
string under one of four keys, at any depth. `Placeholder` is the number that
`mapping` gives a string when it first appears. The constant parts of a request
(model, system, tools, parameters) are left out.

**Transcript.** `messages` is the list `run_case` builds; `Continue` is the rest
of a turn once its answer is there (the details are in `AgentLoop`). `Fields` is
`_reduce_message` followed by the walk of `remap`, `Key` the fingerprint, `store`
the cassettes of one repetition. The `..._to_wire` and `..._from_wire` operators
are the adapters of the three families: openai makes a message of each result and
takes arguments as text, anthropic makes a block of each, gemini looks up the name
of each result in a map from ids to names. `minted` counts ids, which a provider
never hands out twice. `asked` is a history variable: the conversation that the
stored answer was given to. Arguments and what a tool returns are the values of `Json`;
`matches_subset` and `Overlay` are functions on its objects, defined by recursion on
functions as the code recurses on dicts.

**Judge.** A grading is a pair of a case and a request key. `Acquire`, `Resume`,
`Unwind` and `Release` are `asyncio.Semaphore` of the Pythons the code asks for, 3.12
and later. A release that wakes a waiter gives it the permit at once
but leaves it in the queue (`woken`), and until its task resumes `locked()` counts it
(`Ahead`), so that a newcomer in between has to queue although a permit may be free.
`Resume` takes it out and wakes further waiters, as many as there are permits for
(3.13) or only the next one (3.12): `WakeUp` has the bound as a parameter, and the
versions differ there and in what a cancelled waiter hands on. A cancelled waiter
stays in the queue until it unwinds and is passed over until then (`Waiting`), as a
cancelled future is in `_waiters`; a woken one that is cancelled gives its permit
back. That a resumed grading (`granted`) asks its provider in a later step only adds
interleavings.
`Enter` is the `gather` of `evaluate`, `Report` its normal end, `ReportRaised` its
first exception, after which the other gradings of the case run on. `Publish`
carries what the scheduler does under fail-fast. An answer is a score, no score,
or a number so large that `float()` raises, which `_parse` does not catch. The
transcript stands for the case, so a judge's fingerprint is the case, the model
and the rubric text; the threshold is in the key of the request but not in the
prompt.

**RunCommand.** The phases are the code's: `start` (planning, configuration, the
cost gate of `compare`), `wiring` (gateways, keys, cassettes; once per column),
`running` (one action per repetition), `ended`. `default` is the gateway
`_partition_by_availability` returns, that of the last real case that has a key.
`KeyOf` shows where the fingerprint's provider comes from: the shared gateway in
the recording modes, the case in replay. The pool itself is `Scheduler`; here the
repetitions end in any order and fail-fast is off.

**CompareMatrix.** `Rows` are the cases of the first column that ran, one row each
(their order is that of the specification), `Verdict` the look-up of a cell by
name, `Row` the mark of a row whose verdicts differ. `Page` has
all columns, `Terminal` the first `MaxCols`.

**SpecLoading.** A file is told by what is wrong at six of its places, one for each
kind of thing a stage looks at; `RefErrors`, `EnvErrors`, `KindErrors`,
`ImplErrors`, `ModelErrors` are the five stages, each on what the earlier ones left
(`Resolved`, `Interpolated`), and `LoadSuite` is their union without the cascades
below a dangling `$ref`. A file has no lines but one fact about them: whether it
ends above the mistakes of the target it refers to (`short`, chosen again after every
edit). `Validate` is a command up to its errors; where `RenderFails` it raises inside
the report and shows nothing (`unshown`). `Mend` is the user, who corrects everything
shown; when nothing was, there is nothing to go by. `excused` is a history variable: whether the
errors that were shown could tell of everything.

**Planning.** A pattern is the set of files it matches and a filter the set of names
that contain it. `SuitePaths`, `PlanSuite`, `PlanOf` are the loops of their
functions; `Resolve` is the precedence of one setting, which stands for all of them.
A case is told by its place in its file, since two cases of a file may have one name.
`InOrder` puts a set in the order its elements have in the file.

**Prune.** `cases[f]` says for each case of a suite file what it asks; with the
number of the format, which is inside the hash, it stands for its fingerprint. So
`Upgrade` touches no file: it makes all of them stale and gives each case another file
name, and a case that is run again has its new file beside the old one, which only
prune takes away. `LiveOf` is what a recording is live for by the files as they are,
loading or not, which prune cannot see. `Valid` is the set of maps `composition.prune` may build:
when two parsed files give one suite name, the one globbed last decides. `own` is
a history variable: the cases recorded live and not edited since, in suites whose
name no other file gives. Edits of the files are the environment.

## 3. Runs

| run | instance | shows |
|---|---|---|
| `Scheduler_failfast` | 3 cases, repeat 3/1/1, required 60/100/100 %, 2 workers, two suites, fail-fast; a repetition passes, fails, raises or passes without its provider; then artifact and JUnit file, failing steps, kills | slots to the right case, nothing lost, nothing after the stop; the pool refines `RunContract`; the four reports and the exit code agree with the results and each other, a stopped run is green nowhere, and an exit code of the run means that every report is there, whole |
| `Scheduler_escape` | 3 workers, repeat 1/2/3, tool code of two cases may escape, fail-fast | until a failed case stops the run, an escape costs exactly its own unit |
| `AgentLoop_runs` | 2 runs over one set of rules, 2 turns, `on_unmocked` error and null, with and without invoker, guards, failing and empty sequences, malformed and repeated calls, all stop reasons | every call answered, terminations explained by the turns, the trace a transcript, sequences per run, ending |
| `Cassettes_repeat` | 2 repetitions, 2 turns, 2 sessions of any modes, 1 retry, kills, failing writes, a stale file | replay reproduces, recordings survive, sessions end; refines `CassetteModes` |
| `Transcript_replay` | 3 wire families, 3 runs of up to 3 turns, parallel and malformed calls, 2 versions of the mocks, 5 ids | what is served was said to this conversation; what was recorded is found under other ids; the wire answers every call; assertions equal their reference definitions and settle |
| `Judge_grading` | 2 cases, 4 gradings, 2 permits, three rubrics of one text, 2 sessions of any modes with and without fail-fast | permits balance, verdicts stay with their assertions, replay reports the same, judging ends |
| `RunCommand_columns` | 4 cases (two of one provider, one of them passthrough; one fake; one of another provider), 18 different commands, 3 in a row | costs are agreed, calls go home, recordings replay from either command, exit code 0 means all passed, the matrices show where columns disagree, commands end |
| `Prune_lifecycle` | 2 files, 3 suite names, 2 cases, 1 prompt, 1 format change | no data loss; dead recordings go, stale ones beside new ones too, also while another file is broken, and nothing else goes |
| `SpecLoading_mend` | 2 files, one with flaws at one or two of six places, one that refers to the same tool file, a variable that is unset, fits or does not, files that end above the mistakes of their target; then 144 commands | every mistake shows and nothing else, but for a report that fails, one repair reaches what was not hidden, plans are what was written and asked for |

In three more runs TLC finds the code doing other than it says; each is a finding
in `PROJECT.json`, with the lines that disagree:

| run | what happens |
|---|---|
| `ScriptedCase_repeat` | the second repetition of a `fake` case continues the first one's script |
| `RunCommand_mixed` | in a run over two real providers one of them is asked for both, and the recordings carry its name |
| `Transcript_ids` | a mock's result has a field `id`; after an edit of it the answer to the old result is served |

`RunCommand_columns` and `Transcript_replay` check the same properties on
instances without those two situations: at most one provider at a time has keys
and selected cases, and no data field is called like an id.

**Bounds.** Three cases with repetitions on both sides of the number of workers
make every unit boundary (next repetition, next case, end) meet every worker;
two workers are enough for a race on the iterator, three for two escapes with a
survivor. Two turns give a first turn, a turn that continues a conversation and
the limit; `Transcript` has three, so that the second of them hashes results that
are followed by more calls. Two sessions are a recording and a replay, or two
recordings of one key; the second session of `Cassettes_repeat` may follow a kill
at any step of the first. Three runs of `Transcript` are a recording, a partial
re-recording with new ids and a replay. With four gradings and two permits two
can hold while one is woken or waits and another arrives, and a case can raise while
its sibling waits. Three
commands are a recording by `run`, one by `compare` and a replay of either. With
two suite files, one can be broken or share a name while the other is live; a
third name is needed for a suite nobody has. Flaws at two places of one file are
the least with which a stage can hide what another would find, and the second file
the least with which a file can hide another; the names, tags and settings of
`SpecLoading_mend` share a case name between files, a filter that matches two cases
of one file, and a setting that is 0. `MaxSessions`, `MaxRuns`,
`MaxCommands`, `MaxUpgrades` and the length of `CallIds` bound counters that only
exist in the models; nothing else is bounded. In `Prune_lifecycle` files, names
and case names are symmetric (no definition orders them and none of its
properties is a liveness property); in the other runs no symmetry is used. Every
configuration switches the deadlock check off, because a run of the program ends.

**Fairness.** `WF` on each worker, run or caller, and on all of judging together: the
event loop runs every ready task, the provider clients and the passthrough invoker bound
their waits, and a backoff ends. `WF` on `Return` is the event loop resuming
`gather`. `RunCommand` has `WF` on the command that is on. There is none on starting
another session, run or command, on a kill, an interruption, edits or `prune`.
`Transcript`, `Prune`, `ScriptedCase`, `SpecLoading` and `Planning` state safety only and have no fairness. A
worker's fairness includes its own steps only; with it the refinement's liveness,
`RunEnds`, `SessionEnds`, `JudgingEnds` and `CommandEnds` hold because iterator,
turns, retries, queue and labels are finite. `ReportsSpec` adds `WF` on reporting,
which goes on until it ends; none of its properties needs it to.

## 4. Proofs

`SchedulerProofs` assumes only what `Aggregation` and `Scheduler` assume of their
constants: any number of cases, at least one repetition each, a rate between 0
and 100 %, any concurrency, with and without fail-fast and escapes. `ClaimedOnce`
and the agreement of results and slots are not inductive alone. `IInv` adds what
the code keeps implicit:

- `ClaimsBehind`: everything held or filled lies before the iterator, so a pull
  yields a unit that nobody holds and whose slot is empty (gives `ClaimedOnce`);
- `CountersMatch`: `rep_filled[c]` is the number of filled slots of `c`, so the
  code's test on the counter is the test that all slots are filled (gives
  `ResultsMatchSlots`);
- `StopReachesAll`: in a stopped run every task is cancelled or done, and none is
  in another (gives `NothingLandsAfterStop`);
- `ClaimsKept`, `NoWorkerLeavesEarly`, `ReturnedLast`: with no escape and no stop,
  a unit behind the iterator is held or filled, and workers leave only when the
  iterator is exhausted (gives `NothingLost`).

Initialisation, one lemma per action (`StartIInv`, `FinishRepetitionIInv`, ...) and
`PTL` give `Inductive`; `TypeCorrect`, `EachUnitOnce`, `ResultsAreAggregates`,
`CompleteRun`, `StopIsFinal` and `ProgressOnce` follow. `ContractSafety` shows that
initial states and steps of the pool are initial states and steps or stutters of
`RunContract`, with at least one worker and no escapes; it rests on `IInv` and on
`SameAggregation`, that the two modules aggregate alike. `EscapesCostLittle` needs no
invariant but `EscapeCostsOneUnit` itself beside `IInv`: a step either leaves the
sets of lost units and of ended workers alone, or adds one element to both, or ends
a worker when nothing is left to take.

The second half of `SchedulerProofs` proves what is said of the results, for any suites, cases,
repetitions and outcomes. Regrouping, the counts and the exit code are folds, which
the library defines by recursion over sets and sequences; their induction is done
once, without an induction theorem: `Upward` takes a least counterexample, `FoldExists`
builds the solution of the recursion from the bottom, and `FoldRuns` says that a fold
is its step applied to the elements in order. From these follow `Grouped` (suite by
suite, the fold of `_group` takes the results from the suite's first case to its last;
`SpecOrder`), `ListedIs` (so nothing is listed twice or left out), `Totals` and
`JUnitCounts` (the totals are cardinalities). `OneStory` and `StoppedRunIsRed` then
compare the renderers case by case; the aggregate of a case's outcomes is what they
share (`FailureIsShown`). `GreenMeansPassed` is under the condition of `CompleteRun`,
a worker and no escapes. `StoppedRunIsRed` has that condition, and that the run has a
case at all, in the property, as the code has: without a case the report says so and
not that it is partial. `ExitLeavesReports` has an invariant of its own about files and
temporary files (`WritingInv`), and needs that the pool rests once it has returned.
Beyond the assumptions of the scheduler it is assumed that suites are not empty and
their sizes add up to the cases, and that `None` is no termination.

`PruneProofs` proves `NoDataLoss`: a case that recorded, in a suite that has its name
to itself, keeps its cassette until it is edited or the format changes. The invariant
`PInv` adds that the case is still in its file and that its suite's name is still
unique: prune either parsed the file, and then `valid` has the case, or did not, and
then protects every directory it does not know. `NoResidue` proves
`PruneTakesTheDead`: what is left in the directory of a suite that loads is live for a
file of that name, whichever of two decides (`LeftInParsed`); what goes was not live for
any file that has its name alone, also for one that does not load (`TakenIsDead`); and a
run only adds what is live (`RunAddsLive`).

`TranscriptProofs` proves all five properties of `Transcript`, for any answers, mocks,
arguments of any depth, turns and runs, of the three wire families. It has four parts.

*Keys.* `KeyIgnoresIds`: requests that differ by a renaming of ids have one key, because
the set of ids seen before a given one has the same size in both (the renaming is a
bijection between the two sets). `KeyTellsTheRest`: requests with one key agree on all
that is no id and on which ids are equal, because the placeholder grows with the place
where an id first appears. `FieldsTell`: the walk over a request loses nothing, two
conversations with the same fields are the same; message by message and value by value
they are read back from the last field on (`Apart`), by induction on the depth.

*What is served.* `RInv` says that every stored answer was given to a conversation with
that key in which each call is answered. A renaming of fields is a renaming of the ids of
the conversation and back (`SameIsRenamed`, `SameKey`), so `RecordsAreFound` follows from
the first theorem on keys and `AnswersFit` from the second and `FieldsTell`. `AnswersFit`
has two hypotheses. `NoOwnIds`: no field of an argument or a result is called as the
fields of ids are; `Transcript_ids` shows what happens without it, so it is all there is
between the code and that promise. `MarksApart`: the marks of an object's beginning and
end are no placeholders, which is about the encoding in the model only.

*The wire.* `WInv` adds, of the calls in the conversation and in the cassettes, that
their ids are among those minted so far (`MintedIds`) and that calls with one id have one
name (`OneName`, what gemini's map from ids to names needs); and that while a run is on,
the results in its conversation are those of its calls, in order, under the present
mocks (`Due`). `WireAnswers` compares each family's messages with that list.

*Assertions.* `VerdictsMean` needs that the arguments of every call are an object
(`AInv`). `MatchIsOverlay` goes down the depth of the values; `OrderEmbeds` shows that
the greedy scan of `call_order` finds an embedding when there is one. `VerdictsStay` needs
only the types: a longer list of calls begins with the shorter.

The recursions over data (`FlattenSeq`, the nesting of values, the scan of `call_order`)
are dealt with as in the reports: a least counterexample instead of an induction theorem
(`Upward`). Assumed is what `TranscriptAssumption` says: ids are no data and are handed
out once, and patterns are objects.

`SpecLoadingProofs` proves, for any number of files with any mistakes, any content of
the target and any environment, that the errors of a rejected load stand where the
mistakes are and nowhere else while every text is YAML, that an accepted load has no
mistake, that a load shows nothing exactly when a target has a mistake beyond the end
of a file that refers to it (`EveryMistake`, with `FailsForMistakesBeyond`), and that who mends what was shown is rejected again only
for what an error could not tell (`OnePass`). `MistakesAreReported` compares the
stages with the reference definition `Mistaken` place by place. The invariant `IInv`
says what `shown` is in each phase and that an unexcused edit has left no error
(`MendReaches`, the longest step: after a mend of what hides nothing, no stage finds
anything at any place). Both hold with and without the planning that follows.
`PlannedAsWritten` is about that: a plan is what the command that was given plans
(`PInv`), and the loops over arguments, files and cases give the chosen cases and no others
(`PlannedIsChosen`), a file's in their order, each file once when arguments name it
(`PathsAre`, `PlanIs`; two patterns of `dryfire.yaml` give it twice), with the first of
five values that is said (`PickIs`). It assumes that there is a built-in value and that
arguments and cases come in sequences.

`AgentLoopProofs` proves, for any number of runs, any mock rules, any answers of the
provider and any `max_turns`, also a negative one, that every call of the
conversation is answered (`CallsAnswered`), that the trace is a transcript
(`Transcribed`) and that its end can be read off it (`EndExplained`). Its invariant
is about one run at a time (`RunInv`), since a step of one run leaves the others
alone. It adds to the three properties of a run (`Paired`, `Transcript`, `Explained`)
that an open run has recorded full turns only and fewer of them than `max_turns`, and
that its messages are what these turns add up to (`Underway`; this is where
`request_messages` being a copy matters), and that the results so far carry the ids of
the first calls of the response (`Batch`).
`OInv` adds that `_sequence_pos` of a rule is the number of calls in the
trace that the rule answered, and proves `SequencesInOrder`. The trace there includes
the batch that is being resolved (`TurnsSoFar`), which moves into the turn unchanged
when it is closed, so that only an answered call changes a counter. Both assume that
sequences are sequences and that `None` is no termination (`AgentLoopAssumption`).
Over a scripted gateway every step is a step of the loop (`ScriptedStepIs`), so the first
three promises hold of scripted cases, shared gateway or not (`ScriptedKeeps`). That the
script starts fresh is proved of a gateway with one run (`FreshForOneRun`): where it is in
the script is the number of turns, and one more in the middle of a batch (`InScript`).
`ScriptedCase_repeat` shows that two repetitions are too many. `Written` is what
`map_script` makes: a failure, or a response that says something or asks for tools.

`CassettesProofs` proves all safety of the cassettes, for any number of callers,
sessions, turns, retries and stale files, with kills between any two steps.
`Survives` needs only that a file that can be used has an answer in it. `ModesKept`
proves the whole of `ImplementsModes` (`CassetteModes` has no fairness) under
`OneDirectoryPerKey`: cases that ask the same are in one directory. Then a key has
one file, which holds what was stored last (`FilesMirrorLast`); without it `get`,
which looks into every directory, may find a file that is not the last one. `Reproduces`
needs `OneCallerPerKey`: what a caller has been given in a session that records is
under the keys of its own history (`RecordedIn`), which grow with each answer and are
never another caller's, so nothing overwrites them until the next such session.

`JudgeProofs` proves the three safety properties of grading, for any cases, rubrics,
scores, limit and number of sessions, with any cancellations. Its invariant has four
parts. `OnceInQueue` says that nobody is in the queue twice, so that who resumes or
unwinds leaves it; with it `PermitsBalanced` is inductive. Each step moves one permit
between the semaphore and one grading (`HoldersCount`, `Acquired`, `Released`,
`Resumed`, `Unwound`), a release hands it to the first that waits (`WokenUp`), and
whoever leaves the queue with a permit free wakes the next (`HandedOn`), for any bound
on how many a woken waiter wakes: so while a permit is free and someone waits, a woken
one is still in the queue. It is not true that nobody waits while a permit is free.
`GradingFits` and `CaseFits` say what a grading that has ended got and that a reported
case was reported from gradings that do not change any more, although those of a raised
case run on; `EachOnItsOwnTerms` follows because the first assertion with a key has that
key (`OwnRubric`). `StoreFits` and `BaselineFits` say that what a case was reported from
is still in the cassettes (`ReplayIsFaithful`); they hold of the cases whose rubrics ask
different things, and a session that records invalidates the baselines first. It is
assumed that there are finitely many cases with finitely many assertions each, at least
one permit, and that scores are numbers.

`RunCommandProofs` proves `ZeroMeansAllColumnsPassed` from what a finished column
tells (`ColumnsTell`) and how far a command is in each phase (`PhaseFits`).
`SpentAsAgreed` adds that whoever was asked was asked through the shared gateway
for a repetition under one of the labels (`Agreed`): there are no more such calls than
labels times repetitions, which is what the cost gate compares with the threshold.
`DisagreementShows` is about the two matrices. Each column that ran, ran the same cases,
which are the rows (`ColumnsShow`, `RowsAreKept`); a cell of a case with a name of its own
is that case's own verdict (`VerdictOf`); a prefix of the columns marks a row only if the
whole does (`RowMarks`, `Prefix`); and exit code 1 is a column whose rate is below all.
`MaxCols` is at least 1, as it is in the code, and `Threshold` a natural number. Under
`OneProviderAtATime`, that no command has keys for the
providers of two of its cases, the shared gateway is the gateway of every case that is
asked live (`GatewayFits`) and a cassette under the provider of its case is what was
recorded last (`StoreMirrors`); this gives `CallsGoHome`, `RecordingsReplay` and
`AsksOnce`. `RunCommand_mixed` shows what happens without that condition, so that
it is the only thing between the code and these three promises.

Every safety and action property of the passing runs is stated by a theorem; the three
that are violated are proved under the condition that excludes the fault
(`FreshForOneRun`, `CallsGoHome`, `AnswersFit`). Only model-checked, and why:

- liveness (`RunEnds`, `SessionEnds`, `JudgingEnds`, `CommandEnds`, and that of
  `ImplementsContract`), which is out of TLAPS's reach;
- the runs in which the code does other than it says: a behaviour TLC shows is the proof.

## 5. Not modelled

The layout of reports, with trajectories, tokens, costs and durations; positions,
hints and messages of load errors and the single fields of the pydantic models;
pricing and the other numbers of a column (`column_metrics` is reduced to what ran
and what passed); the assertions on the final text, cost and latency; parsing of the
command line; the scaffold. Of the adapters: text blocks, parameters and usage. Time
is not modelled: a timeout is a choice, a backoff ends. Canonical JSON, Unicode
normalisation and the truncated SHA-256 are taken as injective.

Seen while reading, and covered by no property:

- a judge that could not grade ends as a failed assertion, exit 1; `verdict.py:70-71`
  says an error "routes the result to exit 3";
- a case stopped at an unmocked tool passes when its assertions hold of the
  truncated trace; `docs/redteam.md:34-36` and `SPEC.md:411-412` say it fails;
- a provider error or cassette miss in a repetition that is not the one shown does
  not reach the exit code; `docs/flakiness.md:60-61` promises exit 3;
- two cases with one request keep two files of one key, and the first path is
  read, not the last response; `response_cache.py:51` says last write wins;
- two rubrics of a case that differ only in threshold share one judge cassette, so
  that `record` keeps the later answer only and replay may report another outcome
  (`ReplayKeepsOutcomes` excludes them);
- `trace` wires no invoker, so a passthrough mock raises there
  (`composition.py:815-819`; `RunCommand` models it);
- gemini may leave out ids, which become `""`: the name of a result is then that of
  the last call (`gemini.py:104`);
- a cassette is found by its key in any directory (`file_store.py:60`) but pruned by
  its directory (`prune.py:44`): after a case is renamed its recordings serve it until
  prune deletes them;
- an `expect` entry with two kinds, as a forgotten dash makes one, loads; only its
  first kind is evaluated (`scheduler.py:161`), and an empty entry raises when the
  case runs (`SpecLoading` models that such an entry is passed over);
- an error inside a `$ref` target has the suite's path and the target's line;
  rendering takes the line from the suite, so it shows another line or raises
  `IndexError` and then shows no error at all (`errors.py:58`; `SpecLoading` models
  the latter); keys beside a `$ref` are dropped, and a JSON Schema
  `$ref` in `input_schema` is taken for a file;
- an unset variable where a number, an argument or an `impl` is due gives two errors
  at one place (`loader.py:14-16` promises one); one file that is not YAML hides the
  errors of all others; overlapping `suites:` globs run a suite twice;
- `validate` accepts a `fake` case without a script, `run` refuses it with exit 2;
- the artifact gives k of N, but `report` does not read it back, so the page made
  later has no rates; the terminal leaves k of N out when the shown repetition
  raised; a case that passed its rate may be an error in JUnit, with exit 0, because
  the repetition shown raised; JUnit cannot say that a run is partial; a run that an
  escape cut short says that it stopped under `--fail-fast`;
- when the artifact cannot be written the JUnit file is not tried, and the exit code
  is 2; the HTML page is not written atomically;
- the matrix of `compare` rounds pass rates to whole percentages, so that 199 of 200
  is shown as 100 % with exit 1, and shows 0 % for a column without cases with exit 0
  (`compare.py:59-60`, `compare_terminal.py:119`; `Rate` is the exact fraction);
- the matrix of `compare` shows twins (cases of one name) by the first suite's
  verdict, so that exit code 1 may come with no failed cell;
- `--concurrency -1` creates no worker and exits 0 (`scheduler.py:304`);
  `sequence: []` raises out of the resolver (`resolver.py:145`); a `Retry-After` is
  slept uncapped (`retrying.py:97`); suites with one name, or outside the globs,
  lose recordings to prune (`composition.py:650`).

## 6. Plan

Done: the scheduler, proved; run outcome and reports, proved; agent loop and mock order,
proved; scripted cases, proved; cassettes, proved; fingerprint, assertions and wire, proved;
judge, proved; commands and the compare matrix, proved; spec loading, proved; planning and
precedence, proved; prune, proved. What is left, in this order:

1. The priced usage of a trace and `column_metrics` as operators against a reference
   definition, with the budget assertions; the assertions on the final answer.
2. Abstract specifications of `Judge` (verdicts, without queue and tasks) and of
   `Reports` (all files or none), and the refinements.
3. Faulty situations that are listed above and that no property covers, each as a
   run of its own where a comment or document of the repository promises otherwise.
