---------------------------- MODULE SpecLoading -----------------------------
(***************************************************************************)
(* How suite files become suites (adapters/driven/spec/loader.py and       *)
(* _load in composition.py), and how they are mended: every file passes    *)
(* the stages `$ref` resolution, interpolation of the environment, check   *)
(* of the assertion kinds, check of the passthrough targets, validation by *)
(* pydantic; what the stages find is shown together; the user mends what   *)
(* was shown and starts the command again.                                 *)
(*                                                                         *)
(* A file is told by what stands at six of its places: the text as such,   *)
(* `system` (a string), `max_turns` (a number), a tool, an entry of        *)
(* `expect` and a mock rule.  What stands there is a set of marks:         *)
(*   yaml      the text is not YAML                                        *)
(*   wrong     a field of the wrong type, missing or unknown               *)
(*   var       a value that is ${VAR}, a number where one is expected      *)
(*   ref       the tool is `$ref` and a path; all name one target file     *)
(*   nested    (in the target) a tool that is `$ref` again                 *)
(*   kind      the assertion kind is unknown                               *)
(*   args      one argument of the assertion is wrong; args2: two are      *)
(*   pair      the entry has two kinds                                     *)
(*   impl      the `impl` cannot be imported                               *)
(*   outcomes  the mock rule has two outcomes                              *)
(***************************************************************************)
EXTENDS Integers, FiniteSetsExt

CONSTANTS
  NumFiles,   \* the suite files are loaded in the order of their paths
  Documents,  \* Documents[f]: the contents that file f may have at first
  Targets,    \* the contents of the file that a `$ref` names; None: no file
  None

Files == 1 .. NumFiles

Places == {"text", "system", "max_turns", "tool", "entry", "rule"}

Marks ==
  [text |-> {"yaml"}, system |-> {"wrong", "var"}, max_turns |-> {"wrong", "var"},
   tool |-> {"wrong", "ref"}, entry |-> {"kind", "args", "args2", "pair", "var"},
   rule |-> {"wrong", "impl", "outcomes"}]

TargetMarks == {"yaml", "wrong", "var", "nested"}

ASSUME SpecLoadingAssumption ==
  /\ NumFiles \in Nat \ {0}
  /\ \A f \in Files : \A d \in Documents[f] :
       /\ DOMAIN d = Places
       /\ \A p \in Places : d[p] \subseteq Marks[p]
  /\ \A t \in Targets : t = None \/ t \subseteq TargetMarks
  /\ \A t \in SUBSET TargetMarks : t # None

VARIABLES
  docs,    \* the suite files
  target,  \* the file they refer to
  env,     \* VAR: "unset", a "word" or a "number"
  short,   \* the files that refer to the target and end above the line that
           \* its mistakes, if any, have in it
  phase,   \* "edited", "rejected", "unshown" (rejected and nothing shown) or
           \* "accepted"
  shown,   \* the errors the command has shown: [file, place, says]
  excused  \* history: a rejection is no surprise, as it is the first one or
           \* the last repair could not reach everything

vars == <<docs, target, env, short, phase, shown, excused>>

Init ==
  /\ docs \in [Files -> UNION {Documents[f] : f \in Files}]
  /\ \A f \in Files : docs[f] \in Documents[f]
  /\ target \in Targets
  /\ env \in {"unset", "word", "number"}
  /\ short \in SUBSET {f \in Files : "ref" \in docs[f]["tool"]}
  /\ phase = "edited"
  /\ shown = {}
  /\ excused = TRUE

Error(f, p, says) == [file |-> f, place |-> p, says |-> says]

-----------------------------------------------------------------------------
(* The stages, each on what the one before has left.                       *)

Refers(f) == "ref" \in docs[f]["tool"]

Dangling(f) == Refers(f) /\ target = None

(* resolve_refs: the target takes the place of the `$ref`, and is not      *)
(* searched in turn; an empty mapping takes the place of a missing one.    *)
Resolved(f, p) ==
  IF p # "tool" \/ ~Refers(f) THEN docs[f][p]
  ELSE IF target = None THEN {"wrong"} ELSE target

RefErrors(f) == IF Dangling(f) THEN {Error(f, "tool", "ref")} ELSE {}

(* What VAR is as a value: an empty string when it is unset, and of the    *)
(* wrong type where a number is due.                                       *)
Substituted(p) ==
  IF env = "number" THEN {}
  ELSE IF p = "max_turns" THEN {"wrong"}
  ELSE IF p = "entry" THEN {"args"} ELSE {}

(* interpolate_env.                                                        *)
Interpolated(f, p) ==
  IF "var" \in Resolved(f, p) THEN (Resolved(f, p) \ {"var"}) \cup Substituted(p)
                              ELSE Resolved(f, p)

EnvErrors(f) ==
  {Error(f, p, "unset") : p \in {q \in Places : env = "unset" /\ "var" \in Resolved(f, q)}}

(* check_assertion_kinds: an entry without exactly one kind is passed over, *)
(* and of several wrong arguments the first is told.                       *)
KindErrors(f) ==
  LET entry == Interpolated(f, "entry") IN
    IF "pair" \in entry THEN {}
    ELSE IF "kind" \in entry THEN {Error(f, "entry", "kind")}
    ELSE IF entry \cap {"args", "args2"} # {} THEN {Error(f, "entry", "args")}
    ELSE {}

(* check_passthrough_impls.                                                *)
ImplErrors(f) ==
  IF "impl" \in Interpolated(f, "rule") THEN {Error(f, "rule", "impl")} ELSE {}

(* Suite.model_validate: expect is a list of mappings to it; the outcomes  *)
(* of a rule are counted once its fields are valid.                        *)
ModelErrors(f) ==
  {Error(f, p, "wrong") :
     p \in {q \in Places : Interpolated(f, q) \cap {"wrong", "nested"} # {}}}
  \cup (IF Interpolated(f, "rule") \cap {"wrong", "outcomes"} = {"outcomes"}
          THEN {Error(f, "rule", "outcomes")} ELSE {})

(* Faulty: one dangling `$ref` silences the validation of the file.        *)
PoisonedAll(f) == IF RefErrors(f) = {} THEN {} ELSE Places

(* What is wrong beneath a placeholder is not the user's mistake.          *)
Poisoned(f) == {e.place : e \in RefErrors(f)}

(* Faulty: does not validate what the earlier stages have found fault with.*)
LoadSuiteInSteps(f) ==
  LET found == RefErrors(f) \cup EnvErrors(f) \cup KindErrors(f) \cup ImplErrors(f)
  IN  IF found = {} THEN ModelErrors(f) ELSE found

(* load_suite: the errors of a file; without one it is a suite.            *)
LoadSuite(f) ==
  RefErrors(f) \cup EnvErrors(f) \cup KindErrors(f) \cup ImplErrors(f)
    \cup {e \in ModelErrors(f) : e.place \notin Poisoned(f)}

(* load_positioned raises on the file, or on its target when that is read. *)
Raises(f) ==
  IF "yaml" \in docs[f]["text"] THEN {Error(f, "text", "yaml")}
  ELSE IF "yaml" \in Resolved(f, "tool") THEN {Error(f, "tool", "yaml")}
  ELSE {}

Broken == {f \in Files : Raises(f) # {}}

(* _load: the first file that raises ends the command, which shows what    *)
(* was raised and no other error.                                          *)
Load == IF Broken # {} THEN Raises(Min(Broken)) ELSE UNION {LoadSuite(f) : f \in Files}

(* _render_errors: a mistake in the target is an error of the suite at the *)
(* target's line; where the suite has no such line render raises, and what *)
(* the user gets to see is an internal error instead of all errors.        *)
RenderFails ==
  /\ Broken = {}
  /\ \E e \in Load : e.place = "tool" /\ e.says # "ref" /\ e.file \in short

(* `dryfire validate`, or what `run` and `compare` begin with.             *)
Validate ==
  /\ phase = "edited"
  /\ shown' = IF RenderFails THEN {} ELSE Load
  /\ phase' = IF RenderFails THEN "unshown"
              ELSE IF Load = {} THEN "accepted" ELSE "rejected"
  /\ UNCHANGED <<docs, target, env, short, excused>>

-----------------------------------------------------------------------------
(* The user.                                                               *)

(* What an error makes the user change; a value that VAR does not fit is   *)
(* written out.                                                            *)
Cured(says) ==
  says
    \cup (IF "wrong" \in says THEN {"nested"} ELSE {})
    \cup (IF "args" \in says THEN {"args2"} ELSE {})
    \cup (IF says \cap {"wrong", "args"} # {} /\ "unset" \notin says THEN {"var"} ELSE {})

(* Of two wrong arguments one is left.                                     *)
Mended(marks, says) ==
  (marks \ Cured(says))
    \cup (IF "args2" \in marks /\ "args" \in says THEN {"args"} ELSE {})

Says(errors) == {e.says : e \in errors}

At(f, p) == {e \in shown : e.file = f /\ e.place = p}

(* What the errors that are shown cannot tell: behind a text that is not   *)
(* YAML, behind a missing target, behind the first mistake of an entry,    *)
(* behind a wrong field of a mock rule.                                    *)
Hides ==
  \E f \in Files :
    \/ Raises(f) # {}
    \/ Dangling(f)
    \/ "kind" \in docs[f]["entry"] /\ docs[f]["entry"] \cap {"args", "var"} # {}
    \/ "args2" \in docs[f]["entry"]
    \/ {"wrong", "outcomes"} \subseteq docs[f]["rule"]

(* Mends everything that is shown: sets VAR, puts a file where the `$ref`  *)
(* points, corrects the rest in the file it is in.                         *)
Mend ==
  /\ phase = "rejected"
  /\ docs' = [f \in Files |-> [p \in Places |->
                IF p = "tool" /\ Refers(f) THEN docs[f][p]
                ELSE Mended(docs[f][p], Says(At(f, p)))]]
  /\ IF "ref" \in Says(shown) THEN target' \in Targets \ {None}
     ELSE IF target = None THEN target' = None
     ELSE target' = Mended(target, {e.says : e \in {d \in shown :
                                       d.place = "tool" /\ Refers(d.file)}})
  /\ env' = IF "unset" \in Says(shown) THEN "number" ELSE env
  /\ short' \in SUBSET {f \in Files : Refers(f)}
  /\ phase' = "edited"
  /\ excused' = Hides
  /\ UNCHANGED shown

Next == Validate \/ Mend

Spec == Init /\ [][Next]_vars

-----------------------------------------------------------------------------

(* There is a mistake at a place, in the file or in what it refers to; of  *)
(* an entry of two kinds nobody looks at the kinds and their arguments.    *)
Mistaken(f, p) ==
  LET text == IF p = "tool" /\ Refers(f) /\ target # None THEN target ELSE docs[f][p]
      passedOver == IF "pair" \in text THEN {"pair", "kind", "args", "args2"} ELSE {}
  IN  \/ text \ ({"var", "ref"} \cup passedOver) # {}
      \/ "var" \in text /\ env = "unset"
      \/ "var" \in text /\ Substituted(p) \ passedOver # {}
      \/ p = "tool" /\ Dangling(f)

(* "All errors from all stages are collected in one pass; cascade          *)
(* suppression keeps one user mistake to one error" (loader.py, the head): *)
(* as long as every text is YAML, the errors of a rejected load stand at   *)
(* the places where the mistakes are, at all of them and at no other, in   *)
(* whatever stages and files they are found; an accepted load has none.    *)
(* The exception: of a load of files with mistakes nothing is shown if and *)
(* only if one of them is in a target beyond the end of a file that refers *)
(* to it.                                                                  *)
EveryMistakeShows ==
  /\ phase = "rejected" /\ Broken = {} =>
       \A f \in Files, p \in Places : At(f, p) # {} <=> Mistaken(f, p)
  /\ phase = "accepted" => \A f \in Files, p \in Places : ~Mistaken(f, p)
  /\ phase \in {"rejected", "unshown"} =>
       (phase = "unshown" <=>
          /\ \A f \in Files : Raises(f) = {}
          /\ \E f \in short : Mistaken(f, "tool") /\ ~Dangling(f))

(* Who mends everything that was shown needs a second look only for what   *)
(* was hidden behind it; no stage keeps back what another would have found *)
(* and rendering does not fail on what was overlooked.                     *)
OnePassUnlessHidden == phase \in {"rejected", "unshown"} => excused

============================================================================
