------------------------------- MODULE Prune -------------------------------
(***************************************************************************)
(* The life of a cassette directory between runs: suite files are edited,  *)
(* broken and mended, single cases are run and recorded, the program is    *)
(* upgraded to a new recording format, and `dryfire prune --yes` deletes   *)
(* what it takes for orphaned or stale (adapters/driven/cache/prune.py and *)
(* composition.py, prune).                                                 *)
(*                                                                         *)
(* A cassette is [suite, case, key, schema]: its two directories, the      *)
(* fingerprint in its file name, and the schema_version in its body.  A    *)
(* fingerprint hashes what the case asks together with SCHEMA_VERSION, so  *)
(* the prompt of the case and the number of the format stand for it: after *)
(* a format change a case records under a new file name, and its old file  *)
(* stays beside the new one.  `sanitise` keeps distinct names distinct, so *)
(* a name stands for its directory.                                        *)
(***************************************************************************)
EXTENDS Integers, FiniteSets

CONSTANTS
  Files,        \* the suite files
  Globbed,      \* those the globs of dryfire.yaml find
  SuiteNames,
  CaseNames,
  Prompts,
  MaxUpgrades   \* bound on the format changes of a behaviour

ASSUME PruneAssumption ==
  /\ Globbed \subseteq Files
  /\ MaxUpgrades \in Nat

VARIABLES
  name,       \* the suite name each file gives
  cases,      \* the cases of each file: what each of them asks
  loads,      \* whether the file passes validation
  cassettes,  \* the directory
  upgrades,   \* SCHEMA_VERSION: how often the format has changed
  own         \* history: the cases recorded live, and neither edited nor in a
              \* suite whose name another file gives too, since then

vars == <<name, cases, loads, cassettes, upgrades, own>>

-----------------------------------------------------------------------------

(* The fingerprint of what the case asks: the version of the format is     *)
(* inside the hash.                                                        *)
Fingerprint(f, n) == <<cases[f][n], upgrades>>

Cassette(f, n) ==
  [suite |-> name[f], case |-> n, key |-> Fingerprint(f, n), schema |-> upgrades]

(* FileCassetteStore.get: any current file with the fingerprint will do.   *)
Hit(key) == \E c \in cassettes : c.key = key /\ c.schema = upgrades

Init ==
  /\ name \in [Files -> SuiteNames]
  /\ cases \in [Files -> UNION {[{n} -> Prompts] : n \in CaseNames}]
  /\ loads = [f \in Files |-> TRUE]
  /\ cassettes = {}
  /\ upgrades = 0
  /\ own = {}

-----------------------------------------------------------------------------
(* Edits of the suite files.                                               *)

AddCase(f, n, p) ==
  /\ n \notin DOMAIN cases[f]
  /\ cases' = [cases EXCEPT ![f] =
                 [m \in DOMAIN @ \cup {n} |-> IF m = n THEN p ELSE @[m]]]
  /\ UNCHANGED <<name, loads, cassettes, upgrades, own>>

RemoveCase(f, n) ==
  /\ n \in DOMAIN cases[f]
  /\ cases' = [cases EXCEPT ![f] = [m \in DOMAIN @ \ {n} |-> @[m]]]
  /\ own' = own \ {<<f, n>>}
  /\ UNCHANGED <<name, loads, cassettes, upgrades>>

RenameCase(f, n, m) ==
  /\ n \in DOMAIN cases[f]
  /\ m \notin DOMAIN cases[f]
  /\ cases' = [cases EXCEPT ![f] =
                 [k \in (DOMAIN @ \ {n}) \cup {m} |-> IF k = m THEN @[n] ELSE @[k]]]
  /\ own' = own \ {<<f, n>>}
  /\ UNCHANGED <<name, loads, cassettes, upgrades>>

RenameSuite(f, s) ==
  /\ s # name[f]
  /\ name' = [name EXCEPT ![f] = s]
  /\ own' = {r \in own : r[1] # f /\ name[r[1]] # s}
  /\ UNCHANGED <<cases, loads, cassettes, upgrades>>

(* An edit breaks the file, or mends it.                                   *)
Toggle(f) ==
  /\ loads' = [loads EXCEPT ![f] = ~@]
  /\ UNCHANGED <<name, cases, cassettes, upgrades, own>>

-----------------------------------------------------------------------------

(* `dryfire run` on the file, filtered to the case, in a recording mode: a *)
(* live call unless the mode is `auto` and there is a cassette; only a     *)
(* file at the same path, of the same fingerprint, is replaced.            *)
RunCase(f, n, mode) ==
  /\ loads[f]
  /\ n \in DOMAIN cases[f]
  /\ mode = "record" \/ ~Hit(Fingerprint(f, n))
  /\ cassettes' = {c \in cassettes :
                     <<c.suite, c.case, c.key>> # <<name[f], n, Fingerprint(f, n)>>}
                  \cup {Cassette(f, n)}
  /\ own' = IF \E g \in Files \ {f} : name[g] = name[f] THEN own
            ELSE own \cup {<<f, n>>}
  /\ UNCHANGED <<name, cases, loads, upgrades>>

(* A new SCHEMA_VERSION: the files stay as they are, all of them stale.    *)
Upgrade ==
  /\ upgrades < MaxUpgrades
  /\ upgrades' = upgrades + 1
  /\ own' = {}
  /\ UNCHANGED <<name, cases, loads, cassettes>>

-----------------------------------------------------------------------------
(* prune.                                                                  *)

Parsed == {f \in Globbed : loads[f]}

HadParseFailure == Parsed # Globbed

(* The suite directories with a parsed file, and the case directories      *)
(* `valid` has for each: the file the glob finds last decides, which is    *)
(* any of them here.                                                       *)
Valid ==
  {v \in [{name[f] : f \in Parsed} -> {DOMAIN cases[f] : f \in Parsed}] :
     \A s \in DOMAIN v : \E f \in Parsed : name[f] = s /\ v[s] = DOMAIN cases[f]}

(* Faulty: a broken file protects nothing.                                 *)
PrunableUnprotected(c, valid) ==
  IF c.suite \in DOMAIN valid
  THEN c.case \notin valid[c.suite] \/ c.schema # upgrades
  ELSE TRUE

(* Faulty: keeps the stale cassettes of live cases.                        *)
PrunableOrphan(c, valid) ==
  IF c.suite \in DOMAIN valid THEN c.case \notin valid[c.suite]
                              ELSE ~HadParseFailure

(* _classify: an orphaned case, a stale file of a live one, or a suite     *)
(* that no file has, unless one failed to load.                            *)
Prunable(c, valid) ==
  IF c.suite \in DOMAIN valid
  THEN c.case \notin valid[c.suite] \/ c.schema # upgrades
  ELSE ~HadParseFailure

find_prunable(valid) == {c \in cassettes : Prunable(c, valid)}

PruneYes ==
  /\ \E valid \in Valid : cassettes' = cassettes \ find_prunable(valid)
  /\ UNCHANGED <<name, cases, loads, upgrades, own>>

Edit(f) ==
  \/ \E n \in CaseNames, p \in Prompts : AddCase(f, n, p)
  \/ \E n \in CaseNames : RemoveCase(f, n)
  \/ \E n, m \in CaseNames : RenameCase(f, n, m)
  \/ \E s \in SuiteNames : RenameSuite(f, s)
  \/ Toggle(f)

Next ==
  \/ \E f \in Files :
       Edit(f) \/ \E n \in CaseNames, mode \in {"auto", "record"} : RunCase(f, n, mode)
  \/ Upgrade
  \/ PruneYes

Spec == Init /\ [][Next]_vars

-----------------------------------------------------------------------------

(* A broken spec causes no data loss: a case that was recorded and not     *)
(* edited since keeps its own recording, however often files broke and     *)
(* were mended, other cases and suites were renamed or removed, and prune  *)
(* ran in between; provided the globs find its file and its suite has its  *)
(* name to itself (two files that share one overwrite each other's entry   *)
(* in prune's `valid`).                                                    *)
OwnRecordingsReplay ==
  \A r \in own : r[1] \in Globbed => Cassette(r[1], r[2]) \in cassettes

(* The file has this case in this suite, and this version reads the        *)
(* recording; whether the file loads does not matter.                      *)
LiveOf(c, f) ==
  c.schema = upgrades /\ c.suite = name[f] /\ c.case \in DOMAIN cases[f]

Dead == {c \in cassettes : \A f \in Files : ~LiveOf(c, f)}

HasNameAlone(f, among) == \A g \in among : name[g] = name[f] => g = f

(* Dead recordings come only from edits and format changes, never from a   *)
(* run, and prune takes them and no others: when every file loads nothing  *)
(* stays that no case has; while a file is broken the directories of the   *)
(* suites that load are still cleaned, of the stale files that stand       *)
(* beside a case's new ones too; and nothing goes that a file, loading or  *)
(* not, has as the only one of its name.                                   *)
PruneTakesTheDead ==
  [][/\ PruneYes =>
          /\ ~HadParseFailure =>
               \A c \in cassettes' : \E f \in Globbed : LiveOf(c, f)
          /\ \A f \in Parsed : HasNameAlone(f, Parsed) =>
               \A c \in cassettes' : c.suite = name[f] => LiveOf(c, f)
          /\ \A f \in Globbed : HasNameAlone(f, Globbed) =>
               \A c \in cassettes \ cassettes' : ~LiveOf(c, f)
     /\ (\E f \in Files : Edit(f)) \/ Upgrade \/ Dead' \subseteq Dead]_vars

============================================================================
