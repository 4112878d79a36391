---------------------------- MODULE PruneProofs ----------------------------
(***************************************************************************)
(* prune loses no recording of a case whose suite has its name to itself,  *)
(* and leaves no dead one that it can know of, for any number of suite     *)
(* files, names, cases and format changes.                                 *)
(***************************************************************************)
EXTENDS Prune, TLAPS

Types ==
  /\ name \in [Files -> SuiteNames]
  /\ cases = [f \in Files |-> cases[f]]

(* A recorded case is still there, its suite's name is its own, and its    *)
(* cassette is in place.                                                   *)
KeptFor(f, n) ==
  /\ n \in DOMAIN cases[f]
  /\ \A g \in Files : name[g] = name[f] => g = f
  /\ f \in Globbed => Cassette(f, n) \in cassettes

Kept ==
  /\ own \subseteq Files \X CaseNames
  /\ \A f \in Files, n \in CaseNames : <<f, n>> \in own => KeptFor(f, n)

PInv == Types /\ Kept

(* What an action must do to a recorded case to keep it recorded.          *)
LEMMA EditKeeps ==
  ASSUME NEW f \in Files, NEW n \in CaseNames, Types, Kept, <<f, n>> \in own,
         PruneAssumption,
         name' = name, cassettes' = cassettes, upgrades' = upgrades,
         n \in DOMAIN cases'[f], cases'[f][n] = cases[f][n]
  PROVE  KeptFor(f, n)'
<1>1. KeptFor(f, n)
  BY DEF Kept
<1>2. Cassette(f, n)' = Cassette(f, n)
  BY DEF Cassette, Fingerprint
<1> QED
  BY <1>1, <1>2 DEF KeptFor

(* Adding, removing or renaming another case keeps the recorded ones.      *)
LEMMA CaseEdits ==
  ASSUME PInv, PruneAssumption, NEW f \in Files, NEW n \in CaseNames,
         \/ \E p \in Prompts : AddCase(f, n, p)
         \/ RemoveCase(f, n)
         \/ \E m \in CaseNames : RenameCase(f, n, m)
  PROVE  PInv'
<1> USE DEF PInv
<1>1. CASE \E p \in Prompts : AddCase(f, n, p)
  <2>1. PICK p \in Prompts : AddCase(f, n, p)
    BY <1>1
  <2>2. Types' /\ own' = own /\ name' = name /\ cassettes' = cassettes
        /\ upgrades' = upgrades
    BY <2>1 DEF AddCase, Types
  <2>3. ASSUME NEW g \in Files, NEW k \in CaseNames, <<g, k>> \in own
        PROVE  KeptFor(g, k)'
    <3>1. k \in DOMAIN cases[g]
      BY <2>3 DEF Kept, KeptFor
    <3>2. k \in DOMAIN cases'[g] /\ cases'[g][k] = cases[g][k]
      BY <2>1, <3>1 DEF AddCase, Types
    <3> QED
      BY <2>2, <2>3, <3>2, EditKeeps
  <2> QED
    BY <2>2, <2>3 DEF Kept
<1>2. CASE RemoveCase(f, n)
  <2>1. Types' /\ own' = own \ {<<f, n>>} /\ name' = name /\ cassettes' = cassettes
        /\ upgrades' = upgrades
    BY <1>2 DEF RemoveCase, Types
  <2>2. ASSUME NEW g \in Files, NEW k \in CaseNames, <<g, k>> \in own'
        PROVE  KeptFor(g, k)'
    <3>1. <<g, k>> \in own /\ k \in DOMAIN cases[g] /\ (g # f \/ k # n)
      BY <2>1, <2>2 DEF Kept, KeptFor
    <3>2. k \in DOMAIN cases'[g] /\ cases'[g][k] = cases[g][k]
      BY <1>2, <3>1 DEF RemoveCase, Types
    <3> QED
      BY <2>1, <3>1, <3>2, EditKeeps
  <2> QED
    BY <2>1, <2>2 DEF Kept
<1>3. CASE \E m \in CaseNames : RenameCase(f, n, m)
  <2>1. PICK m \in CaseNames : RenameCase(f, n, m)
    BY <1>3
  <2>2. Types' /\ own' = own \ {<<f, n>>} /\ name' = name /\ cassettes' = cassettes
        /\ upgrades' = upgrades
    BY <2>1 DEF RenameCase, Types
  <2>3. ASSUME NEW g \in Files, NEW k \in CaseNames, <<g, k>> \in own'
        PROVE  KeptFor(g, k)'
    <3>1. <<g, k>> \in own /\ k \in DOMAIN cases[g] /\ (g # f \/ k # n)
      BY <2>2, <2>3 DEF Kept, KeptFor
    <3>2. k \in DOMAIN cases'[g] /\ cases'[g][k] = cases[g][k]
      BY <2>1, <3>1 DEF RenameCase, Types
    <3> QED
      BY <2>2, <3>1, <3>2, EditKeeps
  <2> QED
    BY <2>2, <2>3 DEF Kept
<1> QED
  BY <1>1, <1>2, <1>3

(* A suite that takes another suite's name ends the claim of both.         *)
LEMMA SuiteRenamed ==
  ASSUME PInv, NEW f \in Files, NEW s \in SuiteNames, RenameSuite(f, s)
  PROVE  PInv'
<1> USE DEF PInv
<1>1. Types'
  BY DEF RenameSuite, Types
<1>2. ASSUME NEW g \in Files, NEW k \in CaseNames, <<g, k>> \in own'
      PROVE  KeptFor(g, k)'
  <2>1. <<g, k>> \in own /\ g # f /\ name[g] # s
    BY <1>2 DEF RenameSuite
  <2>2. KeptFor(g, k)
    BY <2>1 DEF Kept
  <2>3. name'[g] = name[g] /\ name'[f] = s
        /\ \A h \in Files : h # f => name'[h] = name[h]
    BY <2>1 DEF RenameSuite, Types
  <2>4. Cassette(g, k)' = Cassette(g, k)
    BY <2>3 DEF Cassette, Fingerprint, RenameSuite
  <2> QED
    BY <2>1, <2>2, <2>3, <2>4 DEF KeptFor, RenameSuite
<1> QED
  BY <1>1, <1>2 DEF Kept, RenameSuite

(* A recording only replaces the file at its own path.                     *)
LEMMA CaseRun ==
  ASSUME PInv, NEW f \in Files, NEW n \in CaseNames,
         NEW mode \in {"auto", "record"}, RunCase(f, n, mode)
  PROVE  PInv'
<1> USE DEF PInv
<1>1. Types' /\ name' = name /\ cases' = cases /\ upgrades' = upgrades
  BY DEF RunCase, Types
<1>2. own' \subseteq Files \X CaseNames
  BY DEF RunCase, Kept
<1>3. ASSUME NEW g \in Files, NEW k \in CaseNames, <<g, k>> \in own'
      PROVE  KeptFor(g, k)'
  <2>1. Cassette(g, k)' = Cassette(g, k)
    BY <1>1 DEF Cassette, Fingerprint
  <2>2. CASE g = f /\ k = n
    <3>1. Cassette(f, n) \in cassettes' /\ n \in DOMAIN cases[f]
      BY DEF RunCase
    <3>2. \A h \in Files : name[h] = name[f] => h = f
      BY <1>3, <2>2 DEF RunCase, Kept, KeptFor
    <3> QED
      BY <1>1, <2>1, <2>2, <3>1, <3>2 DEF KeptFor
  <2>3. CASE g # f \/ k # n
    <3>1. <<g, k>> \in own
      BY <1>3, <2>3 DEF RunCase
    <3>2. KeptFor(g, k)
      BY <3>1 DEF Kept
    <3>3. ASSUME g \in Globbed
          PROVE  Cassette(g, k) \in cassettes'
      <4>1. Cassette(g, k) \in cassettes
        BY <3>2, <3>3 DEF KeptFor
      <4>2. name[g] # name[f] \/ k # n
        BY <2>3, <3>2 DEF KeptFor
      <4>3. Cassette(g, k).suite = name[g] /\ Cassette(g, k).case = k
        BY DEF Cassette
      <4> QED
        BY <4>1, <4>2, <4>3 DEF RunCase
    <3> QED
      BY <1>1, <2>1, <3>2, <3>3 DEF KeptFor
  <2> QED
    BY <2>2, <2>3
<1> QED
  BY <1>1, <1>2, <1>3 DEF Kept

(* prune knows the suite of a recorded case, or protects its directory.    *)
LEMMA Pruned ==
  ASSUME PInv, PruneAssumption, PruneYes
  PROVE  PInv'
<1> USE DEF PInv
<1>1. Types' /\ own' = own /\ name' = name /\ cases' = cases /\ upgrades' = upgrades
  BY DEF PruneYes, find_prunable, Types
<1>2. ASSUME NEW g \in Files, NEW k \in CaseNames, <<g, k>> \in own
      PROVE  KeptFor(g, k)'
  <2>1. KeptFor(g, k)
    BY <1>2 DEF Kept
  <2>2. Cassette(g, k)' = Cassette(g, k)
    BY <1>1 DEF Cassette, Fingerprint
  <2>3. ASSUME g \in Globbed
        PROVE  Cassette(g, k) \in cassettes'
    <3> DEFINE c == Cassette(g, k)
    <3>1. c \in cassettes /\ c.suite = name[g] /\ c.case = k /\ c.schema = upgrades
      BY <2>1, <2>3 DEF KeptFor, Cassette
    <3>2. PICK valid \in Valid : cassettes' = {d \in cassettes : ~Prunable(d, valid)}
      BY DEF PruneYes, find_prunable
    <3>3. CASE name[g] \in DOMAIN valid
      <4>1. PICK f \in Parsed : name[f] = name[g] /\ valid[name[g]] = DOMAIN cases[f]
        BY <3>2, <3>3 DEF Valid
      <4>2. f = g
        BY <2>1, <4>1 DEF KeptFor, Parsed, PruneAssumption
      <4>3. k \in valid[name[g]]
        BY <2>1, <4>1, <4>2 DEF KeptFor
      <4> QED
        BY <3>1, <3>2, <3>3, <4>3 DEF Prunable
    <3>4. CASE name[g] \notin DOMAIN valid
      <4>1. g \notin Parsed
        BY <3>2, <3>4 DEF Valid
      <4>2. HadParseFailure
        BY <2>3, <4>1 DEF HadParseFailure
      <4> QED
        BY <3>1, <3>2, <3>4, <4>2 DEF Prunable
    <3> QED
      BY <3>3, <3>4
  <2> QED
    BY <1>1, <2>1, <2>2, <2>3 DEF KeptFor
<1> QED
  BY <1>1, <1>2 DEF Kept

(* A broken or mended file, and a new format.                              *)
LEMMA OtherSteps ==
  ASSUME PInv, (\E f \in Files : Toggle(f)) \/ Upgrade \/ UNCHANGED vars
  PROVE  PInv'
<1> USE DEF PInv
<1>1. CASE (\E f \in Files : Toggle(f)) \/ UNCHANGED vars
  <2>1. UNCHANGED <<name, cases, cassettes, upgrades, own>>
    BY <1>1 DEF Toggle, vars
  <2> QED
    BY <2>1 DEF Types, Kept, KeptFor, Cassette, Fingerprint
<1>2. CASE Upgrade
  <2>1. own' = {} /\ UNCHANGED <<name, cases>>
    BY <1>2 DEF Upgrade
  <2> QED
    BY <2>1 DEF Types, Kept
<1> QED
  BY <1>1, <1>2

LEMMA Initially == Init => PInv
  BY DEF Init, PInv, Types, Kept

LEMMA Stepwise == PInv /\ [Next]_vars => PInv'
<1> SUFFICES ASSUME PInv, [Next]_vars
             PROVE  PInv'
  OBVIOUS
<1>1. ASSUME NEW f \in Files, Edit(f)
      PROVE  PInv'
  BY <1>1, CaseEdits, SuiteRenamed, OtherSteps, PruneAssumption DEF Edit
<1>2. ASSUME NEW f \in Files, NEW n \in CaseNames, NEW mode \in {"auto", "record"},
             RunCase(f, n, mode)
      PROVE  PInv'
  BY <1>2, CaseRun
<1>3. CASE PruneYes
  BY <1>3, Pruned, PruneAssumption
<1>4. CASE Upgrade \/ UNCHANGED vars
  BY <1>4, OtherSteps
<1> QED
  BY <1>1, <1>2, <1>3, <1>4 DEF Next

LEMMA Kind == PInv => OwnRecordingsReplay
<1> SUFFICES ASSUME PInv, NEW r \in own, r[1] \in Globbed
             PROVE  Cassette(r[1], r[2]) \in cassettes
  BY DEF OwnRecordingsReplay
<1>1. r \in Files \X CaseNames /\ r = <<r[1], r[2]>>
  BY DEF PInv, Kept
<1> QED
  BY <1>1 DEF PInv, Kept, KeptFor

(* prune's safety rule ("a broken spec must not cause data loss"): a case  *)
(* whose suite has its name to itself keeps what it recorded, whatever was *)
(* edited, broken, mended and pruned since.                                *)
THEOREM NoDataLoss == Spec => []OwnRecordingsReplay
<1>1. Spec => []PInv
  BY Initially, Stepwise, PTL DEF Spec
<1> QED
  BY <1>1, Kind, PTL

(* What prune leaves in the directory of a suite that loads is live for a  *)
(* file that loads under this name, whichever of two decided.              *)
LEMMA LeftInParsed ==
  ASSUME NEW valid \in Valid, NEW c \in cassettes \ find_prunable(valid),
         c.suite \in DOMAIN valid
  PROVE  \E f \in Parsed : LiveOf(c, f)
<1>1. ~Prunable(c, valid)
  BY DEF find_prunable
<1>2. c.case \in valid[c.suite] /\ c.schema = upgrades
  BY <1>1 DEF Prunable
<1>3. PICK f \in Parsed : name[f] = c.suite /\ valid[c.suite] = DOMAIN cases[f]
  BY DEF Valid
<1> QED
  BY <1>2, <1>3 DEF LiveOf

(* What prune deletes no file has that is the only one of its name, whether*)
(* the file loads or not.                                                  *)
LEMMA TakenIsDead ==
  ASSUME NEW valid \in Valid, NEW c \in find_prunable(valid),
         NEW f \in Globbed, HasNameAlone(f, Globbed)
  PROVE  ~LiveOf(c, f)
<1> SUFFICES ASSUME LiveOf(c, f)
             PROVE  FALSE
  OBVIOUS
<1>1. Prunable(c, valid) /\ c.suite = name[f] /\ c.case \in DOMAIN cases[f]
      /\ c.schema = upgrades
  BY DEF find_prunable, LiveOf
<1>2. CASE name[f] \in DOMAIN valid
  <2>1. PICK g \in Parsed : name[g] = name[f] /\ valid[name[f]] = DOMAIN cases[g]
    BY <1>2 DEF Valid
  <2>2. g = f
    BY <2>1 DEF HasNameAlone, Parsed
  <2> QED
    BY <1>1, <1>2, <2>1, <2>2 DEF Prunable
<1>3. CASE name[f] \notin DOMAIN valid
  <2>1. f \notin Parsed
    BY <1>3 DEF Valid
  <2> QED
    BY <1>1, <1>3, <2>1 DEF Prunable, HadParseFailure
<1> QED
  BY <1>2, <1>3

(* One run of prune.                                                       *)
LEMMA PruneStep ==
  ASSUME PruneYes, PruneAssumption
  PROVE  /\ ~HadParseFailure =>
              \A c \in cassettes' : \E f \in Globbed : LiveOf(c, f)
         /\ \A f \in Parsed : HasNameAlone(f, Parsed) =>
              \A c \in cassettes' : c.suite = name[f] => LiveOf(c, f)
         /\ \A f \in Globbed : HasNameAlone(f, Globbed) =>
              \A c \in cassettes \ cassettes' : ~LiveOf(c, f)
         /\ Dead' \subseteq Dead
<1>1. PICK valid \in Valid : cassettes' = cassettes \ find_prunable(valid)
  BY DEF PruneYes
<1>2. DOMAIN valid = {name[f] : f \in Parsed}
  BY DEF Valid
<1>3. ASSUME ~HadParseFailure, NEW c \in cassettes'
      PROVE  \E f \in Globbed : LiveOf(c, f)
  <2>1. c \in cassettes \ find_prunable(valid) /\ ~Prunable(c, valid)
    BY <1>1, <1>3 DEF find_prunable
  <2>2. c.suite \in DOMAIN valid
    BY <1>3, <2>1 DEF Prunable
  <2> QED
    BY <2>1, <2>2, LeftInParsed DEF Parsed
<1>4. ASSUME NEW f \in Parsed, HasNameAlone(f, Parsed), NEW c \in cassettes',
             c.suite = name[f]
      PROVE  LiveOf(c, f)
  <2>1. PICK g \in Parsed : LiveOf(c, g)
    BY <1>1, <1>2, <1>4, LeftInParsed
  <2> QED
    BY <1>4, <2>1 DEF HasNameAlone, LiveOf
<1>5. ASSUME NEW f \in Globbed, HasNameAlone(f, Globbed),
             NEW c \in cassettes \ cassettes'
      PROVE  ~LiveOf(c, f)
  <2>1. c \in find_prunable(valid)
    BY <1>1, <1>5
  <2> QED
    BY <1>5, <2>1, TakenIsDead
<1>6. Dead' \subseteq Dead
  BY <1>1 DEF Dead, LiveOf, PruneYes
<1> QED
  BY <1>3, <1>4, <1>5, <1>6

(* A run only adds what the case it ran has.                               *)
LEMMA RunAddsLive ==
  ASSUME NEW f \in Files, NEW n \in CaseNames,
         NEW mode \in {"auto", "record"}, RunCase(f, n, mode)
  PROVE  Dead' \subseteq Dead
<1> SUFFICES ASSUME NEW c \in Dead'
             PROVE  c \in Dead
  OBVIOUS
<1>1. UNCHANGED <<name, cases, upgrades>>
  BY DEF RunCase
<1>2. c \in cassettes' /\ \A g \in Files : ~LiveOf(c, g)
  BY <1>1 DEF Dead, LiveOf
<1>3. LiveOf(Cassette(f, n), f)
  BY DEF LiveOf, Cassette, RunCase
<1>4. c \in cassettes
  BY <1>2, <1>3 DEF RunCase
<1> QED
  BY <1>2, <1>4 DEF Dead

(* prune leaves no residue and takes nothing else: after it, what is left  *)
(* in the directories it knows is live, stale files beside new ones        *)
(* included; what it took was dead; and no run makes anything dead.        *)
THEOREM NoResidue == Spec => PruneTakesTheDead
<1> DEFINE
      Takes == PruneYes =>
        /\ ~HadParseFailure =>
             \A c \in cassettes' : \E f \in Globbed : LiveOf(c, f)
        /\ \A f \in Parsed : HasNameAlone(f, Parsed) =>
             \A c \in cassettes' : c.suite = name[f] => LiveOf(c, f)
        /\ \A f \in Globbed : HasNameAlone(f, Globbed) =>
             \A c \in cassettes \ cassettes' : ~LiveOf(c, f)
      Dies == (\E f \in Files : Edit(f)) \/ Upgrade \/ Dead' \subseteq Dead
<1>1. Takes
  BY PruneStep, PruneAssumption
<1>2. Next => Dies
  <2>1. PruneYes => Dead' \subseteq Dead
    BY PruneStep, PruneAssumption
  <2> QED
    BY <2>1, RunAddsLive DEF Next
<1> QED
  BY <1>1, <1>2, PTL DEF Spec, PruneTakesTheDead

============================================================================
