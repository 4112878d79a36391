------------------------- MODULE SpecLoadingProofs --------------------------
(***************************************************************************)
(* For any number of suite files, whatever mistakes are in them, in the    *)
(* file that they refer to and in the environment: a load that no text     *)
(* stops shows the mistakes where they are and nothing else, or nothing    *)
(* where one cannot be rendered, and who mends what was shown is sent back *)
(* only for what was hidden behind it.  And for any command over the files *)
(* that load, the plan has the cases that were chosen, in order, each with *)
(* the settings that were said for it.                                     *)
(***************************************************************************)
EXTENDS Planning, FiniteSetTheorems, FunctionTheorems, SequenceTheorems,
        WellFoundedInduction, TLAPS

(* What a file says at a place are marks of that place.                    *)
Marked ==
  /\ \A f \in Files : \A p \in Places : docs[f][p] \subseteq Marks[p]
  /\ target = None \/ target \subseteq TargetMarks
  /\ env \in {"unset", "word", "number"}

(* What an error of load_suite says.                                       *)
Sayings == {"ref", "unset", "kind", "args", "impl", "wrong", "outcomes"}

(* The stages as one condition: what is said of a place of a file.         *)
Reported(f, p, s) ==
  \/ s = "ref" /\ p = "tool" /\ Dangling(f)
  \/ s = "unset" /\ env = "unset" /\ "var" \in Resolved(f, p)
  \/ /\ s = "kind" /\ p = "entry"
     /\ "pair" \notin Interpolated(f, p) /\ "kind" \in Interpolated(f, p)
  \/ /\ s = "args" /\ p = "entry"
     /\ "pair" \notin Interpolated(f, p) /\ "kind" \notin Interpolated(f, p)
     /\ "args" \in Interpolated(f, p) \/ "args2" \in Interpolated(f, p)
  \/ s = "impl" /\ p = "rule" /\ "impl" \in Interpolated(f, p)
  \/ /\ s = "wrong" /\ ~(p = "tool" /\ Dangling(f))
     /\ "wrong" \in Interpolated(f, p) \/ "nested" \in Interpolated(f, p)
  \/ /\ s = "outcomes" /\ p = "rule"
     /\ "outcomes" \in Interpolated(f, p) /\ "wrong" \notin Interpolated(f, p)

(* load_suite reports under that condition and no other.                   *)
LEMMA LoadSuiteReports ==
  ASSUME NEW f, NEW e
  PROVE  e \in LoadSuite(f) <=>
           \E p \in Places : \E s \in Sayings : e = Error(f, p, s) /\ Reported(f, p, s)
<1> DEFINE Found(p, s) == e = Error(f, p, s)
<1>1. e \in RefErrors(f) <=> Dangling(f) /\ Found("tool", "ref")
  BY DEF RefErrors
<1>2. e \in EnvErrors(f) <=>
        \E p \in Places : Found(p, "unset") /\ env = "unset" /\ "var" \in Resolved(f, p)
  BY DEF EnvErrors
<1>3. e \in KindErrors(f) <=>
        /\ "pair" \notin Interpolated(f, "entry")
        /\ \/ "kind" \in Interpolated(f, "entry") /\ Found("entry", "kind")
           \/ /\ "kind" \notin Interpolated(f, "entry") /\ Found("entry", "args")
              /\ "args" \in Interpolated(f, "entry") \/ "args2" \in Interpolated(f, "entry")
  BY DEF KindErrors
<1>4. e \in ImplErrors(f) <=> "impl" \in Interpolated(f, "rule") /\ Found("rule", "impl")
  BY DEF ImplErrors
<1>5. e \in ModelErrors(f) <=>
        \/ \E p \in Places :
             /\ Found(p, "wrong")
             /\ "wrong" \in Interpolated(f, p) \/ "nested" \in Interpolated(f, p)
        \/ /\ "outcomes" \in Interpolated(f, "rule") /\ "wrong" \notin Interpolated(f, "rule")
           /\ Found("rule", "outcomes")
  <2>1. Interpolated(f, "rule") \cap {"wrong", "outcomes"} = {"outcomes"} <=>
          "outcomes" \in Interpolated(f, "rule") /\ "wrong" \notin Interpolated(f, "rule")
    OBVIOUS
  <2>2. \A p : Interpolated(f, p) \cap {"wrong", "nested"} # {} <=>
          "wrong" \in Interpolated(f, p) \/ "nested" \in Interpolated(f, p)
    OBVIOUS
  <2> QED  BY <2>1, <2>2 DEF ModelErrors
<1>6. \A p, s : Found(p, s) => e.place = p
  BY DEF Error
<1>7. Poisoned(f) = IF Dangling(f) THEN {"tool"} ELSE {}
  <2>1. Error(f, "tool", "ref").place = "tool"
    BY DEF Error
  <2>2. CASE Dangling(f)
    <3>1. RefErrors(f) = {Error(f, "tool", "ref")}
      BY <2>2 DEF RefErrors
    <3>2. Poisoned(f) = {Error(f, "tool", "ref").place}
      BY <3>1 DEF Poisoned
    <3> QED  BY <2>1, <2>2, <3>2
  <2>3. CASE ~Dangling(f)
    BY <2>3 DEF Poisoned, RefErrors
  <2> QED  BY <2>2, <2>3
<1>8. e \in LoadSuite(f) <=>
        \/ e \in RefErrors(f) \/ e \in EnvErrors(f) \/ e \in KindErrors(f) \/ e \in ImplErrors(f)
        \/ e \in ModelErrors(f) /\ e.place \notin Poisoned(f)
  BY DEF LoadSuite
<1>9. /\ "tool" \in Places /\ "entry" \in Places /\ "rule" \in Places
      /\ "ref" \in Sayings /\ "unset" \in Sayings /\ "kind" \in Sayings
      /\ "args" \in Sayings /\ "impl" \in Sayings /\ "wrong" \in Sayings
      /\ "outcomes" \in Sayings
  BY DEF Places, Sayings
<1> HIDE DEF Found
<1>10. ASSUME e \in LoadSuite(f)
       PROVE  \E p \in Places : \E s \in Sayings : Found(p, s) /\ Reported(f, p, s)
  <2>1. CASE e \in RefErrors(f)
    BY <1>1, <1>9, <2>1 DEF Reported
  <2>2. CASE e \in EnvErrors(f)
    BY <1>2, <1>9, <2>2 DEF Reported
  <2>3. CASE e \in KindErrors(f)
    <3>1. CASE "kind" \in Interpolated(f, "entry")
      <4>1. Found("entry", "kind") /\ Reported(f, "entry", "kind")
        BY <1>3, <2>3, <3>1 DEF Reported
      <4> QED  BY <1>9, <4>1
    <3>2. CASE "kind" \notin Interpolated(f, "entry")
      <4>1. Found("entry", "args") /\ Reported(f, "entry", "args")
        BY <1>3, <2>3, <3>2 DEF Reported
      <4> QED  BY <1>9, <4>1
    <3> QED  BY <3>1, <3>2
  <2>4. CASE e \in ImplErrors(f)
    <3>1. Found("rule", "impl") /\ Reported(f, "rule", "impl")
      BY <1>4, <2>4 DEF Reported
    <3> QED  BY <1>9, <3>1
  <2>5. CASE e \in ModelErrors(f) /\ e.place \notin Poisoned(f)
    <3>1. ASSUME NEW p \in Places, Found(p, "wrong"),
                 "wrong" \in Interpolated(f, p) \/ "nested" \in Interpolated(f, p)
          PROVE  Reported(f, p, "wrong")
      <4>1. ~(p = "tool" /\ Dangling(f))
        BY <1>6, <1>7, <2>5, <3>1
      <4> QED  BY <3>1, <4>1 DEF Reported
    <3>2. ASSUME "outcomes" \in Interpolated(f, "rule"), "wrong" \notin Interpolated(f, "rule"),
                 Found("rule", "outcomes")
          PROVE  Found("rule", "outcomes") /\ Reported(f, "rule", "outcomes")
      BY <3>2 DEF Reported
    <3> QED  BY <1>5, <1>9, <2>5, <3>1, <3>2
  <2> QED  BY <1>8, <1>10, <2>1, <2>2, <2>3, <2>4, <2>5
<1>11. ASSUME NEW p \in Places, NEW s \in Sayings, Found(p, s), Reported(f, p, s)
       PROVE  e \in LoadSuite(f)
  <2>1. CASE s = "ref" /\ p = "tool" /\ Dangling(f)
    BY <1>1, <1>8, <1>11, <2>1
  <2>2. CASE s = "unset" /\ env = "unset" /\ "var" \in Resolved(f, p)
    BY <1>2, <1>8, <1>11, <2>2
  <2>3. CASE s \in {"kind", "args"}
    BY <1>3, <1>8, <1>11, <2>3 DEF Reported
  <2>4. CASE s = "impl" /\ p = "rule"
    BY <1>4, <1>8, <1>11, <2>4 DEF Reported
  <2>5. CASE s \in {"wrong", "outcomes"}
    <3>1. e.place \notin Poisoned(f)
      BY <1>6, <1>7, <1>11, <2>5 DEF Reported
    <3> QED  BY <1>5, <1>8, <1>11, <2>5, <3>1 DEF Reported
  <2> QED  BY <1>11, <2>1, <2>2, <2>3, <2>4, <2>5 DEF Reported
<1> QED  BY <1>10, <1>11 DEF Found

LEMMA LoadSuiteReportsThen ==
  (\A f, e : e \in LoadSuite(f) <=>
     \E p \in Places : \E s \in Sayings : e = Error(f, p, s) /\ Reported(f, p, s))'
<1>1. \A f, e : e \in LoadSuite(f) <=>
        \E p \in Places : \E s \in Sayings : e = Error(f, p, s) /\ Reported(f, p, s)
  BY LoadSuiteReports
<1> QED  BY <1>1, PTL

(* Without a text that is not YAML, something is said of a place exactly   *)
(* when there is a mistake.                                                *)
LEMMA MistakesAreReported ==
  ASSUME NEW f \in Files, NEW p \in Places, Marked, Raises(f) = {}
  PROVE  Mistaken(f, p) <=> \E s \in Sayings : Reported(f, p, s)
<1>1. docs[f][p] \subseteq Marks[p]
  BY DEF Marked
<1>2. "yaml" \notin docs[f]["text"] /\ "yaml" \notin Resolved(f, "tool")
  BY DEF Raises
<1>3. /\ "ref" \in Sayings /\ "unset" \in Sayings /\ "kind" \in Sayings
      /\ "args" \in Sayings /\ "impl" \in Sayings /\ "wrong" \in Sayings
      /\ "outcomes" \in Sayings
  BY DEF Sayings
<1>4. CASE p = "text"
  <2>1. docs[f][p] = {}
    BY <1>1, <1>2, <1>4 DEF Marks
  <2> QED  BY <1>4, <2>1 DEF Mistaken, Reported, Interpolated, Resolved, Substituted
<1>5. CASE p = "system"
  <2>1. docs[f][p] \subseteq {"wrong", "var"}
    BY <1>1, <1>5 DEF Marks
  <2> QED  BY <1>3, <1>5, <2>1 DEF Mistaken, Reported, Interpolated, Resolved, Substituted
<1>6. CASE p = "max_turns"
  <2>1. docs[f][p] \subseteq {"wrong", "var"}
    BY <1>1, <1>6 DEF Marks
  <2> QED  BY <1>3, <1>6, <2>1 DEF Mistaken, Reported, Interpolated, Resolved, Substituted
<1>7. CASE p = "tool"
  <2>1. docs[f][p] \subseteq {"wrong", "ref"}
    BY <1>1, <1>7 DEF Marks
  <2>2. target = None \/ target \subseteq {"yaml", "wrong", "var", "nested"}
    BY DEF Marked, TargetMarks
  <2>3. CASE Dangling(f)
    BY <1>3, <1>7, <2>3 DEF Mistaken, Reported
  <2>4. CASE Refers(f) /\ target # None
    <3>1. Resolved(f, p) = target
      BY <1>7, <2>4 DEF Resolved
    <3>2. target \subseteq {"wrong", "var", "nested"}
      BY <1>2, <1>7, <2>2, <2>4, <3>1
    <3> QED  BY <1>3, <1>7, <2>4, <3>1, <3>2 DEF Mistaken, Reported, Interpolated, Substituted, Dangling
  <2>5. CASE ~Refers(f)
    <3>1. Resolved(f, p) = docs[f][p] /\ docs[f][p] \subseteq {"wrong"}
      BY <1>7, <2>1, <2>5 DEF Resolved, Refers
    <3> QED  BY <1>3, <1>7, <2>5, <3>1 DEF Mistaken, Reported, Interpolated, Substituted, Dangling
  <2> QED  BY <2>3, <2>4, <2>5 DEF Dangling
<1>8. CASE p = "entry"
  <2>1. docs[f][p] \subseteq {"kind", "args", "args2", "pair", "var"}
    BY <1>1, <1>8 DEF Marks
  <2>2. Resolved(f, p) = docs[f][p]
    BY <1>8 DEF Resolved
  <2>3. CASE "pair" \in docs[f][p]
    BY <1>3, <1>8, <2>1, <2>2, <2>3 DEF Mistaken, Reported, Interpolated, Substituted
  <2>4. CASE "pair" \notin docs[f][p]
    BY <1>3, <1>8, <2>1, <2>2, <2>4 DEF Mistaken, Reported, Interpolated, Substituted
  <2> QED  BY <2>3, <2>4
<1>9. CASE p = "rule"
  <2>1. docs[f][p] \subseteq {"wrong", "impl", "outcomes"}
    BY <1>1, <1>9 DEF Marks
  <2>2. Interpolated(f, p) = docs[f][p]
    BY <1>9, <2>1 DEF Interpolated, Resolved
  <2> QED  BY <1>3, <1>9, <2>1, <2>2 DEF Mistaken, Reported, Resolved
<1> QED  BY <1>4, <1>5, <1>6, <1>7, <1>8, <1>9 DEF Places

(* A set of numbers has a least one.                                       *)
LEMMA LeastOf ==
  ASSUME NEW S \in SUBSET Nat, S # {}
  PROVE  Min(S) \in S /\ \A y \in S : Min(S) <= y
<1>1. IsWellFoundedOn(OpToRel(<, Nat), Nat)
  BY NatLessThanWellFounded, Zenon
<1>2. PICK x \in S : \A y \in S : ~(<<y, x>> \in OpToRel(<, Nat))
  BY <1>1, WFMin
<1>3. \A y \in S : ~(y < x)
  BY <1>2 DEF OpToRel
<1>4. \A y \in S : x <= y
  BY <1>3
<1> QED  BY <1>4 DEF Min

LEMMA FirstOf ==
  ASSUME NEW S \in SUBSET Files, S # {}
  PROVE  Min(S) \in S
<1>1. Files \subseteq Nat
  BY SpecLoadingAssumption DEF Files
<1>2. S \in SUBSET Nat
  BY <1>1
<1> QED  BY <1>2, LeastOf

(* A command that accepts the files has nothing to say of any of them.     *)
LEMMA NothingLoaded ==
  Load = {} => Broken = {} /\ \A f \in Files : Raises(f) = {} /\ LoadSuite(f) = {}
<1>1. SUFFICES ASSUME Load = {}
               PROVE  Broken = {} /\ \A f \in Files : Raises(f) = {} /\ LoadSuite(f) = {}
  OBVIOUS
<1>2. Broken = {}
  <2>1. SUFFICES ASSUME Broken # {}  PROVE FALSE
    OBVIOUS
  <2>2. Min(Broken) \in Broken
    BY <2>1, FirstOf DEF Broken
  <2> QED  BY <1>1, <2>1, <2>2 DEF Load, Broken
<1> QED  BY <1>1, <1>2 DEF Load, Broken

(* What is said of a place when no text stops the load.                    *)
LEMMA ShownIsReported ==
  ASSUME NEW f \in Files, NEW p \in Places, Broken = {}, shown = Load
  PROVE  /\ Says(At(f, p)) = {s \in Sayings : Reported(f, p, s)}
         /\ Says(At(f, p)) \subseteq Says(shown)
         /\ At(f, p) # {} <=> \E s \in Sayings : Reported(f, p, s)
<1>1. \A g, q, s : /\ Error(g, q, s).file = g
                   /\ Error(g, q, s).place = q
                   /\ Error(g, q, s).says = s
  BY DEF Error
<1>2. shown = UNION {LoadSuite(g) : g \in Files}
  BY DEF Load
<1>3. ASSUME NEW e \in At(f, p)
      PROVE  \E s \in Sayings : e = Error(f, p, s) /\ e.says = s /\ Reported(f, p, s)
  <2>1. e \in shown /\ e.file = f /\ e.place = p
    BY <1>3 DEF At
  <2>2. PICK g \in Files : e \in LoadSuite(g)
    BY <1>2, <2>1
  <2>3. PICK q \in Places, s \in Sayings : e = Error(g, q, s) /\ Reported(g, q, s)
    BY <2>2, LoadSuiteReports
  <2>4. g = f /\ q = p /\ e.says = s
    BY <1>1, <2>1, <2>3
  <2> QED  BY <2>3, <2>4
<1>4. ASSUME NEW s \in Sayings, Reported(f, p, s)
      PROVE  Error(f, p, s) \in At(f, p) /\ Error(f, p, s).says = s
  <2>1. Error(f, p, s) \in LoadSuite(f)
    BY <1>4, LoadSuiteReports
  <2> QED  BY <1>1, <1>2, <2>1 DEF At
<1>5. Says(At(f, p)) \subseteq {s \in Sayings : Reported(f, p, s)}
  BY <1>3 DEF Says
<1>6. {s \in Sayings : Reported(f, p, s)} \subseteq Says(At(f, p))
  BY <1>4 DEF Says
<1>7. Says(At(f, p)) \subseteq Says(shown)
  BY DEF Says, At
<1> QED  BY <1>3, <1>4, <1>5, <1>6, <1>7

-----------------------------------------------------------------------------
(* When rendering fails.                                                   *)
LEMMA FailsForMistakesBeyond ==
  ASSUME Marked, short \subseteq {f \in Files : Refers(f)}
  PROVE  RenderFails <=> /\ \A f \in Files : Raises(f) = {}
                         /\ \E f \in short : Mistaken(f, "tool") /\ ~Dangling(f)
<1>1. \A g, q, s : /\ Error(g, q, s).file = g
                   /\ Error(g, q, s).place = q
                   /\ Error(g, q, s).says = s
  BY DEF Error
<1>2. Broken = {} <=> \A f \in Files : Raises(f) = {}
  BY DEF Broken
<1>3. Broken = {} => Load = UNION {LoadSuite(f) : f \in Files}
  BY DEF Load
<1>4. "tool" \in Places
  BY DEF Places
<1>5. ASSUME RenderFails
      PROVE  \E f \in short : Mistaken(f, "tool") /\ ~Dangling(f)
  <2>1. PICK e \in Load : e.place = "tool" /\ e.says # "ref" /\ e.file \in short
    BY <1>5 DEF RenderFails
  <2>2. PICK f \in Files : e \in LoadSuite(f)
    BY <1>3, <1>5, <2>1 DEF RenderFails
  <2>3. PICK p \in Places, s \in Sayings : e = Error(f, p, s) /\ Reported(f, p, s)
    BY <2>2, LoadSuiteReports
  <2>4. f \in short /\ p = "tool" /\ s # "ref"
    BY <1>1, <2>1, <2>3
  <2>5. Mistaken(f, "tool")
    BY <1>2, <1>4, <1>5, <2>3, <2>4, MistakesAreReported DEF RenderFails
  <2>6. ~Dangling(f)
    <3>1. Dangling(f) => Resolved(f, "tool") = {"wrong"}
      BY DEF Dangling, Resolved
    <3> QED  BY <2>3, <2>4, <3>1 DEF Reported
  <2> QED  BY <2>4, <2>5, <2>6
<1>6. ASSUME Broken = {}, NEW f \in short, Mistaken(f, "tool"), ~Dangling(f)
      PROVE  RenderFails
  <2>1. f \in Files
    OBVIOUS
  <2>2. PICK s \in Sayings : Reported(f, "tool", s)
    BY <1>2, <1>4, <1>6, <2>1, MistakesAreReported
  <2>3. s # "ref"
    BY <1>6, <2>2 DEF Reported
  <2>4. Error(f, "tool", s) \in LoadSuite(f)
    BY <1>4, <2>2, LoadSuiteReports
  <2>5. Error(f, "tool", s) \in Load
    BY <1>3, <1>6, <2>1, <2>4
  <2> QED  BY <1>1, <1>6, <2>3, <2>5 DEF RenderFails
<1> QED  BY <1>2, <1>5, <1>6 DEF RenderFails

(* The invariant: marks stay marks of their places, what is shown is what  *)
(* the files as they are give unless rendering fails, and after a repair   *)
(* that could reach everything they give nothing.                          *)
IInv ==
  /\ Marked
  /\ short \subseteq {f \in Files : Refers(f)}
  /\ phase \in {"edited", "rejected", "unshown", "accepted", "planned", "refused"}
  /\ phase \in {"rejected", "accepted"} => shown = Load /\ ~RenderFails
  /\ phase = "unshown" => RenderFails
  /\ phase = "accepted" => shown = {}
  /\ phase = "edited" /\ ~excused => Load = {}
  /\ OnePassUnlessHidden

LEMMA InitInvariant == Init => IInv
<1>1. SUFFICES ASSUME Init  PROVE Marked
  BY DEF Init, IInv, OnePassUnlessHidden, Refers
<1>2. \A f \in Files : \A p \in Places : docs[f][p] \subseteq Marks[p]
  BY <1>1, SpecLoadingAssumption DEF Init
<1>3. target = None \/ target \subseteq TargetMarks
  BY <1>1, SpecLoadingAssumption DEF Init
<1> QED  BY <1>1, <1>2, <1>3 DEF Init, Marked

(* A repair leaves at a place what may stand there.                        *)
LEMMA MendKeepsMarks ==
  ASSUME Marked, Mend  PROVE Marked'
<1>1. ASSUME NEW f \in Files, NEW p \in Places
      PROVE  docs'[f][p] \subseteq Marks[p]
  <2>1. docs[f][p] \subseteq Marks[p]
    BY DEF Marked
  <2>2. "args2" \in Marks[p] => "args" \in Marks[p]
    BY DEF Marks, Places
  <2>3. \A says : Mended(docs[f][p], says) \subseteq Marks[p]
    BY <2>1, <2>2 DEF Mended
  <2> QED  BY <2>1, <2>3 DEF Mend
<1>2. target' = None \/ target' \subseteq TargetMarks
  <2>1. ASSUME NEW says, target \subseteq TargetMarks
        PROVE  Mended(target, says) \subseteq TargetMarks
    BY <2>1 DEF Mended, TargetMarks
  <2>2. \A t \in Targets : t = None \/ t \subseteq TargetMarks
    BY SpecLoadingAssumption
  <2>3. CASE "ref" \in Says(shown)
    BY <2>2, <2>3 DEF Mend
  <2>4. CASE "ref" \notin Says(shown) /\ target = None
    BY <2>4 DEF Mend
  <2>5. CASE "ref" \notin Says(shown) /\ target # None
    BY <2>1, <2>5 DEF Mend, Marked
  <2> QED  BY <2>3, <2>4, <2>5
<1>3. env' \in {"unset", "word", "number"}
  BY DEF Mend, Marked
<1> QED  BY <1>1, <1>2, <1>3 DEF Marked

(* A repair that could reach everything leaves nothing to be said.         *)
LEMMA MendReaches ==
  ASSUME Marked, shown = Load, ~Hides, Mend
  PROVE  Load' = {}
<1>1. Broken = {} /\ \A f \in Files : Raises(f) = {} /\ ~Dangling(f)
  BY DEF Hides, Broken
<1>2. \A f \in Files : \A p \in Places :
        /\ Says(At(f, p)) = {s \in Sayings : Reported(f, p, s)}
        /\ Says(At(f, p)) \subseteq Says(shown)
  BY <1>1, ShownIsReported
<1>3. /\ "ref" \in Sayings /\ "unset" \in Sayings /\ "kind" \in Sayings
      /\ "args" \in Sayings /\ "impl" \in Sayings /\ "wrong" \in Sayings
      /\ "outcomes" \in Sayings
  BY DEF Sayings
<1>4. ASSUME NEW f \in Files, NEW p \in Places
      PROVE  /\ \A s \in Sayings : ~Reported(f, p, s)'
             /\ p \in {"text", "tool"} => "yaml" \notin Resolved(f, p)'
  <2> DEFINE says == Says(At(f, p))
  <2>1. docs[f][p] \subseteq Marks[p]
    BY DEF Marked
  <2>2. \A s \in Sayings : s \in says <=> Reported(f, p, s)
    BY <1>2
  <2>3. /\ env = "unset" /\ "var" \in Resolved(f, p) => "unset" \in says /\ env' = "number"
        /\ env # "unset" => "unset" \notin says
        /\ env' = env \/ env' = "number"
    BY <1>2, <1>3, <2>2 DEF Reported, Mend
  <2>4. ~(p = "tool" /\ Refers(f)) => docs'[f][p] = Mended(docs[f][p], says)
    BY DEF Mend
  <2>5. p = "tool" /\ Refers(f) => docs'[f][p] = docs[f][p]
    BY DEF Mend
  <2> HIDE DEF says
  <2>6. CASE p = "text"
    BY <1>1, <2>1, <2>4, <2>6 DEF Marks, Raises, Mended, Reported, Interpolated, Resolved
  <2>7. CASE p = "system"
    BY <1>3, <2>1, <2>2, <2>3, <2>4, <2>7
       DEF Marks, Mended, Cured, Reported, Interpolated, Resolved, Substituted, Marked
  <2>8. CASE p = "max_turns"
    BY <1>3, <2>1, <2>2, <2>3, <2>4, <2>8
       DEF Marks, Mended, Cured, Reported, Interpolated, Resolved, Substituted, Marked
  <2>9. CASE p = "tool" /\ ~Refers(f)
    <3>1. docs[f][p] \subseteq {"wrong"}
      BY <2>1, <2>9 DEF Marks, Refers
    <3>2. docs'[f][p] \subseteq docs[f][p] /\ ("wrong" \in says => docs'[f][p] = {})
      BY <2>4, <2>9, <3>1 DEF Mended, Cured
    <3>3. "wrong" \in docs[f][p] => "wrong" \in says
      BY <1>3, <2>2, <2>9, <3>1 DEF Reported, Interpolated, Resolved, Dangling
    <3>4. docs'[f][p] = {}
      BY <3>1, <3>2, <3>3
    <3> QED  BY <2>9, <3>4 DEF Reported, Interpolated, Resolved, Refers, Dangling
  <2>10. CASE p = "tool" /\ Refers(f)
    <3> DEFINE found == {e.says : e \in {d \in shown : d.place = "tool" /\ Refers(d.file)}}
    <3>1. target # None /\ target \subseteq {"wrong", "var", "nested"}
      BY <1>1, <2>10 DEF Raises, Resolved, Dangling, Marked, TargetMarks
    <3>2. "ref" \notin Says(shown)
      <4>1. ASSUME NEW e \in shown  PROVE e.says # "ref"
        <5>1. PICK g \in Files : e \in LoadSuite(g)
          BY <1>1, <4>1 DEF Load
        <5>2. PICK q \in Places, s \in Sayings : e = Error(g, q, s) /\ Reported(g, q, s)
          BY <5>1, LoadSuiteReports
        <5>3. s # "ref"
          BY <1>1, <5>2 DEF Reported
        <5> QED  BY <5>2, <5>3 DEF Error
      <4> QED  BY <4>1 DEF Says
    <3>3. target' = Mended(target, found)
      BY <3>1, <3>2 DEF Mend
    <3>4. says \subseteq found
      BY <2>10 DEF says, Says, At
    <3>5. "wrong" \in target \/ "nested" \in target => "wrong" \in found
      BY <1>1, <1>3, <2>2, <2>10, <3>1, <3>4 DEF Reported, Interpolated, Resolved, Substituted
    <3>6. target' \subseteq {"var"} /\ ("var" \in target' => "var" \in target)
      BY <3>1, <3>3, <3>5 DEF Mended, Cured
    <3>7. Refers(f)' /\ Resolved(f, p)' = target' /\ ~Dangling(f)'
      <4>1. target' # None
        BY <3>6, SpecLoadingAssumption DEF TargetMarks
      <4> QED  BY <2>5, <2>10, <4>1 DEF Refers, Resolved, Dangling
    <3>8. "var" \in target' => env' # "unset"
      BY <2>3, <2>10, <3>1, <3>6 DEF Resolved
    <3> QED  BY <2>10, <3>6, <3>7, <3>8 DEF Reported, Interpolated, Substituted
  <2>11. CASE p = "entry"
    <3>1. /\ docs[f][p] \subseteq {"kind", "args", "pair", "var"}
          /\ ~("kind" \in docs[f][p] /\ docs[f][p] \cap {"args", "var"} # {})
      BY <2>1, <2>11 DEF Marks, Hides
    <3>2. docs'[f][p] = docs[f][p] \ Cured(says)
      BY <2>4, <2>11, <3>1 DEF Mended
    <3>3. Resolved(f, p) = docs[f][p] /\ Resolved(f, p)' = docs'[f][p]
      BY <2>11 DEF Resolved
    <3>4. CASE "pair" \in docs[f][p]
      <4>1. "pair" \in docs'[f][p]
        <5>1. says \subseteq {"unset"}
          BY <1>2, <2>11, <3>1, <3>3, <3>4 DEF says, Reported, Interpolated, Substituted
        <5> QED  BY <3>2, <3>4, <5>1 DEF Cured
      <4>2. "var" \in docs'[f][p] => env' # "unset"
        BY <2>3, <3>2, <3>3
      <4> QED  BY <2>11, <3>1, <3>2, <3>3, <4>1, <4>2 DEF Reported, Interpolated, Substituted
    <3>5. CASE "pair" \notin docs[f][p] /\ "kind" \in docs[f][p]
      <4>1. docs[f][p] = {"kind"}
        BY <3>1, <3>5
      <4>2. "kind" \in says
        BY <1>3, <2>2, <2>11, <3>3, <4>1 DEF Reported, Interpolated
      <4>3. docs'[f][p] = {}
        BY <3>2, <4>1, <4>2 DEF Cured
      <4> QED  BY <2>11, <3>3, <4>3 DEF Reported, Interpolated
    <3>6. CASE docs[f][p] \subseteq {"args", "var"}
      <4>1. "args" \in docs[f][p] => "args" \in says
        BY <1>3, <2>2, <2>11, <3>3, <3>6 DEF Reported, Interpolated, Substituted
      <4>2. docs'[f][p] \subseteq {"var"} /\ ("var" \in docs'[f][p] => "var" \in docs[f][p])
        BY <3>2, <3>6, <4>1 DEF Cured
      <4>3. "var" \in docs'[f][p] => env' = "number"
        <5>1. CASE env = "unset"
          BY <2>3, <3>3, <4>2, <5>1
        <5>2. CASE env = "word"
          <6>1. "var" \in docs[f][p] => "args" \in says /\ "unset" \notin says
            BY <1>3, <2>2, <2>3, <2>11, <3>3, <3>6, <5>2 DEF Reported, Interpolated, Substituted
          <6> QED  BY <3>2, <4>2, <6>1 DEF Cured
        <5>3. CASE env = "number"
          BY <2>3, <5>3
        <5> QED  BY <5>1, <5>2, <5>3 DEF Marked
      <4> QED  BY <2>11, <3>3, <4>2, <4>3 DEF Reported, Interpolated, Substituted
    <3> QED  BY <3>1, <3>4, <3>5, <3>6
  <2>12. CASE p = "rule"
    BY <1>1, <1>3, <2>1, <2>2, <2>3, <2>4, <2>12
       DEF Marks, Mended, Cured, Reported, Interpolated, Resolved, Substituted, Marked, Hides
  <2> QED  BY <2>6, <2>7, <2>8, <2>9, <2>10, <2>11, <2>12 DEF Places
<1>5. \A f \in Files : (Raises(f) = {})'
  BY <1>4 DEF Raises, Places, Resolved
<1>6. (\A f, e : e \in LoadSuite(f) <=>
            \E p \in Places : \E s \in Sayings : e = Error(f, p, s) /\ Reported(f, p, s))'
  BY LoadSuiteReportsThen
<1>7. \A f \in Files : LoadSuite(f)' = {}
  BY <1>4, <1>6
<1>8. Broken' = {}
  BY <1>5 DEF Broken
<1> QED  BY <1>7, <1>8 DEF Load

LEMMA StepInvariant == IInv /\ [Next]_vars => IInv'
<1>1. SUFFICES ASSUME IInv, [Next]_vars  PROVE IInv'
  OBVIOUS
<1>2. CASE Validate
  <2>1. Load' = Load /\ Broken' = Broken
    <3>1. docs' = docs /\ target' = target /\ env' = env
      BY <1>2 DEF Validate
    <3>2. ASSUME NEW f
          PROVE  Raises(f)' = Raises(f) /\ LoadSuite(f)' = LoadSuite(f)
      <4>1. ASSUME NEW p
            PROVE  Resolved(f, p)' = Resolved(f, p) /\ Interpolated(f, p)' = Interpolated(f, p)
        BY <3>1 DEF Interpolated, Resolved, Substituted, Refers
      <4>2. /\ RefErrors(f)' = RefErrors(f) /\ EnvErrors(f)' = EnvErrors(f)
            /\ KindErrors(f)' = KindErrors(f) /\ ImplErrors(f)' = ImplErrors(f)
            /\ ModelErrors(f)' = ModelErrors(f) /\ Poisoned(f)' = Poisoned(f)
        BY <3>1, <4>1 DEF RefErrors, EnvErrors, KindErrors, ImplErrors, ModelErrors, Poisoned,
                          Refers, Dangling
      <4> QED
        BY <3>1, <4>1, <4>2 DEF Raises, LoadSuite
    <3>3. Broken' = Broken
      BY <3>2 DEF Broken
    <3>4. (UNION {LoadSuite(f) : f \in Files})' = UNION {LoadSuite(f) : f \in Files}
      BY <3>2
    <3>5. Raises(Min(Broken))' = Raises(Min(Broken))
      BY <3>2, <3>3
    <3> QED
      BY <3>3, <3>4, <3>5 DEF Load
  <2>2. Marked'
    BY <1>1, <1>2 DEF IInv, Validate, Marked
  <2>3. RenderFails' <=> RenderFails
    BY <1>2, <2>1 DEF Validate, RenderFails
  <2>4. Load = {} => ~RenderFails
    BY DEF RenderFails
  <2>5. phase = "edited" /\ excused' = excused /\ (~excused => Load = {})
    BY <1>1, <1>2 DEF IInv, Validate
  <2>6. phase' \in {"rejected", "unshown"} => Load # {}
    BY <1>2, <2>4 DEF Validate
  <2>7. OnePassUnlessHidden'
    BY <2>5, <2>6 DEF OnePassUnlessHidden
  <2>8. short' \subseteq {f \in Files : Refers(f)'}
    BY <1>1, <1>2 DEF IInv, Validate, Refers
  <2>9. /\ phase' \in {"rejected", "unshown", "accepted"}
        /\ phase' \in {"rejected", "accepted"} => shown' = Load /\ ~RenderFails
        /\ phase' = "unshown" => RenderFails
        /\ phase' = "accepted" => shown' = {}
    BY <1>2 DEF Validate
  <2> QED  BY <2>1, <2>2, <2>3, <2>7, <2>8, <2>9 DEF IInv
<1>3. CASE Mend
  <2>1. shown = Load /\ phase' = "edited"
    BY <1>1, <1>3 DEF IInv, Mend
  <2>2. Marked'
    BY <1>1, <1>3, MendKeepsMarks DEF IInv
  <2>3. ~excused' => Load' = {}
    BY <1>1, <1>3, <2>1, MendReaches DEF IInv, Mend
  <2>4. short' \subseteq {f \in Files : Refers(f)'}
    <3>1. ASSUME NEW f \in Files, Refers(f)
          PROVE  Refers(f)'
      <4>1. docs'[f]["tool"] = docs[f]["tool"]
        BY <1>3, <3>1 DEF Mend, Places
      <4> QED  BY <3>1, <4>1 DEF Refers
    <3> QED  BY <1>3, <3>1 DEF Mend
  <2> QED  BY <2>1, <2>2, <2>3, <2>4 DEF IInv, OnePassUnlessHidden
<1>4. CASE UNCHANGED vars
  <2>1. Load' = Load /\ Broken' = Broken
    BY <1>4 DEF vars, Load, Broken, Raises, LoadSuite, RefErrors, EnvErrors, KindErrors,
                ImplErrors, ModelErrors, Poisoned, Interpolated, Resolved, Substituted,
                Refers, Dangling
  <2>2. Marked' /\ OnePassUnlessHidden'
    BY <1>1, <1>4 DEF IInv, vars, Marked, OnePassUnlessHidden
  <2>3. shown' = shown /\ phase' = phase /\ excused' = excused
    BY <1>4 DEF vars
  <2>4. (RenderFails' <=> RenderFails) /\ short' \subseteq {f \in Files : Refers(f)'}
    BY <1>1, <1>4, <2>1 DEF IInv, vars, RenderFails, Refers
  <2> QED  BY <1>1, <2>1, <2>2, <2>3, <2>4 DEF IInv
<1> QED  BY <1>1, <1>2, <1>3, <1>4 DEF Next

LEMMA Invariant == Spec => []IInv
  BY InitInvariant, StepInvariant, PTL DEF Spec

(* A plan changes nothing of it.                                           *)
LEMMA PlanningKeeps == PlanningSpec => []IInv
<1>1. PlanningInit => IInv
  BY InitInvariant DEF PlanningInit
<1>2. IInv /\ [(Next /\ UNCHANGED <<request, plan>>) \/ Plan]_<<vars, request, plan>> => IInv'
  <2>1. ASSUME IInv, Plan  PROVE IInv'
    <3>1. Marked' /\ phase' \in {"planned", "refused"}
      BY <2>1 DEF IInv, Plan, Marked
    <3>2. short' \subseteq {f \in Files : Refers(f)'}
      BY <2>1 DEF IInv, Plan, Refers
    <3> QED  BY <3>1, <3>2 DEF IInv, OnePassUnlessHidden
  <2>2. ASSUME IInv, UNCHANGED vars  PROVE IInv'
    BY <2>2, StepInvariant
  <2> QED  BY <2>1, <2>2, StepInvariant
<1> QED  BY <1>1, <1>2, PTL DEF PlanningSpec

LEMMA ShownWhereMistaken == IInv => EveryMistakeShows
<1>1. SUFFICES ASSUME IInv  PROVE EveryMistakeShows
  OBVIOUS
<1>2. ASSUME phase = "rejected", Broken = {}, NEW f \in Files, NEW p \in Places
      PROVE  At(f, p) # {} <=> Mistaken(f, p)
  <2>1. Raises(f) = {}
    BY <1>2 DEF Broken
  <2>2. At(f, p) # {} <=> \E s \in Sayings : Reported(f, p, s)
    BY <1>1, <1>2, ShownIsReported DEF IInv
  <2> QED  BY <1>1, <2>1, <2>2, MistakesAreReported DEF IInv
<1>3. ASSUME phase = "accepted", NEW f \in Files, NEW p \in Places
      PROVE  ~Mistaken(f, p)
  <2>1. Raises(f) = {} /\ LoadSuite(f) = {}
    BY <1>1, <1>3, NothingLoaded DEF IInv
  <2>2. \A s \in Sayings : ~Reported(f, p, s)
    BY <2>1, LoadSuiteReports
  <2> QED  BY <1>1, <2>1, <2>2, MistakesAreReported DEF IInv
<1>4. RenderFails <=> /\ \A f \in Files : Raises(f) = {}
                      /\ \E f \in short : Mistaken(f, "tool") /\ ~Dangling(f)
  BY <1>1, FailsForMistakesBeyond DEF IInv
<1>5. /\ phase = "unshown" => RenderFails
      /\ phase = "rejected" => ~RenderFails
  BY <1>1 DEF IInv
<1> QED  BY <1>2, <1>3, <1>4, <1>5 DEF EveryMistakeShows

-----------------------------------------------------------------------------

(* All errors from all stages are collected in one pass (loader.py): while *)
(* every text is YAML, the errors of a rejected load stand where the       *)
(* mistakes are, at every one of them and nowhere else, and an accepted    *)
(* load has none; nothing is shown of a load exactly when some file ends   *)
(* above a mistake of the target that it refers to.                        *)
THEOREM EveryMistake == (Spec => []EveryMistakeShows) /\ (PlanningSpec => []EveryMistakeShows)
  BY Invariant, PlanningKeeps, ShownWhereMistaken, PTL

(* Who mends everything shown is rejected again only for what the errors   *)
(* could not tell.                                                         *)
THEOREM OnePass == (Spec => []OnePassUnlessHidden) /\ (PlanningSpec => []OnePassUnlessHidden)
<1>1. IInv => OnePassUnlessHidden
  BY DEF IInv
<1> QED  BY <1>1, Invariant, PlanningKeeps, PTL

-----------------------------------------------------------------------------
(* A finite set of pairs of numbers, in order.                             *)

(* How many pairs of S come before p.                                      *)
Rank(S, p) == Cardinality({q \in S : Before(q, p)})

LEMMA Order ==
  ASSUME NEW S \in SUBSET (Nat \X Nat)
  PROVE  /\ \A p \in S : ~Before(p, p)
         /\ \A p, q \in S : p = q \/ Before(p, q) \/ Before(q, p)
         /\ \A p, q, r \in S : Before(p, q) /\ Before(q, r) => Before(p, r)
<1>1. \A p \in S : p[1] \in Nat /\ p[2] \in Nat /\ p = <<p[1], p[2]>>
  OBVIOUS
<1>2. \A p \in S : ~Before(p, p)
  BY <1>1 DEF Before
<1>3. \A p, q \in S : p = q \/ Before(p, q) \/ Before(q, p)
  <2> SUFFICES ASSUME NEW p \in S, NEW q \in S, ~Before(p, q), ~Before(q, p)
               PROVE  p = q
    OBVIOUS
  <2>1. p[1] = q[1] /\ p[2] = q[2]
    BY <1>1 DEF Before
  <2> QED  BY <1>1, <2>1
<1>4. \A p, q, r \in S : Before(p, q) /\ Before(q, r) => Before(p, r)
  BY <1>1 DEF Before
<1> QED  BY <1>2, <1>3, <1>4

LEMMA RankIs ==
  ASSUME NEW S \in SUBSET (Nat \X Nat), IsFiniteSet(S)
  PROVE  /\ \A p \in S : Rank(S, p) \in 0 .. Cardinality(S) - 1
         /\ \A p, q \in S : Before(p, q) => Rank(S, p) < Rank(S, q)
<1> DEFINE Below(p) == {q \in S : Before(q, p)}
<1>0. Cardinality(S) \in Nat
  BY FS_CardinalityType
<1>1. \A p : IsFiniteSet(Below(p)) /\ Cardinality(Below(p)) \in Nat
  <2>1. \A p : Below(p) \subseteq S
    OBVIOUS
  <2> QED  BY <2>1, FS_Subset, FS_CardinalityType
<1>2. ASSUME NEW p \in S
      PROVE  Rank(S, p) \in 0 .. Cardinality(S) - 1
  <2>1. Below(p) \subseteq S /\ Below(p) # S
    BY Order
  <2>2. Cardinality(Below(p)) < Cardinality(S)
    <3> DEFINE T == Below(p)
    <3>1. T \in SUBSET S /\ T # S /\ Cardinality(T) \in Nat
      BY <1>1, <2>1
    <3> HIDE DEF T
    <3> QED  BY <1>0, <3>1, FS_Subset DEF T
  <2> HIDE DEF Below
  <2>3. Cardinality(Below(p)) \in 0 .. Cardinality(S) - 1
    BY <1>0, <1>1, <2>2
  <2> QED  BY <2>3 DEF Rank, Below
<1>3. ASSUME NEW p \in S, NEW q \in S, Before(p, q)
      PROVE  Rank(S, p) < Rank(S, q)
  <2>1. Below(p) \subseteq Below(q) /\ p \in Below(q) /\ p \notin Below(p)
    BY <1>3, Order
  <2> HIDE DEF Below
  <2>2. Cardinality(Below(p)) < Cardinality(Below(q))
    BY <1>1, <2>1, FS_Subset
  <2> QED  BY <2>2 DEF Rank, Below
<1> QED  BY <1>2, <1>3

LEMMA InOrderIs ==
  ASSUME NEW S \in SUBSET (Nat \X Nat), IsFiniteSet(S)
  PROVE  /\ Cardinality(S) \in Nat
         /\ InOrder(S) \in [1 .. Cardinality(S) -> S]
         /\ \A p \in S : \E k \in 1 .. Cardinality(S) : InOrder(S)[k] = p
         /\ \A k, l \in 1 .. Cardinality(S) : k < l => Before(InOrder(S)[k], InOrder(S)[l])
<1> DEFINE n == Cardinality(S)
           f == [p \in S |-> Rank(S, p) + 1]
<1>0. n \in Nat /\ IsFiniteSet(1 .. n) /\ Cardinality(1 .. n) = n
  BY FS_CardinalityType, FS_Interval
<1>1. f \in [S -> 1 .. n]
  <2>1. \A p \in S : Rank(S, p) \in 0 .. n - 1
    BY RankIs
  <2> HIDE DEF n
  <2>2. \A p \in S : Rank(S, p) + 1 \in 1 .. n
    BY <1>0, <2>1
  <2> QED  BY <2>2
<1>2. \A p, q \in S : p # q => f[p] # f[q]
  <2> SUFFICES ASSUME NEW p \in S, NEW q \in S, Before(p, q) \/ Before(q, p)
               PROVE  f[p] # f[q]
    BY Order
  <2>1. Rank(S, p) \in 0 .. n - 1 /\ Rank(S, q) \in 0 .. n - 1
    BY RankIs
  <2>2. Rank(S, p) < Rank(S, q) \/ Rank(S, q) < Rank(S, p)
    BY RankIs
  <2> QED  BY <2>1, <2>2
<1>3. f \in Injection(S, 1 .. n)
  BY <1>1, <1>2, Fun_IsInj
<1>4. f \in Surjection(S, 1 .. n)
  <2> HIDE DEF f
  <2> QED  BY <1>0, <1>3, FS_Injection
<1>5. \A k \in 1 .. n : \E p \in S : Rank(S, p) = k - 1
  <2>1. \A k \in 1 .. n : \E p \in S : f[p] = k
    <3> HIDE DEF f
    <3> QED  BY <1>4 DEF Surjection
  <2>2. \A p \in S : Rank(S, p) \in 0 .. n - 1
    BY RankIs
  <2>3. \A p \in S : f[p] = Rank(S, p) + 1
    OBVIOUS
  <2> HIDE DEF f, n
  <2>4. ASSUME NEW k \in 1 .. n
        PROVE  \E p \in S : Rank(S, p) = k - 1
    <3>1. PICK p \in S : f[p] = k
      BY <2>1
    <3>2. Rank(S, p) \in Int /\ Rank(S, p) + 1 = k
      BY <1>0, <2>2, <2>3, <3>1
    <3> QED  BY <3>2
  <2> QED  BY <2>4
<1> DEFINE g == InOrder(S)
<1>6. /\ DOMAIN g = 1 .. n /\ g = [k \in 1 .. n |-> g[k]]
      /\ \A k \in 1 .. n : g[k] = CHOOSE p \in S : Rank(S, p) = k - 1
  BY DEF InOrder, Rank
<1> HIDE DEF g, f
<1>7. \A k \in 1 .. n : g[k] \in S /\ Rank(S, g[k]) = k - 1
  <2> HIDE DEF n
  <2> QED  BY <1>5, <1>6
<1>8. ASSUME NEW p \in S
      PROVE  \E k \in 1 .. n : g[k] = p
  <2>1. Rank(S, p) \in 0 .. n - 1
    BY RankIs
  <2> HIDE DEF n
  <2>2. PICK k \in 1 .. n : Rank(S, p) = k - 1
    <3>1. Rank(S, p) + 1 \in 1 .. n /\ (Rank(S, p) + 1) - 1 = Rank(S, p)
      BY <1>0, <2>1
    <3> QED  BY <3>1
  <2>3. Rank(S, g[k]) = Rank(S, p) /\ g[k] \in S
    BY <1>7, <2>2
  <2>4. ~Before(g[k], p) /\ ~Before(p, g[k])
    <3>1. Before(g[k], p) => Rank(S, g[k]) < Rank(S, p)
      BY <2>3, RankIs
    <3>2. Before(p, g[k]) => Rank(S, p) < Rank(S, g[k])
      BY <2>3, RankIs
    <3> QED  BY <1>0, <2>1, <2>3, <3>1, <3>2
  <2> QED  BY <2>3, <2>4, Order
<1>9. ASSUME NEW k \in 1 .. n, NEW l \in 1 .. n, k < l
      PROVE  Before(g[k], g[l])
  <2>1. g[k] \in S /\ g[l] \in S /\ Rank(S, g[k]) = k - 1 /\ Rank(S, g[l]) = l - 1
    BY <1>7
  <2>2. g[k] # g[l]
    BY <1>9, <2>1
  <2>3. Before(g[l], g[k]) => l - 1 < k - 1
    BY <2>1, RankIs
  <2>4. ~Before(g[l], g[k])
    <3> HIDE DEF n
    <3> QED  BY <1>0, <1>9, <2>3
  <2> QED  BY <2>1, <2>2, <2>4, Order
<1> QED  BY <1>0, <1>6, <1>7, <1>8, <1>9 DEF g, n

-----------------------------------------------------------------------------
(* A setting.                                                              *)

(* The value is the one of the nearest place that says something.          *)
LEMMA PickIs ==
  ASSUME NEW a, NEW b, NEW c, NEW d, NEW e, e # None,
         NEW values, values = <<a, b, c, d, e>>
  PROVE  \E j \in DOMAIN values :
           /\ values[j] = Pick(values) /\ values[j] # None
           /\ \A m \in 1 .. j - 1 : values[m] = None
<1> DEFINE S == {k \in DOMAIN values : values[k] # None}
<1>1. DOMAIN values = 1 .. 5 /\ values[5] = e
  OBVIOUS
<1>2. S \in SUBSET Nat /\ 5 \in S /\ S \subseteq 1 .. 5
  BY <1>1
<1>3. Pick(values) = values[Min(S)]
  BY DEF Pick
<1>4. \A m \in 1 .. 5 : m \notin S => values[m] = None
  BY <1>1
<1>5. \A k \in S : values[k] # None
  OBVIOUS
<1> HIDE DEF S
<1>6. Min(S) \in S /\ \A y \in S : Min(S) <= y
  BY <1>2, LeastOf
<1>7. \A m \in 1 .. Min(S) - 1 : m \in 1 .. 5 /\ m \notin S
  <2> DEFINE x == Min(S)
  <2>1. x \in 1 .. 5 /\ \A y \in S : x <= y
    BY <1>2, <1>6
  <2> HIDE DEF x
  <2>2. \A m \in 1 .. x - 1 : m \in 1 .. 5 /\ m < x
    BY <2>1
  <2>3. \A m \in 1 .. 5 : m < x => m \notin S
    BY <2>1
  <2> QED  BY <2>2, <2>3 DEF x
<1> QED  BY <1>1, <1>2, <1>3, <1>4, <1>5, <1>6, <1>7

-----------------------------------------------------------------------------
(* The plan of a suite.                                                    *)

Tagged(req, f) == req.tags = {} \/ req.tags \cap TagsOf[f] # {}

LEMMA FilteredIs ==
  ASSUME NEW req, NEW f \in Files
  PROVE  /\ {f} \X Filtered(req, f) \in SUBSET (Nat \X Nat)
         /\ IsFiniteSet({f} \X Filtered(req, f))
         /\ f \in Nat /\ Filtered(req, f) \subseteq Nat
<1>1. CasesOf[f] \in Seq(ToSet(CasesOf[f]))
  BY PlanningAssumption
<1> DEFINE n == Len(CasesOf[f])
<1>2. n \in Nat /\ DOMAIN CasesOf[f] = 1 .. n
  BY <1>1, LenProperties
<1> HIDE DEF n
<1>3. Filtered(req, f) \subseteq 1 .. n
  BY <1>2 DEF Filtered
<1>4. f \in Nat
  BY SpecLoadingAssumption DEF Files
<1>5. IsFiniteSet(1 .. n) /\ IsFiniteSet({f})
  <2>1. IsFiniteSet(1 .. n)
    BY <1>2, FS_Interval
  <2>2. IsFiniteSet({f})
    BY FS_Singleton
  <2> QED  BY <2>1, <2>2
<1>6. IsFiniteSet(Filtered(req, f))
  BY <1>3, <1>5, FS_Subset
<1>7. IsFiniteSet({f} \X Filtered(req, f))
  BY <1>5, <1>6, FS_Product
<1> QED  BY <1>2, <1>3, <1>4, <1>7

(* The cases of one suite, as they are planned.                            *)
Suits(s, req, f) ==
  /\ \A k \in DOMAIN s : /\ s[k].file = f /\ s[k].at \in Filtered(req, f) /\ Tagged(req, f)
                         /\ s[k].value = Resolve(req, f, s[k].at)
  /\ \A k, l \in DOMAIN s : k < l => s[k].at < s[l].at
  /\ Tagged(req, f) => \A n \in Filtered(req, f) : \E k \in DOMAIN s : s[k].at = n
  /\ s = <<>> <=> DOMAIN s = {}

LEMMA SuiteIs ==
  ASSUME NEW req, NEW f \in Files
  PROVE  Suits(PlanSuite(req, f), req, f)
<1> DEFINE s == PlanSuite(req, f)
           S == {f} \X Filtered(req, f)
           cases == InOrder(S)
<1>1. CASE ~Tagged(req, f)
  <2>1. s = <<>>
    BY <1>1 DEF PlanSuite, Tagged
  <2> QED  BY <1>1, <2>1 DEF Suits
<1>2. CASE Tagged(req, f)
  <2>1. s = [k \in DOMAIN cases |->
               [file |-> f, at |-> cases[k][2], value |-> Resolve(req, f, cases[k][2])]]
    BY <1>2 DEF PlanSuite, Tagged
  <2>2. /\ Cardinality(S) \in Nat /\ cases \in [1 .. Cardinality(S) -> S]
        /\ \A p \in S : \E k \in 1 .. Cardinality(S) : cases[k] = p
        /\ \A k, l \in 1 .. Cardinality(S) : k < l => Before(cases[k], cases[l])
    <3>1. S \in SUBSET (Nat \X Nat) /\ IsFiniteSet(S)
      BY FilteredIs
    <3> HIDE DEF S
    <3> QED  BY <3>1, InOrderIs
  <2>3. f \in Nat /\ \A p \in S : p[1] = f /\ p[2] \in Filtered(req, f)
    BY FilteredIs
  <2>4. \A n \in Filtered(req, f) : <<f, n>> \in S
    OBVIOUS
  <2> DEFINE m == Cardinality(S)
  <2> HIDE DEF s, cases, m, S
  <2>5. DOMAIN cases = 1 .. m /\ \A k \in 1 .. m : cases[k] \in S
    BY <2>2 DEF m
  <2>6. DOMAIN s = 1 .. m
    BY <2>1, <2>5
  <2>7. \A k \in 1 .. m : /\ s[k].file = f /\ s[k].at = cases[k][2]
                          /\ s[k].value = Resolve(req, f, cases[k][2])
    BY <2>1, <2>5
  <2>8. \A k, l \in 1 .. m : k < l => s[k].at < s[l].at
    BY <2>2, <2>3, <2>5, <2>7 DEF Before, m
  <2>9. ASSUME NEW n \in Filtered(req, f)
        PROVE  \E k \in 1 .. m : s[k].at = n
    <3>1. PICK k \in 1 .. m : cases[k] = <<f, n>>
      BY <2>2, <2>4 DEF m
    <3> QED  BY <2>7, <3>1
  <2>10. s = <<>> <=> DOMAIN s = {}
    <3>1. s = [k \in DOMAIN s |-> s[k]]
      BY <2>1
    <3> QED  BY <3>1
  <2>11. \A k \in 1 .. m : s[k].at \in Filtered(req, f)
    BY <2>3, <2>5, <2>7
  <2>12. Suits(s, req, f)
    BY <1>2, <2>6, <2>7, <2>8, <2>9, <2>10, <2>11 DEF Suits
  <2> QED  BY <2>12 DEF s
<1> QED  BY <1>1, <1>2

-----------------------------------------------------------------------------
(* The plan of a command.                                                  *)

LEMMA PathsAre ==
  ASSUME NEW req \in Requests
  PROVE  /\ SuitePaths(req) \in SUBSET (Nat \X Files) /\ IsFiniteSet(SuitePaths(req))
         /\ req.onCli => \A p \in SuitePaths(req) : p[1] = 1
         /\ \A f : (\E p \in SuitePaths(req) : p[2] = f)
                     <=> \E i \in DOMAIN req.patterns : f \in req.patterns[i]
<1> DEFINE w == req.patterns
           n == Len(w)
<1>1. w \in Seq(SUBSET Files)
  BY PlanningAssumption
<1>2. n \in Nat /\ DOMAIN w = 1 .. n /\ \A i \in 1 .. n : w[i] \subseteq Files
  BY <1>1, LenProperties
<1>3. UNION ToSet(w) = UNION {w[i] : i \in DOMAIN w}
  BY DEF ToSet
<1> HIDE DEF n, w
<1>4. UNION ToSet(w) \subseteq Files
  BY <1>2, <1>3
<1>5. SuitePaths(req) = IF req.onCli THEN {1} \X UNION ToSet(w)
                        ELSE UNION {{i} \X w[i] : i \in DOMAIN w}
  BY DEF SuitePaths, w
<1>6. SuitePaths(req) \subseteq (0 .. n + 1) \X Files
  <2>1. 1 \in 0 .. n + 1 /\ 1 .. n \subseteq 0 .. n + 1
    BY <1>2
  <2> QED  BY <1>2, <1>4, <1>5, <2>1
<1>7. IsFiniteSet(SuitePaths(req))
  <2>1. IsFiniteSet(0 .. n + 1) /\ IsFiniteSet(Files)
    BY <1>2, FS_Interval, SpecLoadingAssumption DEF Files
  <2>2. IsFiniteSet((0 .. n + 1) \X Files)
    BY <2>1, FS_Product
  <2> QED  BY <1>6, <2>2, FS_Subset
<1>8. SuitePaths(req) \in SUBSET (Nat \X Files)
  <2>1. 0 .. n + 1 \subseteq Nat
    BY <1>2
  <2> QED  BY <1>6, <2>1
<1>9. req.onCli => \A p \in SuitePaths(req) : p[1] = 1
  BY <1>5
<1>10. ASSUME NEW f
       PROVE  (\E p \in SuitePaths(req) : p[2] = f) <=> \E i \in DOMAIN w : f \in w[i]
  <2>1. CASE req.onCli
    <3> DEFINE U == UNION ToSet(w)
    <3>0. SuitePaths(req) = {1} \X U
      BY <1>5, <2>1
    <3> HIDE DEF U
    <3>2. f \in U => <<1, f>> \in {1} \X U /\ <<1, f>>[2] = f
      OBVIOUS
    <3>1. (\E p \in SuitePaths(req) : p[2] = f) <=> f \in U
      BY <3>0, <3>2
    <3> QED  BY <1>3, <3>1 DEF U
  <2>2. CASE ~req.onCli
    <3>1. \A p : p \in SuitePaths(req) <=> \E i \in DOMAIN w : p \in {i} \X w[i]
      BY <1>5, <2>2
    <3>2. ASSUME NEW i \in DOMAIN w, f \in w[i]  PROVE \E p \in SuitePaths(req) : p[2] = f
      <4>1. <<i, f>> \in {i} \X w[i] /\ <<i, f>>[2] = f
        BY <3>2
      <4> QED  BY <3>1, <4>1
    <3>3. ASSUME NEW p \in SuitePaths(req), p[2] = f  PROVE \E i \in DOMAIN w : f \in w[i]
      BY <3>1, <3>3
    <3> QED  BY <3>2, <3>3
  <2> QED  BY <2>1, <2>2
<1> QED  BY <1>7, <1>8, <1>9, <1>10 DEF w

Named(req, f) == \E i \in DOMAIN req.patterns : f \in req.patterns[i]

(* The suites of a command, as they are planned.                           *)
Plans(s, req) ==
  /\ \A i \in DOMAIN s : s[i] # <<>> /\ \E f \in Files : Named(req, f) /\ Suits(s[i], req, f)
  /\ \A f \in Files : Named(req, f) /\ PlanSuite(req, f) # <<>>
       => \E i \in DOMAIN s : s[i] = PlanSuite(req, f)
  /\ req.onCli =>
       \A i, j \in DOMAIN s : i < j =>
         \A k \in DOMAIN s[i], l \in DOMAIN s[j] : s[i][k].file < s[j][l].file

LEMMA PlanIs ==
  ASSUME NEW req \in Requests
  PROVE  Plans(PlanOf(req), req)
<1> DEFINE T == {p \in SuitePaths(req) : PlanSuite(req, p[2]) # <<>>}
           n == Cardinality(T)
           suites == InOrder(T)
           s == PlanOf(req)
<1>1. s = [i \in DOMAIN suites |-> PlanSuite(req, suites[i][2])]
  BY DEF PlanOf
<1>2. T \subseteq SuitePaths(req) /\ SuitePaths(req) \subseteq Nat \X Files /\ IsFiniteSet(SuitePaths(req))
  BY PathsAre
<1>3. Files \subseteq Nat
  BY SpecLoadingAssumption DEF Files
<1>4. T \in SUBSET (Nat \X Nat) /\ IsFiniteSet(T)
  <2>1. SuitePaths(req) \subseteq Nat \X Nat
    BY <1>2, <1>3
  <2> HIDE DEF T
  <2> QED  BY <1>2, <2>1, FS_Subset
<1>5. \A p \in T : p[2] \in Files /\ PlanSuite(req, p[2]) # <<>> /\ Named(req, p[2])
  <2>1. \A p \in SuitePaths(req) : p[2] \in Files
    BY <1>2
  <2>2. \A p \in SuitePaths(req) : Named(req, p[2])
    BY PathsAre DEF Named
  <2> QED  BY <2>1, <2>2
<1>6. ASSUME NEW f \in Files, Named(req, f), PlanSuite(req, f) # <<>>
      PROVE  \E p \in T : p[2] = f
  <2>1. PICK p \in SuitePaths(req) : p[2] = f
    BY <1>6, PathsAre DEF Named
  <2> QED  BY <1>6, <2>1
<1>7. req.onCli => \A p \in T : p[1] = 1
  BY PathsAre
<1> HIDE DEF T, s
<1>8. /\ n \in Nat /\ suites \in [1 .. n -> T]
      /\ \A p \in T : \E k \in 1 .. n : suites[k] = p
      /\ \A k, l \in 1 .. n : k < l => Before(suites[k], suites[l])
  BY <1>4, InOrderIs
<1> HIDE DEF n, suites
<1>9. DOMAIN s = 1 .. n /\ \A i \in 1 .. n : suites[i] \in T /\ s[i] = PlanSuite(req, suites[i][2])
  BY <1>1, <1>8
<1>10. ASSUME NEW i \in DOMAIN s
       PROVE  /\ s[i] # <<>> /\ suites[i][2] \in Files /\ Named(req, suites[i][2])
              /\ Suits(s[i], req, suites[i][2])
  <2>1. s[i] = PlanSuite(req, suites[i][2]) /\ suites[i] \in T
    BY <1>9
  <2>2. suites[i][2] \in Files /\ PlanSuite(req, suites[i][2]) # <<>> /\ Named(req, suites[i][2])
    BY <1>5, <2>1
  <2> QED  BY <2>1, <2>2, SuiteIs
<1>11. ASSUME NEW f \in Files, Named(req, f), PlanSuite(req, f) # <<>>
       PROVE  \E i \in DOMAIN s : s[i] = PlanSuite(req, f)
  <2>1. PICK p \in T : p[2] = f
    BY <1>6, <1>11
  <2>2. PICK i \in 1 .. n : suites[i] = p
    BY <1>8
  <2> QED  BY <1>9, <2>1, <2>2
<1>12. ASSUME req.onCli, NEW i \in DOMAIN s, NEW j \in DOMAIN s, i < j,
              NEW k \in DOMAIN s[i], NEW l \in DOMAIN s[j]
       PROVE  s[i][k].file < s[j][l].file
  <2>1. s[i][k].file = suites[i][2] /\ s[j][l].file = suites[j][2]
    BY <1>10 DEF Suits
  <2>2. Before(suites[i], suites[j]) /\ suites[i] \in T /\ suites[j] \in T
    BY <1>8, <1>9, <1>12
  <2>3. suites[i][1] = 1 /\ suites[j][1] = 1
    BY <1>7, <1>12, <2>2
  <2> QED  BY <2>1, <2>2, <2>3 DEF Before
<1>13. Plans(s, req)
  BY <1>10, <1>11, <1>12 DEF Plans
<1> QED  BY <1>13 DEF s

(* The cases that a command chooses.                                       *)
ChosenBy(req) == UNION {{f} \X Filtered(req, f) : f \in {g \in Files : Named(req, g) /\ Tagged(req, g)}}

LEMMA ChosenIs == Chosen = ChosenBy(request)
BY DEF Chosen, ChosenBy, Filtered, Named, Tagged

LEMMA CasesInAre ==
  ASSUME NEW s, NEW c
  PROVE  c \in CasesIn(s)
           <=> \E i \in DOMAIN s : \E k \in DOMAIN s[i] : c = <<s[i][k].file, s[i][k].at>>
BY DEF CasesIn, ToSet

LEMMA PlannedIsChosen ==
  ASSUME NEW req \in Requests
  PROVE  CasesIn(PlanOf(req)) = ChosenBy(req)
<1> DEFINE s == PlanOf(req)
<1>1. Plans(s, req)
  BY PlanIs
<1> HIDE DEF s
<1>2. \A c : c \in ChosenBy(req)
        <=> \E f \in Files : Named(req, f) /\ Tagged(req, f) /\ c \in {f} \X Filtered(req, f)
  BY DEF ChosenBy
<1>3. ASSUME NEW c \in CasesIn(s)
      PROVE  c \in ChosenBy(req)
  <2>0. PICK i \in DOMAIN s : \E k \in DOMAIN s[i] : c = <<s[i][k].file, s[i][k].at>>
    BY CasesInAre
  <2>1. PICK k \in DOMAIN s[i] : c = <<s[i][k].file, s[i][k].at>>
    BY <2>0
  <2>2. PICK f \in Files : Named(req, f) /\ Suits(s[i], req, f)
    BY <1>1 DEF Plans
  <2>3. s[i][k].file = f /\ s[i][k].at \in Filtered(req, f) /\ Tagged(req, f)
    BY <2>2 DEF Suits
  <2>4. c \in {f} \X Filtered(req, f)
    BY <2>1, <2>3
  <2> QED  BY <1>2, <2>2, <2>3, <2>4
<1>4. ASSUME NEW c \in ChosenBy(req)
      PROVE  c \in CasesIn(s)
  <2>1. PICK f \in Files : Named(req, f) /\ Tagged(req, f) /\ c \in {f} \X Filtered(req, f)
    BY <1>2
  <2>2. PICK n \in Filtered(req, f) : c = <<f, n>>
    BY <2>1
  <2> DEFINE t == PlanSuite(req, f)
  <2>3. Suits(t, req, f)
    BY SuiteIs
  <2> HIDE DEF t
  <2>4. PICK k \in DOMAIN t : t[k].at = n
    BY <2>1, <2>3 DEF Suits
  <2>5. t # <<>> /\ t[k].file = f
    BY <2>3, <2>4 DEF Suits
  <2>6. PICK i \in DOMAIN s : s[i] = t
    BY <1>1, <2>1, <2>5 DEF Plans, t
  <2>7. k \in DOMAIN s[i] /\ c = <<s[i][k].file, s[i][k].at>>
    BY <2>2, <2>4, <2>5, <2>6
  <2> QED  BY <2>7, CasesInAre
<1>5. CasesIn(s) = ChosenBy(req)
  BY <1>3, <1>4
<1> QED  BY <1>5 DEF s

-----------------------------------------------------------------------------
(* What is planned is what the command that was given plans.               *)
PInv ==
  /\ phase \in {"planned", "refused"} => request \in Requests
  /\ phase = "planned" => plan = PlanOf(request) /\ ~Refuses(request)
  /\ phase = "refused" => Refuses(request)

LEMMA PlanningInvariant == PlanningSpec => []PInv
<1>1. PlanningInit => PInv
  BY DEF PlanningInit, Init, PInv
<1>2. PInv /\ [(Next /\ UNCHANGED <<request, plan>>) \/ Plan]_<<vars, request, plan>> => PInv'
  <2>1. ASSUME Next  PROVE PInv'
    BY <2>1 DEF Next, Validate, Mend, PInv
  <2>2. ASSUME Plan  PROVE PInv'
    BY <2>2 DEF Plan, PInv
  <2>3. ASSUME PInv, UNCHANGED <<vars, request, plan>>  PROVE PInv'
    BY <2>3 DEF vars, PInv
  <2> QED  BY <2>1, <2>2, <2>3
<1> QED  BY <1>1, <1>2, PTL DEF PlanningSpec

(* Every chosen case is planned and no other, in the order of its file,    *)
(* once in a suite, and once at all when arguments name the files, with    *)
(* the value of a setting that was said nearest to it; a command is        *)
(* refused only for a chosen case or because its arguments name no file.   *)
THEOREM PlannedAsWritten == PlanningSpec => []PlansAsWritten
<1>1. ASSUME PInv, phase = "planned"
      PROVE  /\ CasesIn(plan) = Chosen /\ Chosen \cap Scriptless = {}
             /\ Plans(plan, request) /\ request \in Requests
  <2>1. request \in Requests /\ plan = PlanOf(request) /\ ~Refuses(request)
    BY <1>1 DEF PInv
  <2>2. CasesIn(plan) = ChosenBy(request) /\ Plans(plan, request)
    BY <2>1, PlannedIsChosen, PlanIs
  <2>3. CasesIn(plan) \cap Scriptless = {}
    BY <2>1 DEF Refuses
  <2> QED  BY <2>1, <2>2, <2>3, ChosenIs
<1>2. ASSUME PInv, phase = "planned", NEW i \in DOMAIN plan
      PROVE  /\ plan[i] # <<>>
             /\ \A k, l \in DOMAIN plan[i] : k < l =>
                  plan[i][k].file = plan[i][l].file /\ plan[i][k].at < plan[i][l].at
             /\ \A k \in DOMAIN plan[i] :
                  LET said == SaidOf(plan[i][k].file, plan[i][k].at) IN
                    \E j \in DOMAIN said :
                      /\ said[j] = plan[i][k].value /\ said[j] # None
                      /\ \A m \in 1 .. j - 1 : said[m] = None
  <2>1. PICK f \in Files : Suits(plan[i], request, f)
    BY <1>1, <1>2 DEF Plans
  <2>2. plan[i] # <<>>
    BY <1>1, <1>2 DEF Plans
  <2>3. ASSUME NEW k \in DOMAIN plan[i]
        PROVE  LET said == SaidOf(plan[i][k].file, plan[i][k].at) IN
                 \E j \in DOMAIN said :
                   /\ said[j] = plan[i][k].value /\ said[j] # None
                   /\ \A m \in 1 .. j - 1 : said[m] = None
    <3> DEFINE n == plan[i][k].at
               said == <<request.override, CasesOf[f][n].says, SuiteSays[f], ProjectSays, Builtin>>
    <3>1. plan[i][k].file = f /\ plan[i][k].value = Pick(said)
      BY <2>1 DEF Suits, Resolve
    <3>2. SaidOf(plan[i][k].file, n) = said
      BY <3>1 DEF SaidOf
    <3>3. Builtin # None
      BY PlanningAssumption
    <3>4. \E j \in DOMAIN said : /\ said[j] = Pick(said) /\ said[j] # None
                                 /\ \A m \in 1 .. j - 1 : said[m] = None
      BY <3>3, PickIs
    <3> HIDE DEF said
    <3> QED  BY <3>1, <3>2, <3>4
  <2>4. \A k, l \in DOMAIN plan[i] : k < l =>
          plan[i][k].file = plan[i][l].file /\ plan[i][k].at < plan[i][l].at
    BY <2>1 DEF Suits
  <2> QED  BY <2>2, <2>3, <2>4
<1>3. ASSUME PInv, phase = "refused"
      PROVE  Chosen \cap Scriptless # {} \/ UNION ToSet(request.patterns) = {}
  <2>1. request \in Requests /\ Refuses(request)
    BY <1>3 DEF PInv
  <2>2. CASE CasesIn(PlanOf(request)) \cap Scriptless # {}
    BY <2>1, <2>2, PlannedIsChosen, ChosenIs
  <2>3. CASE request.onCli /\ SuitePaths(request) = {}
    <3> DEFINE U == UNION ToSet(request.patterns)
    <3>1. {1} \X U = {}
      BY <2>3 DEF SuitePaths
    <3> HIDE DEF U
    <3>2. \A f \in U : <<1, f>> \in {1} \X U
      OBVIOUS
    <3>3. U = {}
      BY <3>1, <3>2
    <3> QED  BY <3>3 DEF U
  <2> QED  BY <2>1, <2>2, <2>3 DEF Refuses
<1>4. PInv => PlansAsWritten
  <2>1. ASSUME PInv, phase = "planned", request.onCli,
               NEW i \in DOMAIN plan, NEW j \in DOMAIN plan, i < j,
               NEW k \in DOMAIN plan[i], NEW l \in DOMAIN plan[j]
        PROVE  plan[i][k].file < plan[j][l].file
    BY <1>1, <2>1 DEF Plans
  <2> QED  BY <1>1, <1>2, <1>3, <2>1 DEF PlansAsWritten
<1> QED  BY <1>4, PlanningInvariant, PTL

============================================================================
