------------------------- MODULE RunCommandProofs --------------------------
(***************************************************************************)
(* For any cases, providers, labels and sequence of commands: exit code 0  *)
(* of a command that ran means that every selected case passed under every *)
(* label, and nothing is asked of a provider by a command that is refused  *)
(* or replays.  Where a command has keys for one provider at a time, calls *)
(* go to the provider of the case, what was recorded replays, and auto     *)
(* does not ask again.                                                     *)
(***************************************************************************)
EXTENDS CompareMatrix, SequenceTheorems, FunctionTheorems, FiniteSetTheorems,
        WellFoundedInduction, TLAPS

-----------------------------------------------------------------------------
(* Least and largest elements.                                             *)

LEMMA Least ==
  ASSUME NEW S \in SUBSET Nat, S # {}
  PROVE  \E m \in S : \A k \in S : m <= k
<1>1. IsWellFoundedOn(OpToRel(<, Nat), Nat)
  BY NatLessThanWellFounded, Zenon
<1>2. PICK m \in S : \A t \in S : ~(<<t, m>> \in OpToRel(<, Nat))
  BY <1>1, WFMin
<1>3. \A t \in S : ~(t < m)
  BY <1>2 DEF OpToRel
<1> QED
  BY <1>3

LEMMA MaxOf ==
  ASSUME NEW n \in Nat, NEW S \in SUBSET (0 .. n), S # {}
  PROVE  Max(S) \in S /\ \A i \in S : i <= Max(S)
<1> DEFINE T == {n - i : i \in S}
<1>1. T \in SUBSET Nat /\ T # {}
  <2>1. \A i \in S : n - i \in Nat
    OBVIOUS
  <2> QED
    BY <2>1
<1>2. PICK m \in T : \A t \in T : m <= t
  <2> HIDE DEF T
  <2> QED
    BY <1>1, Least
<1>3. PICK x \in S : m = n - x
  OBVIOUS
<1>4. \A y \in S : x >= y
  <2> SUFFICES ASSUME NEW y \in S PROVE x >= y
    OBVIOUS
  <2>1. n - x <= n - y
    BY <1>2, <1>3
  <2> QED
    BY <2>1
<1>5. Max(S) \in S /\ \A y \in S : Max(S) >= y
  BY <1>4 DEF Max
<1> QED
  BY <1>5

-----------------------------------------------------------------------------
(* What a command is in each of its phases.                                *)

(* A column that stands for 0 is one where all that should ran and passed. *)
ColumnTells(i) ==
  /\ columns[i].code \in {0, 1, 3}
  /\ columns[i].code = 0 =>
       /\ columns[i].ran = Kept /\ columns[i].passed = Kept
       /\ cmd.labels[i] \notin Unreadable

ColumnsTell ==
  /\ columns \in Seq({columns[i] : i \in DOMAIN columns})
  /\ Len(columns) <= Len(cmd.labels)
  /\ \A i \in DOMAIN columns : ColumnTells(i)

PhaseFits ==
  /\ phase \in {"start", "wiring", "running", "ended"}
  /\ phase = "start" => columns = <<>> /\ asked = {}
  /\ phase = "wiring" /\ columns = <<>> => asked = {}
  /\ phase \in {"wiring", "running"} => Len(columns) < Len(cmd.labels)
  /\ phase = "running" => kept = Kept /\ label \notin Unreadable
  /\ phase # "ended" => exit = None

ExitFits ==
  /\ cmd.mode = "replay" \/ exit = 2 => asked = {}
  /\ exit # None /\ columns # <<>> => exit = Worst(columns) /\ Len(columns) = Len(cmd.labels)

IInv == cmd \in Commands /\ ColumnsTell /\ PhaseFits /\ ExitFits

LEMMA Arguments ==
  ASSUME cmd \in Commands
  PROVE  /\ cmd.labels \in Seq(ToSet(cmd.labels)) /\ Len(cmd.labels) \in Nat \ {0}
         /\ DOMAIN cmd.labels = 1 .. Len(cmd.labels)
         /\ cmd.kind \in {"run", "compare", "trace"}
         /\ cmd.kind # "compare" => Len(cmd.labels) = 1
         /\ cmd.selected \subseteq Cases
         /\ \A i \in DOMAIN cmd.labels : cmd.labels[i] \in Labels
<1>1. cmd.labels \in Seq(ToSet(cmd.labels)) /\ cmd.labels # <<>>
  BY RunCommandAssumption
<1>2. Len(cmd.labels) \in Nat /\ DOMAIN cmd.labels = 1 .. Len(cmd.labels)
  BY <1>1, LenProperties
<1>3. Len(cmd.labels) # 0
  BY <1>1, EmptySeq
<1>4. \A i \in DOMAIN cmd.labels : cmd.labels[i] \in Labels
  BY DEF Labels, ToSet
<1> QED
  BY <1>1, <1>2, <1>3, <1>4, RunCommandAssumption

LEMMA OneMore ==
  ASSUME NEW T, NEW s \in Seq(T), NEW x \in T
  PROVE  /\ Append(s, x) \in Seq(T)
         /\ Len(Append(s, x)) = Len(s) + 1 /\ Len(s) \in Nat
         /\ DOMAIN Append(s, x) = 1 .. Len(s) + 1
         /\ \A i \in 1 .. Len(s) : Append(s, x)[i] = s[i]
         /\ Append(s, x)[Len(s) + 1] = x
OBVIOUS

LEMMA Columns ==
  ASSUME ColumnsTell
  PROVE  /\ columns \in Seq({columns[i] : i \in DOMAIN columns})
         /\ Len(columns) \in Nat /\ DOMAIN columns = 1 .. Len(columns)
BY LenProperties DEF ColumnsTell

LEMMA ColumnsGrow ==
  ASSUME ColumnsTell, NEW col, columns' = Append(columns, col)
  PROVE  /\ \E T : columns' \in Seq(T)
         /\ Len(columns') = Len(columns) + 1 /\ DOMAIN columns' = 1 .. Len(columns) + 1
         /\ \A i \in 1 .. Len(columns) : columns'[i] = columns[i]
         /\ columns'[Len(columns) + 1] = col
<1> DEFINE T == {columns[i] : i \in DOMAIN columns} \cup {col}
<1>1. columns \in Seq(T)
  BY Columns, SeqMonotonic
<1>2. col \in T
  OBVIOUS
<1> HIDE DEF T
<1> QED
  BY <1>1, <1>2, OneMore

(* The columns with one more.                                              *)
LEMMA ColumnAdded ==
  ASSUME cmd \in Commands, cmd' = cmd, ColumnsTell, Len(columns) < Len(cmd.labels), NEW col,
         columns' = Append(columns, col),
         col.code \in {0, 1, 3},
         col.code = 0 => col.ran = Kept /\ col.passed = Kept /\ label \notin Unreadable
  PROVE  /\ ColumnsTell' /\ columns' # <<>>
         /\ Len(columns') = Len(columns) + 1 /\ Len(columns) \in Nat
         /\ Worst(columns') \in {0, 1, 3}
<1> DEFINE n == Len(columns)
<1>1. n \in Nat /\ DOMAIN columns = 1 .. n
  BY Columns
<1>2. /\ Len(columns') = n + 1 /\ DOMAIN columns' = 1 .. n + 1
      /\ \A i \in 1 .. n : columns'[i] = columns[i]
      /\ columns'[n + 1] = col
  BY ColumnsGrow
<1>3. columns' \in [1 .. n + 1 -> {columns'[i] : i \in DOMAIN columns'}]
  <2>1. PICK T : columns' \in Seq(T)
    BY ColumnsGrow
  <2> HIDE DEF n
  <2>2. columns' \in [1 .. n + 1 -> T]
    BY <1>2, <2>1, LenProperties
  <2> QED
    BY <1>2, <2>2
<1>4. columns' \in Seq({columns'[i] : i \in DOMAIN columns'})
  <2> DEFINE U == {columns'[i] : i \in DOMAIN columns'}
  <2>1. n + 1 \in Nat /\ columns' \in [1 .. n + 1 -> U]
    BY <1>1, <1>3
  <2> HIDE DEF n, U
  <2>2. columns' \in Seq(U)
    BY <2>1, SeqDef
  <2> QED
    BY <2>2 DEF U
<1>5. Kept' = Kept /\ label = cmd.labels[n + 1]
  BY DEF Kept, NeedsKeys, Available, label
<1> HIDE DEF n
<1>6. \A i \in DOMAIN columns' : ColumnTells(i)'
  <2> SUFFICES ASSUME NEW i \in 1 .. n + 1 PROVE ColumnTells(i)'
    BY <1>2
  <2>1. CASE i \in 1 .. n
    BY <1>1, <1>2, <1>5, <2>1 DEF ColumnsTell, ColumnTells
  <2>2. CASE i = n + 1
    BY <1>2, <1>5, <2>2 DEF ColumnTells
  <2> QED
    BY <1>1, <2>1, <2>2
<1>7. Worst(columns') \in {0, 1, 3}
  <2> DEFINE S == {columns'[i].code : i \in DOMAIN columns'}
  <2>1. S \in SUBSET {0, 1, 3} /\ S # {}
    BY <1>1, <1>2, <1>6 DEF ColumnTells
  <2>2. Max(S) \in S
    <3> HIDE DEF S
    <3>1. S \in SUBSET (0 .. 3)
      BY <2>1
    <3> QED
      BY <2>1, <3>1, MaxOf
  <2> QED
    BY <2>1, <2>2 DEF Worst
<1>8. Len(columns') <= Len(cmd.labels)
  BY <1>1, <1>2, Arguments DEF n
<1>9. columns' # <<>>
  BY <1>1, <1>2
<1> QED
  BY <1>1, <1>2, <1>4, <1>6, <1>7, <1>8, <1>9 DEF ColumnsTell, n

(* A column that stands for 0 shows in the matrix as all passed, and the   *)
(* worst code is 0 only when all of them are.                              *)
LEMMA ZeroFromColumns ==
  ASSUME IInv
  PROVE  ZeroMeansAllColumnsPassed
<1> SUFFICES ASSUME exit = 0, columns # <<>>
             PROVE  /\ Len(columns) = Len(cmd.labels)
                    /\ \A i \in DOMAIN columns :
                         /\ columns[i].ran = Kept /\ columns[i].passed = Kept
                         /\ cmd.labels[i] \notin Unreadable
  BY DEF ZeroMeansAllColumnsPassed
<1> DEFINE S == {columns[i].code : i \in DOMAIN columns}
<1>1. exit # None
  BY RunCommandAssumption
<1>2. Max(S) = 0 /\ Len(columns) = Len(cmd.labels)
  BY <1>1 DEF IInv, ExitFits, Worst
<1>3. S \in SUBSET (0 .. 3)
  BY DEF IInv, ColumnsTell, ColumnTells
<1>4. \A i \in DOMAIN columns : columns[i].code \in S
  OBVIOUS
<1>5. ASSUME NEW i \in DOMAIN columns PROVE columns[i].code = 0
  <2>1. columns[i].code \in S
    BY <1>4
  <2> HIDE DEF S
  <2>2. \A j \in S : j <= Max(S)
    BY <1>3, <2>1, MaxOf, 3 \in Nat
  <2>3. columns[i].code \in 0 .. 3
    BY <1>3, <2>1
  <2> QED
    BY <1>2, <2>1, <2>2, <2>3
<1> QED
  BY <1>2, <1>5 DEF IInv, ColumnsTell, ColumnTells

LEMMA InitInvariant == ASSUME Init PROVE IInv
<1>1. columns = <<>> /\ DOMAIN columns = {} /\ Len(columns) = 0
  BY DEF Init
<1>2. columns \in Seq({columns[i] : i \in DOMAIN columns})
  BY <1>1
<1>3. Len(cmd.labels) \in Nat
  BY Arguments DEF Init
<1> QED
  BY <1>1, <1>2, <1>3, RunCommandAssumption
     DEF Init, IInv, ColumnsTell, PhaseFits, ExitFits

(* Steps within a command that finish no column.                           *)
LEMMA NoColumn ==
  ASSUME IInv, UNCHANGED <<cmd, columns>>
  PROVE  ColumnsTell' /\ Kept' = Kept /\ label' = label
<1>1. Kept' = Kept
  BY DEF Kept, NeedsKeys, Available
<1> QED
  BY <1>1 DEF IInv, ColumnsTell, ColumnTells, label

(* The column col is finished.                                             *)
LEMMA ColumnFinished ==
  ASSUME IInv, phase \in {"wiring", "running"}, cmd' = cmd, NEW col, NextColumn(col),
         UNCHANGED <<kept, asked>>,
         col.code \in {0, 1, 3},
         col.code = 0 => col.ran = Kept /\ col.passed = Kept /\ label \notin Unreadable
  PROVE  IInv'
<1>1. cmd \in Commands /\ ColumnsTell /\ Len(columns) < Len(cmd.labels)
      /\ columns' = Append(columns, col) /\ exit = None
  BY DEF IInv, PhaseFits, NextColumn
<1>2. /\ ColumnsTell' /\ columns' # <<>>
      /\ Len(columns') = Len(columns) + 1 /\ Len(columns) \in Nat
      /\ Worst(columns') \in {0, 1, 3}
  BY <1>1, ColumnAdded
<1>3. Len(cmd.labels) \in Nat
  BY <1>1, Arguments
<1>4. CASE Len(columns) + 1 < Len(cmd.labels)
  <2>1. phase' = "wiring" /\ exit' = None
    BY <1>1, <1>4 DEF NextColumn
  <2> QED
    BY <1>1, <1>2, <1>3, <1>4, <2>1, RunCommandAssumption DEF IInv, PhaseFits, ExitFits
<1>5. CASE ~(Len(columns) + 1 < Len(cmd.labels))
  <2>1. phase' = "ended" /\ exit' = Worst(columns')
    BY <1>1, <1>5 DEF NextColumn, End
  <2>2. Len(columns') = Len(cmd.labels) /\ exit' # 2
    BY <1>1, <1>2, <1>3, <1>5, <2>1
  <2> QED
    BY <1>1, <1>2, <2>1, <2>2 DEF IInv, PhaseFits, ExitFits
<1> QED
  BY <1>4, <1>5

(* A repetition changes neither the columns nor the phase, and only one    *)
(* that is asked live adds to what was asked.                              *)
LEMMA RepetitionSteps ==
  ASSUME Repetition
  PROVE  /\ phase = "running" /\ UNCHANGED <<cmd, number, phase, kept, default, columns, exit>>
         /\ asked' = asked \/ cmd.mode # "replay"
BY DEF Repetition, Play, Serve, Miss, AskLive, Pending, cassettes

LEMMA CommandInvariant ==
  ASSUME IInv, Command
  PROVE  IInv'
<1>0. cmd \in Commands /\ Len(cmd.labels) \in Nat \ {0} /\ ColumnsTell
      /\ (cmd.kind # "compare" => Len(cmd.labels) = 1)
      /\ Len(columns) \in Nat
  BY Arguments, LenProperties DEF IInv, ColumnsTell
<1>1. CASE Refuse
  <2>1. /\ UNCHANGED <<cmd, columns, asked, kept>> /\ phase = "start" /\ phase' = "ended"
    BY <1>1 DEF Refuse, End, wired, cassettes
  <2> QED
    BY <2>1, NoColumn DEF IInv, PhaseFits, ExitFits
<1>2. CASE NothingSelected
  <2>1. /\ UNCHANGED <<cmd, columns, asked, kept>> /\ phase = "start" /\ phase' = "ended"
    BY <1>2 DEF NothingSelected, End, wired, cassettes
  <2> QED
    BY <2>1, NoColumn DEF IInv, PhaseFits, ExitFits
<1>3. CASE Accept
  <2>1. /\ UNCHANGED <<cmd, columns, asked, kept, exit>>
        /\ phase = "start" /\ phase' = "wiring"
    BY <1>3 DEF Accept, wired, cassettes
  <2>2. columns = <<>> /\ Len(columns) < Len(cmd.labels)
    BY <1>0, <2>1 DEF IInv, PhaseFits
  <2> QED
    BY <2>1, <2>2, NoColumn DEF IInv, PhaseFits, ExitFits
<1>4. CASE Wire
  <2>1. /\ UNCHANGED <<cmd, columns, asked, exit>> /\ kept' = Kept
        /\ phase = "wiring" /\ phase' = "running" /\ label \notin Unreadable
    BY <1>4 DEF Wire, CannotWire, cassettes
  <2> QED
    BY <2>1, NoColumn DEF IInv, PhaseFits, ExitFits
<1>5. CASE SkipAll \/ WiringFails
  <2>1. /\ UNCHANGED <<cmd, columns, asked, kept>>
        /\ phase = "wiring" /\ phase' = "ended" /\ cmd.kind # "compare"
    BY <1>5 DEF SkipAll, WiringFails, End, wired, cassettes
  <2>2. columns = <<>>
    <3>1. Len(columns) < Len(cmd.labels) /\ Len(cmd.labels) = 1 /\ Len(columns) \in Nat
      BY <1>0, <2>1 DEF IInv, PhaseFits
    <3> QED
      BY <3>1, EmptySeq DEF IInv, ColumnsTell
  <2> QED
    BY <2>1, <2>2, NoColumn DEF IInv, PhaseFits, ExitFits
<1>6. CASE FailColumn
  <2> DEFINE col == [code |-> 3, ran |-> {}, passed |-> {}]
  <2>1. NextColumn(col) /\ col.code = 3 /\ cmd' = cmd /\ phase = "wiring"
        /\ UNCHANGED <<kept, asked>>
    BY <1>6 DEF FailColumn, wired, cassettes
  <2> HIDE DEF col
  <2> QED
    BY <2>1, ColumnFinished
<1>7. CASE Repetition
  <2>1. /\ UNCHANGED <<cmd, columns, kept, phase, exit>> /\ phase = "running"
        /\ asked' = asked \/ cmd.mode # "replay"
    BY <1>7, RepetitionSteps
  <2> QED
    BY <2>1, NoColumn, RunCommandAssumption DEF IInv, PhaseFits, ExitFits
<1>8. CASE EndColumn
  <2>1. /\ NextColumn(Metrics) /\ cmd' = cmd /\ phase = "running"
        /\ UNCHANGED <<kept, asked>>
    BY <1>8 DEF EndColumn, wired, cassettes
  <2>2. kept = Kept /\ label \notin Unreadable
    BY <2>1 DEF IInv, PhaseFits
  <2>3. Metrics.code = ExitCode /\ Metrics.ran = kept
        /\ Metrics.passed = {c \in kept : Result(c).passed}
    BY DEF Metrics
  <2>4. ExitCode \in {0, 1, 3} /\ (ExitCode = 0 => \A c \in kept : Result(c).passed)
    BY DEF ExitCode
  <2> QED
    BY <2>1, <2>2, <2>3, <2>4, ColumnFinished
<1> QED
  BY <1>1, <1>2, <1>3, <1>4, <1>5, <1>6, <1>7, <1>8 DEF Command

LEMMA StepInvariant ==
  ASSUME IInv, [Next]_vars
  PROVE  IInv'
<1>1. CASE NextCommand
  <2>1. /\ cmd' \in Commands /\ phase' = "start" /\ columns' = <<>> /\ asked' = {}
        /\ exit' = None
    BY <1>1 DEF NextCommand
  <2>2. Len(cmd'.labels) \in Nat
    BY <2>1, RunCommandAssumption, LenProperties
  <2> QED
    BY <2>1, <2>2, RunCommandAssumption
       DEF IInv, ColumnsTell, PhaseFits, ExitFits
<1>2. CASE UNCHANGED vars
  <2>1. UNCHANGED <<cmd, phase, columns, asked, kept, exit>>
    BY <1>2 DEF vars, wired, cassettes
  <2> QED
    BY <2>1, NoColumn DEF IInv, PhaseFits, ExitFits, Worst
<1> QED
  BY <1>1, <1>2, CommandInvariant DEF Next

(* What commands keep in every phase holds in every reachable state.       *)
THEOREM Inductive == Spec => []IInv
<1>1. Init => IInv
  BY InitInvariant
<1>2. IInv /\ [Next]_vars => IInv'
  BY StepInvariant
<1> QED
  BY <1>1, <1>2, PTL DEF Spec

(* Exit code 0 of a command that ran means that under every label every    *)
(* selected case that needs no missing key passed (_exit_code, run_compare *)
(* and _compare_exit_code).                                                *)
THEOREM ZeroIsPassed == Spec => []ZeroMeansAllColumnsPassed
<1>1. IInv => ZeroMeansAllColumnsPassed
  BY ZeroFromColumns
<1> QED
  BY <1>1, Inductive, PTL

-----------------------------------------------------------------------------
(* What is spent.                                                          *)

UnitsOf(cs) == UNION {{<<c, r>> : r \in 0 .. Repeat[c] - 1} : c \in cs}

LEMMA RepetitionsOf ==
  ASSUME NEW c \in Cases
  PROVE  LET own == {<<c, r>> : r \in 0 .. Repeat[c] - 1} IN
         IsFiniteSet(own) /\ Cardinality(own) = Repeat[c]
<1> DEFINE own == {<<c, r>> : r \in 0 .. Repeat[c] - 1}
           f == [r \in 0 .. Repeat[c] - 1 |-> <<c, r>>]
           n == Repeat[c]
<1>1. n \in Nat \ {0}
  BY AggregationAssumption
<1>2. f \in Bijection(0 .. n - 1, own)
  BY DEF Bijection, Injection, IsInjective, Surjection
<1> HIDE DEF n, f, own
<1>3. IsFiniteSet(0 .. n - 1) /\ Cardinality(0 .. n - 1) = n
  <2>1. /\ IsFiniteSet(0 .. n - 1)
        /\ Cardinality(0 .. n - 1) = IF 0 > n - 1 THEN 0 ELSE n - 1 - 0 + 1
    BY <1>1, FS_Interval
  <2> QED
    BY <1>1, <2>1
<1>4. ExistsBijection(0 .. n - 1, own)
  BY <1>2 DEF ExistsBijection
<1>5. IsFiniteSet(own) /\ Cardinality(own) = n
  BY <1>3, <1>4, FS_Bijection
<1> QED
  BY <1>5 DEF own, n

LEMMA OneCaseMore ==
  ASSUME NEW cs \in SUBSET Cases, NEW c \in cs, IsFiniteSet(UnitsOf(cs \ {c}))
  PROVE  /\ IsFiniteSet(UnitsOf(cs))
         /\ Cardinality(UnitsOf(cs)) = Repeat[c] + Cardinality(UnitsOf(cs \ {c}))
<1> DEFINE own == {<<c, r>> : r \in 0 .. Repeat[c] - 1}
           rest == UnitsOf(cs \ {c})
<1>1. UnitsOf(cs) = rest \cup own
  BY DEF UnitsOf
<1>2. rest \cap own = {}
  BY DEF UnitsOf
<1>3. IsFiniteSet(own) /\ Cardinality(own) = Repeat[c] /\ Repeat[c] \in Nat
  BY RepetitionsOf, AggregationAssumption
<1> HIDE DEF own, rest
<1>4. /\ IsFiniteSet(rest \cup own)
      /\ Cardinality(rest \cup own) = Cardinality(rest) + Cardinality(own) - Cardinality(rest \cap own)
  BY <1>3, FS_Union DEF rest
<1>5. Cardinality(rest \cap own) = 0
  BY <1>2, FS_EmptySet
<1>6. Cardinality(rest) \in Nat
  BY FS_CardinalityType DEF rest
<1> QED
  BY <1>1, <1>3, <1>4, <1>5, <1>6 DEF rest

LEMMA UnitsOfFinite ==
  ASSUME NEW cs \in SUBSET Cases
  PROVE  IsFiniteSet(UnitsOf(cs)) /\ Cardinality(UnitsOf(cs)) \in Nat
<1> DEFINE Parts == {{<<c, r>> : r \in 0 .. Repeat[c] - 1} : c \in cs}
           part == [c \in cs |-> {<<c, r>> : r \in 0 .. Repeat[c] - 1}]
<1>1. IsFiniteSet(cs)
  <2>1. IsFiniteSet(Cases)
    BY FS_Interval, AggregationAssumption DEF Cases
  <2> QED
    BY <2>1, FS_Subset
<1>2. IsFiniteSet(Parts)
  <2>1. part \in Surjection(cs, Parts)
    BY DEF Surjection
  <2> HIDE DEF part, Parts
  <2> QED
    BY <1>1, <2>1, FS_Surjection
<1>3. \A P \in Parts : IsFiniteSet(P)
  <2>1. \A c \in cs : IsFiniteSet({<<c, r>> : r \in 0 .. Repeat[c] - 1})
    BY RepetitionsOf
  <2> QED
    BY <2>1
<1>4. IsFiniteSet(UNION Parts)
  <2> HIDE DEF Parts
  <2> QED
    BY <1>2, <1>3, FS_UNION
<1>5. IsFiniteSet(UnitsOf(cs))
  BY <1>4 DEF UnitsOf
<1> QED
  BY <1>5, FS_CardinalityType

(* The sum over the cases is the number of their repetitions.              *)
Sums(g, cs) ==
  g = [s \in SUBSET cs |-> IF s = {} THEN 0
                           ELSE LET c == CHOOSE c \in s : TRUE IN Repeat[c] + g[s \ {c}]]

LEMMA CaseRunsCount ==
  ASSUME NEW cs \in SUBSET Cases
  PROVE  CaseRuns(cs) = Cardinality(UnitsOf(cs))
<1> DEFINE g == CHOOSE h : Sums(h, cs)
           count == [s \in SUBSET cs |-> Cardinality(UnitsOf(s))]
<1>1. CaseRuns(cs) = g[cs]
  BY DEF CaseRuns, MapThenSumSet, MapThenFoldSet, Sums
<1>2. ASSUME NEW s \in SUBSET cs, s # {}
      PROVE  LET c == CHOOSE c \in s : TRUE IN
             /\ c \in s /\ s \ {c} \in SUBSET cs
             /\ Cardinality(UnitsOf(s)) = Repeat[c] + Cardinality(UnitsOf(s \ {c}))
  <2> DEFINE c == CHOOSE c \in s : TRUE
  <2>1. c \in s
    BY <1>2
  <2> HIDE DEF c
  <2>2. s \in SUBSET Cases /\ s \ {c} \in SUBSET Cases /\ s \ {c} \in SUBSET cs
    OBVIOUS
  <2>3. Cardinality(UnitsOf(s)) = Repeat[c] + Cardinality(UnitsOf(s \ {c}))
    BY <2>1, <2>2, OneCaseMore, UnitsOfFinite
  <2> QED
    BY <2>1, <2>2, <2>3 DEF c
<1>3. Cardinality(UnitsOf({})) = 0
  BY FS_EmptySet DEF UnitsOf
<1>4. Sums(count, cs)
  <2>1. ASSUME NEW s \in SUBSET cs
        PROVE  count[s] = IF s = {} THEN 0
                          ELSE LET c == CHOOSE c \in s : TRUE IN Repeat[c] + count[s \ {c}]
    BY <1>2, <1>3
  <2> QED
    BY <2>1 DEF Sums
<1>5. Sums(g, cs)
  <2> HIDE DEF count
  <2> QED
    BY <1>4
<1> HIDE DEF g
<1>6. \A s \in SUBSET cs : IsFiniteSet(s) /\ Cardinality(s) \in Nat
  <2>1. IsFiniteSet(Cases)
    BY FS_Interval, AggregationAssumption DEF Cases
  <2> QED
    BY <2>1, FS_Subset, FS_CardinalityType
<1> DEFINE Bad == {s \in SUBSET cs : g[s] # Cardinality(UnitsOf(s))}
           sizes == {Cardinality(s) : s \in Bad}
<1>7. Bad = {}
  <2> SUFFICES ASSUME Bad # {}  PROVE FALSE
    OBVIOUS
  <2>1. sizes \in SUBSET Nat /\ sizes # {}
    BY <1>6
  <2>2. PICK m \in sizes : \A k \in sizes : m <= k
    <3> HIDE DEF sizes
    <3> QED
      BY <2>1, Least
  <2>3. PICK s \in Bad : m = Cardinality(s)
    OBVIOUS
  <2> DEFINE c == CHOOSE c \in s : TRUE
  <2>4. s # {}
    BY <1>3, <1>5 DEF Sums
  <2>5. /\ c \in s /\ s \ {c} \in SUBSET cs
        /\ Cardinality(UnitsOf(s)) = Repeat[c] + Cardinality(UnitsOf(s \ {c}))
    BY <1>2, <2>4
  <2>6. g[s] = Repeat[c] + g[s \ {c}]
    BY <1>5, <2>4 DEF Sums
  <2> HIDE DEF c
  <2>7. s \ {c} \in Bad
    BY <2>5, <2>6
  <2>8. Cardinality(s \ {c}) \in sizes
    BY <2>7
  <2>9. Cardinality(s \ {c}) = Cardinality(s) - 1 /\ Cardinality(s) \in Nat
    BY <1>6, <2>5, FS_RemoveElement
  <2>10. Cardinality(s) <= Cardinality(s \ {c})
    BY <2>2, <2>3, <2>8
  <2> QED
    BY <2>9, <2>10
<1> QED
  BY <1>1, <1>7

(* The live calls are of the labels and the repetitions of the command, on *)
(* the one gateway; the estimate was agreed to before the first of them.   *)
Agreed ==
  /\ asked \subseteq {<<SharedGateway(Kept), l, u>> : l \in ToSet(cmd.labels), u \in Units}
  /\ phase \in {"wiring", "running"} \/ asked # {} => ~NeedsYes
  /\ phase = "running" /\ cmd.mode # "replay" => default = SharedGateway(Kept)

LEMMA AgreedStep ==
  ASSUME IInv, Agreed, [Next]_vars
  PROVE  Agreed'
<1>1. ASSUME UNCHANGED cmd
      PROVE  /\ Kept' = Kept /\ SharedGateway(Kept)' = SharedGateway(Kept)
             /\ NeedsYes' = NeedsYes
  BY <1>1 DEF Kept, NeedsKeys, Available, SharedGateway, NeedsYes
<1>2. CASE NextCommand
  BY <1>2 DEF NextCommand, Agreed
<1>3. CASE Refuse \/ NothingSelected \/ SkipAll \/ WiringFails
  <2>1. UNCHANGED <<cmd, asked>> /\ phase' = "ended"
    BY <1>3 DEF Refuse, NothingSelected, SkipAll, WiringFails, End, cassettes
  <2> QED
    BY <1>1, <2>1 DEF Agreed
<1>4. CASE Accept
  <2>1. UNCHANGED <<cmd, asked>> /\ phase' = "wiring" /\ ~NeedsYes
    BY <1>4 DEF Accept, ConfigError, cassettes
  <2> QED
    BY <1>1, <2>1 DEF Agreed
<1>5. CASE FailColumn \/ EndColumn
  <2>1. UNCHANGED <<cmd, asked>> /\ phase' \in {"wiring", "ended"} /\ phase \in {"wiring", "running"}
    BY <1>5 DEF FailColumn, EndColumn, NextColumn, End, cassettes
  <2> QED
    BY <1>1, <2>1 DEF Agreed
<1>6. CASE Wire
  <2>1. /\ UNCHANGED <<cmd, asked>> /\ phase = "wiring"
        /\ cmd.mode # "replay" => default' = SharedGateway(Kept)
    BY <1>6 DEF Wire, cassettes, NeedsKeys
  <2> QED
    BY <1>1, <2>1 DEF Agreed
<1>7. ASSUME NEW u \in Units, Play(u) \/ Serve(u) \/ Miss(u)
      PROVE  Agreed'
  <2>1. UNCHANGED <<cmd, phase, default, asked>>
    BY <1>7 DEF Play, Serve, Miss, cassettes
  <2> QED
    BY <1>1, <2>1 DEF Agreed
<1>8. ASSUME NEW u \in Units, NEW o, AskLive(u, o)
      PROVE  Agreed'
  <2>1. /\ UNCHANGED <<cmd, phase, default>> /\ phase = "running" /\ cmd.mode # "replay"
        /\ asked' = asked \cup {<<default, label, u>>}
    BY <1>8 DEF AskLive, Pending
  <2>2. label \in ToSet(cmd.labels)
    <3>1. Len(columns) \in Nat /\ Len(columns) < Len(cmd.labels)
      BY <2>1, LenProperties DEF IInv, PhaseFits, ColumnsTell
    <3>2. Len(columns) + 1 \in DOMAIN cmd.labels
      BY <3>1, Arguments DEF IInv
    <3> QED
      BY <3>2 DEF label, ToSet
  <2>3. default = SharedGateway(Kept) /\ ~NeedsYes
    BY <2>1 DEF Agreed
  <2>4. asked' \subseteq {<<SharedGateway(Kept), l, w>> : l \in ToSet(cmd.labels), w \in Units}
    BY <2>1, <2>2, <2>3 DEF Agreed
  <2> QED
    BY <1>1, <2>1, <2>3, <2>4 DEF Agreed
<1>9. CASE UNCHANGED vars
  <2>1. UNCHANGED <<cmd, phase, default, asked>>
    BY <1>9 DEF vars, wired, cassettes
  <2> QED
    BY <1>1, <2>1 DEF Agreed
<1> QED
  BY <1>2, <1>3, <1>4, <1>5, <1>6, <1>7, <1>8, <1>9 DEF Next, Command, Repetition

(* So many labels, so many repetitions.                                    *)
LEMMA CallsCount ==
  ASSUME IInv, Agreed
  PROVE  /\ Cardinality(asked) \in Nat
         /\ Cardinality(asked) <= Len(cmd.labels) * CaseRuns(Cases)
<1> DEFINE L == ToSet(cmd.labels)
           n == Len(cmd.labels)
           gate == SharedGateway(Kept)
           calls == {<<gate, l, u>> : l \in L, u \in Units}
           f == [p \in L \X Units |-> <<gate, p[1], p[2]>>]
           first == [i \in 1 .. n |-> cmd.labels[i]]
<1>1. n \in Nat /\ DOMAIN cmd.labels = 1 .. n
  BY Arguments DEF IInv
<1>2. IsFiniteSet(L) /\ Cardinality(L) <= n /\ Cardinality(L) \in Nat
  <2>1. first \in Surjection(1 .. n, L)
    BY <1>1 DEF Surjection, ToSet
  <2>2. IsFiniteSet(1 .. n) /\ Cardinality(1 .. n) = n
    <3> HIDE DEF n
    <3>1. /\ IsFiniteSet(1 .. n)
          /\ Cardinality(1 .. n) = IF 1 > n THEN 0 ELSE n - 1 + 1
      BY <1>1, FS_Interval
    <3> QED
      BY <1>1, <3>1
  <2> HIDE DEF first, L, n
  <2>3. IsFiniteSet(L) /\ Cardinality(L) <= Cardinality(1 .. n)
    BY <2>1, <2>2, FS_Surjection
  <2> QED
    BY <2>2, <2>3, FS_CardinalityType
<1>3. /\ IsFiniteSet(Units) /\ Cardinality(Units) \in Nat
      /\ CaseRuns(Cases) = Cardinality(Units)
  <2>1. Units = UnitsOf(Cases)
    BY DEF Units, UnitsOf
  <2> QED
    BY <2>1, UnitsOfFinite, CaseRunsCount
<1>4. f \in Surjection(L \X Units, calls)
  <2> HIDE DEF L, gate
  <2>1. f \in [L \X Units -> calls]
    OBVIOUS
  <2>2. ASSUME NEW x \in calls
        PROVE  \E p \in L \X Units : f[p] = x
    <3>1. PICK l \in L : \E u \in Units : x = <<gate, l, u>>
      OBVIOUS
    <3>2. PICK u \in Units : x = <<gate, l, u>>
      BY <3>1
    <3>3. <<l, u>> \in L \X Units /\ f[<<l, u>>] = <<gate, l, u>>
      OBVIOUS
    <3> QED
      BY <3>2, <3>3
  <2> HIDE DEF f, calls
  <2> QED
    BY <2>1, <2>2 DEF Surjection
<1>5. asked \in SUBSET calls
  BY DEF Agreed
<1> HIDE DEF L, n, f, calls, gate
<1>6. IsFiniteSet(L \X Units) /\ Cardinality(L \X Units) = Cardinality(L) * Cardinality(Units)
  BY <1>2, <1>3, FS_Product
<1>7. IsFiniteSet(calls) /\ Cardinality(calls) <= Cardinality(L) * Cardinality(Units)
  BY <1>4, <1>6, FS_Surjection
<1>8. /\ Cardinality(asked) <= Cardinality(calls)
      /\ Cardinality(asked) \in Nat /\ Cardinality(calls) \in Nat
  BY <1>5, <1>7, FS_Subset, FS_CardinalityType
<1>9. \A a, b, c \in Nat : a <= b => a * c <= b * c /\ a * c \in Nat /\ b * c \in Nat
  OBVIOUS
<1>10. /\ Cardinality(L) * Cardinality(Units) <= n * Cardinality(Units)
       /\ Cardinality(L) * Cardinality(Units) \in Nat /\ n * Cardinality(Units) \in Nat
  BY <1>1, <1>2, <1>3, <1>9
<1>11. Cardinality(asked) <= n * Cardinality(Units)
  BY <1>7, <1>8, <1>10
<1> QED
  BY <1>3, <1>8, <1>11 DEF n

(* Nothing is spent that was not agreed to: a command that is refused or   *)
(* replays calls no provider, and without --yes the live repetitions of a  *)
(* matrix stay within the threshold (run_compare).                         *)
THEOREM SpentAsAgreed == Spec => []SpendsAsAgreed
<1>1. Init => Agreed
  BY DEF Init, Agreed
<1>2. IInv /\ Agreed /\ [Next]_vars => Agreed'
  BY AgreedStep
<1>3. IInv /\ Agreed => SpendsAsAgreed
  <2> SUFFICES ASSUME IInv, Agreed  PROVE SpendsAsAgreed
    OBVIOUS
  <2>1. exit = 2 \/ cmd.mode = "replay" => asked = {}
    BY DEF IInv, ExitFits
  <2>2. ASSUME cmd.kind = "compare", ~cmd.yes
        PROVE  Cardinality(asked) <= Threshold
    <3>1. CASE asked = {}
      BY <3>1, FS_EmptySet, RunCommandAssumption
    <3>2. CASE asked # {}
      <4>1. ~NeedsYes /\ cmd.mode # "replay"
        BY <2>1, <3>2 DEF Agreed
      <4>2. cmd.selected = Cases
        BY <2>2, RunCommandAssumption DEF IInv
      <4> DEFINE estimate == Len(cmd.labels) * CaseRuns(Cases)
      <4>3. ~(estimate > Threshold)
        BY <2>2, <4>1, <4>2 DEF NeedsYes
      <4>4. Cardinality(asked) <= estimate
        BY CallsCount
      <4>5. estimate \in Nat
        <5>1. CaseRuns(Cases) \in Nat
          BY CaseRunsCount, UnitsOfFinite
        <5> QED
          BY <5>1, Arguments DEF IInv
      <4>6. Cardinality(asked) \in Nat
        BY CallsCount
      <4> HIDE DEF estimate
      <4> QED
        BY <4>3, <4>4, <4>5, <4>6, RunCommandAssumption
    <3> QED
      BY <3>1, <3>2
  <2> QED
    BY <2>1, <2>2 DEF SpendsAsAgreed
<1> QED
  BY <1>1, <1>2, <1>3, Inductive, PTL DEF Spec

-----------------------------------------------------------------------------
(* One provider at a time.                                                 *)

(* No command has keys for the providers of two of its cases: the only     *)
(* shared gateway is then the gateway of each case that is asked live.     *)
OneProviderAtATime ==
  \A k \in Commands : \A c, d \in k.selected \cap Real :
    Provider[c] \in k.keys /\ Provider[d] \in k.keys => Provider[c] = Provider[d]

GatewayFits ==
  phase = "running" /\ cmd.mode # "replay" =>
    \A c \in kept \cap Real : default = Provider[c] /\ Provider[c] \in cmd.keys

(* A cassette under the provider of its case is what was recorded last.    *)
StoreMirrors ==
  /\ store = [k \in {Provider[c] : c \in Real} \X Labels \X Units |-> store[k]]
  /\ recorded = [k \in Labels \X Units |-> recorded[k]]
  /\ \A l \in Labels : \A u \in Units :
       u[1] \in Real => store[<<Provider[u[1]], l, u>>] = recorded[<<l, u>>]

SlotsFit == slots = [u \in Units |-> slots[u]]

HInv == SlotsFit /\ GatewayFits /\ LiveCallsGoHome /\ StoreMirrors /\ RecordedReplays

LEMMA Gateway ==
  ASSUME OneProviderAtATime, cmd \in Commands, cmd.mode # "replay",
         NEW c \in Kept \cap Real
  PROVE  SharedGateway(Kept) = Provider[c] /\ Provider[c] \in cmd.keys
<1> DEFINE S == Kept \cap Real
<1>1. S \in SUBSET (0 .. NumCases) /\ NumCases \in Nat /\ S # {}
  BY AggregationAssumption DEF Real, Cases
<1>2. \A d \in S : d \in cmd.selected \cap Real /\ Provider[d] \in cmd.keys
  BY DEF Kept, NeedsKeys, Available
<1>3. SharedGateway(Kept) = Provider[Max(S)]
  BY <1>1 DEF SharedGateway
<1>4. c \in S
  OBVIOUS
<1> HIDE DEF S
<1>5. Max(S) \in S
  BY <1>1, MaxOf
<1> QED
  BY <1>2, <1>3, <1>4, <1>5 DEF OneProviderAtATime

LEMMA HInit == ASSUME Init PROVE HInv
<1>1. /\ phase = "start" /\ asked = {} /\ recorded = [k \in Labels \X Units |-> None]
      /\ store = [k \in {Provider[c] : c \in Real} \X Labels \X Units |-> None]
  BY DEF Init
<1>2. StoreMirrors
  BY <1>1 DEF StoreMirrors
<1>3. SlotsFit
  BY DEF Init, SlotsFit, Empty
<1> QED
  BY <1>1, <1>2, <1>3 DEF HInv, GatewayFits, LiveCallsGoHome, RecordedReplays

(* Steps that leave the cassettes alone and do not end with a column on.   *)
LEMMA Idle ==
  ASSUME HInv, UNCHANGED <<store, recorded>>, asked' = {} \/ UNCHANGED <<cmd, asked>>,
         slots' = slots \/ slots' = Empty, phase' # "running"
  PROVE  HInv'
<1>1. LiveCallsGoHome'
  BY DEF HInv, LiveCallsGoHome
<1>2. StoreMirrors'
  BY DEF HInv, StoreMirrors
<1>3. SlotsFit'
  BY DEF HInv, SlotsFit, Empty
<1> QED
  BY <1>1, <1>2, <1>3 DEF HInv, GatewayFits, RecordedReplays

LEMMA LabelKnown ==
  ASSUME IInv, phase = "running"
  PROVE  label \in Labels
<1>1. Len(columns) \in Nat /\ Len(columns) < Len(cmd.labels)
  BY LenProperties DEF IInv, PhaseFits, ColumnsTell
<1>2. Len(columns) + 1 \in DOMAIN cmd.labels
  BY <1>1, Arguments DEF IInv
<1> QED
  BY <1>2, Arguments DEF IInv, label

(* What a repetition is asked and what is stored of it.                    *)
LEMMA Asked ==
  ASSUME IInv, HInv, NEW u \in Units, NEW o, AskLive(u, o)
  PROVE  /\ u[1] \in kept \cap Real /\ cmd.mode # "replay" /\ ~Hit(u)
         /\ default = Provider[u[1]] /\ Provider[u[1]] \in cmd.keys
         /\ KeyOf(u) = <<Provider[u[1]], label, u>> /\ label \in Labels
         /\ UNCHANGED <<cmd, phase, kept, default, columns>>
<1>1. /\ phase = "running" /\ u[1] \in kept \cap Real /\ cmd.mode # "replay" /\ ~Hit(u)
      /\ UNCHANGED <<cmd, phase, kept, default, columns>>
  BY DEF AskLive, Pending
<1>2. default = Provider[u[1]] /\ Provider[u[1]] \in cmd.keys
  BY <1>1 DEF HInv, GatewayFits
<1>3. label \in Labels
  BY <1>1, LabelKnown
<1> QED
  BY <1>1, <1>2, <1>3 DEF KeyOf

LEMMA HStep ==
  ASSUME OneProviderAtATime, IInv, HInv, [Next]_vars
  PROVE  HInv'
<1>1. CASE NextCommand
  BY <1>1, Idle DEF NextCommand
<1>2. CASE Refuse \/ NothingSelected \/ Accept \/ SkipAll \/ WiringFails
  BY <1>2, Idle DEF Refuse, NothingSelected, Accept, SkipAll, WiringFails, End, wired, cassettes
<1>3. CASE FailColumn \/ EndColumn
  BY <1>3, Idle DEF FailColumn, EndColumn, NextColumn, End, wired, cassettes
<1>4. CASE Wire
  <2>1. /\ UNCHANGED <<cmd, columns, store, asked, recorded>> /\ kept' = Kept
        /\ phase' = "running" /\ slots' = Empty
        /\ cmd.mode # "replay" => default' = SharedGateway(Kept)
    BY <1>4 DEF Wire, cassettes, NeedsKeys
  <2>2. GatewayFits'
    BY <2>1, Gateway DEF GatewayFits, IInv
  <2>3. LiveCallsGoHome' /\ StoreMirrors'
    BY <2>1 DEF HInv, LiveCallsGoHome, StoreMirrors
  <2>4. RecordedReplays'
    BY <2>1 DEF RecordedReplays, Empty
  <2>5. SlotsFit'
    BY <2>1 DEF SlotsFit, Empty
  <2> QED
    BY <2>2, <2>3, <2>4, <2>5 DEF HInv
<1>5. ASSUME NEW u \in Units, Play(u) \/ Serve(u) \/ Miss(u) PROVE HInv'
  <2>1. /\ UNCHANGED <<cmd, phase, kept, default, columns, store, asked, recorded>>
        /\ phase = "running" /\ \E o : slots' = [slots EXCEPT ![u] = o]
    BY <1>5 DEF Play, Serve, Miss, Pending, Land, cassettes
  <2>2. label' = label /\ label \in Labels
    BY <2>1, LabelKnown DEF label
  <2>3. SlotsFit' /\ \A w \in Units \ {u} : slots'[w] = slots[w]
    BY <2>1 DEF HInv, SlotsFit
  <2>4. GatewayFits' /\ LiveCallsGoHome' /\ StoreMirrors'
    BY <2>1 DEF HInv, GatewayFits, LiveCallsGoHome, StoreMirrors
  <2>5. ASSUME cmd.mode = "replay", u[1] \in Real, recorded[<<label, u>>] # None
        PROVE  slots'[u] = recorded[<<label, u>>]
    <3>1. store[KeyOf(u)] = recorded[<<label, u>>]
      BY <2>2, <2>5 DEF KeyOf, HInv, StoreMirrors
    <3>2. Hit(u) /\ ~Play(u) /\ ~Miss(u)
      BY <2>5, <3>1 DEF Hit, Wrapped, Play, Miss
    <3> QED
      BY <1>5, <3>1, <3>2 DEF Serve, Land, HInv, SlotsFit
  <2>6. RecordedReplays'
    BY <2>1, <2>2, <2>3, <2>5 DEF HInv, RecordedReplays
  <2> QED
    BY <2>3, <2>4, <2>6 DEF HInv
<1>6. ASSUME NEW u \in Units, NEW o, AskLive(u, o) PROVE HInv'
  <2>1. /\ u[1] \in kept \cap Real /\ cmd.mode # "replay"
        /\ default = Provider[u[1]] /\ Provider[u[1]] \in cmd.keys
        /\ KeyOf(u) = <<Provider[u[1]], label, u>> /\ label \in Labels
        /\ UNCHANGED <<cmd, phase, kept, default, columns>>
    BY <1>6, Asked
  <2>2. /\ asked' = asked \cup {<<default, label, u>>}
        /\ slots' = [slots EXCEPT ![u] = o]
        /\ \/ UNCHANGED <<store, recorded>>
           \/ /\ store' = [store EXCEPT ![KeyOf(u)] = o]
              /\ recorded' = [recorded EXCEPT ![<<label, u>>] = o]
    BY <1>6 DEF AskLive, Land
  <2>3. SlotsFit' /\ GatewayFits' /\ RecordedReplays'
    BY <2>1, <2>2 DEF HInv, SlotsFit, GatewayFits, RecordedReplays
  <2>4. LiveCallsGoHome'
    BY <2>1, <2>2 DEF HInv, LiveCallsGoHome
  <2>5. StoreMirrors'
    <3>1. CASE UNCHANGED <<store, recorded>>
      BY <3>1 DEF HInv, StoreMirrors
    <3>2. CASE /\ store' = [store EXCEPT ![<<Provider[u[1]], label, u>>] = o]
               /\ recorded' = [recorded EXCEPT ![<<label, u>>] = o]
      <4>1. /\ store' = [k \in {Provider[c] : c \in Real} \X Labels \X Units |-> store'[k]]
            /\ recorded' = [k \in Labels \X Units |-> recorded'[k]]
        BY <3>2 DEF HInv, StoreMirrors
      <4>2. ASSUME NEW l \in Labels, NEW w \in Units, w[1] \in Real
            PROVE  store'[<<Provider[w[1]], l, w>>] = recorded'[<<l, w>>]
        <5>1. /\ <<Provider[w[1]], l, w>> \in {Provider[c] : c \in Real} \X Labels \X Units
              /\ <<l, w>> \in Labels \X Units
          BY <4>2
        <5>2. CASE l = label /\ w = u
          BY <3>2, <5>1, <5>2 DEF HInv, StoreMirrors
        <5>3. CASE ~(l = label /\ w = u)
          BY <3>2, <4>2, <5>1, <5>3 DEF HInv, StoreMirrors
        <5> QED
          BY <5>2, <5>3
      <4> QED
        BY <4>1, <4>2 DEF StoreMirrors
    <3> QED
      BY <2>1, <2>2, <3>1, <3>2
  <2> QED
    BY <2>3, <2>4, <2>5 DEF HInv
<1>7. CASE UNCHANGED vars
  BY <1>7 DEF vars, wired, cassettes, HInv, SlotsFit, GatewayFits, LiveCallsGoHome,
              StoreMirrors, RecordedReplays, label
<1> QED
  BY <1>1, <1>2, <1>3, <1>4, <1>5, <1>6, <1>7 DEF Next, Command, Repetition

(* What holds of the gateway and the cassettes where a command has keys    *)
(* for one provider at a time.                                             *)
THEOREM Home == OneProviderAtATime => (Spec => [](IInv /\ HInv))
<1>1. Init => HInv
  BY HInit
<1>2. ASSUME OneProviderAtATime PROVE IInv /\ HInv /\ [Next]_vars => HInv'
  BY <1>2, HStep
<1> SUFFICES ASSUME OneProviderAtATime PROVE Spec => [](IInv /\ HInv)
  OBVIOUS
<1> QED
  BY <1>1, <1>2, Inductive, PTL DEF Spec

(* Where a command has keys for one provider at a time, a live call goes   *)
(* to the provider that its suite names, although one gateway is shared    *)
(* by all cases (_partition_by_availability).                              *)
THEOREM CallsGoHome == OneProviderAtATime => (Spec => []LiveCallsGoHome)
<1>1. HInv => LiveCallsGoHome
  BY DEF HInv
<1> QED
  BY <1>1, Home, PTL

(* Then whatever was recorded last under a label, by run or by compare, is *)
(* what replay gives the same repetition (_wrap_cases, CachingGateway).    *)
THEOREM RecordingsReplay == OneProviderAtATime => (Spec => []RecordedReplays)
<1>1. HInv => RecordedReplays
  BY DEF HInv
<1> QED
  BY <1>1, Home, PTL

(* And auto asks live only for what was never recorded or cannot be.       *)
THEOREM AsksOnce == OneProviderAtATime => (Spec => AutoAsksOnce)
<1> DEFINE Once == cmd.mode = "auto" =>
                     \A a \in asked' \ asked :
                       a[3][1] \notin Passthrough => recorded[<<a[2], a[3]>>] = None
<1>1. ASSUME IInv, HInv, [Next]_vars PROVE Once
  <2>1. CASE \E u \in Units : \E o \in Ends(u) : AskLive(u, o)
    <3>0. PICK u \in Units : \E o \in Ends(u) : AskLive(u, o)
      BY <2>1
    <3>1. PICK o \in Ends(u) : AskLive(u, o)
      BY <3>0
    <3>2. /\ u[1] \in Real /\ ~Hit(u) /\ label \in Labels
          /\ KeyOf(u) = <<Provider[u[1]], label, u>>
      BY <1>1, <3>1, Asked
    <3>3. asked' \ asked \subseteq {<<default, label, u>>}
      BY <3>1 DEF AskLive
    <3>4. cmd.mode = "auto" /\ u[1] \notin Passthrough => recorded[<<label, u>>] = None
      BY <1>1, <3>2 DEF Hit, Wrapped, HInv, StoreMirrors
    <3> QED
      BY <3>3, <3>4
  <2>2. CASE ~(\E u \in Units : \E o \in Ends(u) : AskLive(u, o))
    <3>1. asked' \subseteq asked
      BY <1>1, <2>2 DEF Next, Command, Repetition, NextCommand, Refuse, NothingSelected,
                        Accept, Wire, SkipAll, WiringFails, FailColumn, EndColumn, Play,
                        Serve, Miss, vars, cassettes
    <3> QED
      BY <3>1
  <2> QED
    BY <2>1, <2>2
<1>2. IInv /\ HInv /\ [Next]_vars => [Once]_vars
  BY <1>1
<1> HIDE DEF Once
<1> SUFFICES ASSUME OneProviderAtATime PROVE Spec => [][Once]_vars
  BY DEF AutoAsksOnce, Once
<1>3. Spec => [](IInv /\ HInv)
  BY Home
<1> QED
  BY <1>2, <1>3, PTL DEF Spec

-----------------------------------------------------------------------------
(* The matrix.                                                             *)

LEMMA MinOf ==
  ASSUME NEW S \in SUBSET Nat, S # {}
  PROVE  Min(S) \in S /\ \A i \in S : Min(S) <= i
BY Least DEF Min

(* A column failed or ran what it should; one that stands for 1 has a case *)
(* that did not pass.                                                      *)
ColumnShows(i) ==
  /\ columns[i].ran \subseteq Cases /\ columns[i].passed \subseteq columns[i].ran
  /\ FailedColumn(columns[i]) \/ columns[i].ran = Kept
  /\ columns[i].code = 1 => columns[i].passed # columns[i].ran

ColumnsShow == \A i \in DOMAIN columns : ColumnShows(i)

LEMMA ColumnsShowStep ==
  ASSUME IInv, ColumnsShow, [Next]_vars
  PROVE  ColumnsShow'
<1>1. ASSUME UNCHANGED <<cmd, columns>>
      PROVE  ColumnsShow'
  <2>1. Kept' = Kept
    BY <1>1 DEF Kept, NeedsKeys, Available
  <2> QED
    BY <1>1, <2>1 DEF ColumnsShow, ColumnShows, FailedColumn
<1>2. ASSUME NEW col, NextColumn(col), cmd' = cmd,
             col.ran \subseteq Cases, col.passed \subseteq col.ran,
             FailedColumn(col) \/ col.ran = Kept,
             col.code = 1 => col.passed # col.ran
      PROVE  ColumnsShow'
  <2>1. Kept' = Kept
    BY <1>2 DEF Kept, NeedsKeys, Available
  <2>2. /\ DOMAIN columns = 1 .. Len(columns) /\ Len(columns) \in Nat
        /\ DOMAIN columns' = 1 .. Len(columns) + 1
        /\ \A i \in 1 .. Len(columns) : columns'[i] = columns[i]
        /\ columns'[Len(columns) + 1] = col
    BY <1>2, Columns, ColumnsGrow DEF IInv, NextColumn
  <2> SUFFICES ASSUME NEW i \in DOMAIN columns'  PROVE ColumnShows(i)'
    BY DEF ColumnsShow
  <2>3. CASE i \in DOMAIN columns
    <3>1. columns'[i] = columns[i] /\ ColumnShows(i)
      BY <2>2, <2>3 DEF ColumnsShow
    <3> QED
      BY <2>1, <3>1 DEF ColumnShows, FailedColumn
  <2>4. CASE i = Len(columns) + 1
    BY <1>2, <2>1, <2>2, <2>4 DEF ColumnShows, FailedColumn
  <2> QED
    BY <2>2, <2>3, <2>4
<1>3. CASE NextCommand
  BY <1>3 DEF NextCommand, ColumnsShow
<1>4. CASE FailColumn
  BY <1>2, <1>4 DEF FailColumn, FailedColumn
<1>5. CASE EndColumn
  <2>1. NextColumn(Metrics) /\ cmd' = cmd /\ kept = Kept /\ Kept \subseteq Cases
    <3>1. kept = Kept
      BY <1>5 DEF EndColumn, IInv, PhaseFits
    <3>2. Kept \subseteq Cases
      BY Arguments DEF IInv, Kept
    <3> QED
      BY <1>5, <3>1, <3>2 DEF EndColumn
  <2>2. /\ Metrics.ran = kept /\ Metrics.passed = {c \in kept : Result(c).passed}
        /\ Metrics.code = ExitCode
    BY DEF Metrics
  <2>3. ExitCode = 1 => \E c \in kept : ~Result(c).passed
    BY DEF ExitCode
  <2>4. Metrics.code = 1 => Metrics.passed # Metrics.ran
    BY <2>2, <2>3
  <2> QED
    BY <1>2, <2>1, <2>2, <2>4
<1>6. CASE \/ Refuse \/ NothingSelected \/ Accept \/ Wire \/ SkipAll \/ WiringFails
           \/ Repetition \/ UNCHANGED vars
  <2>1. UNCHANGED <<cmd, columns>>
    BY <1>6, RepetitionSteps DEF Refuse, NothingSelected, Accept, Wire, SkipAll, WiringFails, vars
  <2> QED
    BY <1>1, <2>1
<1> QED
  BY <1>3, <1>4, <1>5, <1>6 DEF Next, Command

(* What a cell says of a case, by its name.                                *)
LEMMA VerdictOf ==
  ASSUME NEW col, col.ran \subseteq Cases, col.passed \subseteq col.ran, NEW c \in Cases
  PROVE  LET verdict == Verdict(col, CaseName[c]) IN
         /\ Unique(c) => /\ verdict = "pass" <=> c \in col.passed
                         /\ verdict = "fail" <=> c \in col.ran \ col.passed
         /\ c \in col.ran \ col.passed =>
              \/ verdict = "fail"
              \/ \E d \in col.passed : d < c /\ CaseName[d] = CaseName[c]
         /\ col.passed = col.ran => verdict # "fail"
<1> DEFINE named == {d \in col.ran : CaseName[d] = CaseName[c]}
           verdict == Verdict(col, CaseName[c])
<1>1. verdict = IF named = {} THEN "none"
                ELSE IF Min(named) \in col.passed THEN "pass" ELSE "fail"
  BY DEF Verdict
<1>2. named # {} => Min(named) \in named /\ \A d \in named : Min(named) <= d
  <2>1. named \in SUBSET Nat
    BY AggregationAssumption DEF Cases
  <2> HIDE DEF named
  <2> QED
    BY <2>1, MinOf
<1>3. Unique(c) => named = {c} \cap col.ran
  BY DEF Unique
<1>4. ASSUME Unique(c)
      PROVE  /\ verdict = "pass" <=> c \in col.passed
             /\ verdict = "fail" <=> c \in col.ran \ col.passed
  <2>1. CASE c \in col.ran
    <3>1. named = {c}
      BY <1>3, <1>4, <2>1
    <3>2. Min(named) = c
      BY <1>2, <3>1
    <3> HIDE DEF named, verdict
    <3> QED
      BY <1>1, <2>1, <3>1, <3>2
  <2>2. CASE c \notin col.ran
    <3>1. named = {}
      BY <1>3, <1>4, <2>2
    <3> HIDE DEF named, verdict
    <3> QED
      BY <1>1, <2>2, <3>1
  <2> QED
    BY <2>1, <2>2
<1>5. ASSUME c \in col.ran \ col.passed
      PROVE  \/ verdict = "fail"
             \/ \E d \in col.passed : d < c /\ CaseName[d] = CaseName[c]
  <2> DEFINE d == Min(named)
  <2>1. c \in named
    BY <1>5
  <2>2. d \in named /\ d <= c
    BY <1>2, <2>1
  <2>3. CASE d \in col.passed
    <3>1. d # c /\ d \in Cases /\ CaseName[d] = CaseName[c]
      BY <1>5, <2>2, <2>3
    <3>2. d < c
      BY <2>2, <3>1 DEF Cases
    <3> QED
      BY <2>3, <3>1, <3>2
  <2>4. CASE d \notin col.passed
    BY <1>1, <2>1, <2>4
  <2> QED
    BY <2>3, <2>4
<1>6. ASSUME col.passed = col.ran
      PROVE  verdict # "fail"
  <2>1. named # {} => Min(named) \in col.passed
    BY <1>2, <1>6
  <2> HIDE DEF named, verdict
  <2> QED
    BY <1>1, <2>1
<1> QED
  BY <1>4, <1>5, <1>6

LEMMA RowsAreKept ==
  ASSUME IInv, ColumnsShow
  PROVE  /\ Rows \subseteq Cases
         /\ \A i \in DOMAIN columns : ~FailedColumn(columns[i]) => Rows = Kept
<1> DEFINE ran == {i \in DOMAIN columns : ~FailedColumn(columns[i])}
<1>1. DOMAIN columns = 1 .. Len(columns)
  BY Columns DEF IInv
<1>2. ran # {} => Min(ran) \in ran
  <2>1. ran \in SUBSET Nat
    BY <1>1
  <2> HIDE DEF ran
  <2> QED
    BY <2>1, MinOf
<1>3. ran # {} => columns[Min(ran)].ran = Kept
  BY <1>2 DEF ColumnsShow, ColumnShows
<1>4. Rows = IF ran = {} THEN {} ELSE columns[Min(ran)].ran
  BY DEF Rows
<1>5. Kept \subseteq Cases
  BY Arguments DEF IInv, Kept
<1>6. \A i \in DOMAIN columns : ~FailedColumn(columns[i]) => ran # {}
  OBVIOUS
<1> HIDE DEF ran
<1> QED
  BY <1>3, <1>4, <1>5, <1>6

(* A row of the first m columns is marked where those disagree.            *)
LEMMA RowMarks ==
  ASSUME NEW cols, NEW c
  PROVE  Row(cols, c).marked <=>
           /\ \E i \in DOMAIN cols : Verdict(cols[i], CaseName[c]) = "pass"
           /\ \E i \in DOMAIN cols : Verdict(cols[i], CaseName[c]) = "fail"
BY DEF Row

LEMMA Rated ==
  ASSUME IInv, ColumnsShow, NEW i \in DOMAIN columns
  PROVE  /\ columns[i].code = 1 => /\ ~FailedColumn(columns[i])
                                   /\ Rate(columns[i])[1] # Rate(columns[i])[2]
         /\ columns[i].code = 0 => /\ ~FailedColumn(columns[i])
                                   /\ Rate(columns[i]) # None
                                   /\ Rate(columns[i])[1] = Rate(columns[i])[2]
<1> DEFINE col == columns[i]
<1>1. /\ col.ran \subseteq Cases /\ col.passed \subseteq col.ran
      /\ col.code = 1 => col.passed # col.ran
      /\ col.code = 0 => col.passed = col.ran
  BY DEF ColumnsShow, ColumnShows, IInv, ColumnsTell, ColumnTells
<1>2. IsFiniteSet(col.ran)
  <2>1. IsFiniteSet(Cases)
    BY FS_Interval, AggregationAssumption DEF Cases
  <2> QED
    BY <1>1, <2>1, FS_Subset
<1>3. /\ col.passed # col.ran => Cardinality(col.passed) # Cardinality(col.ran)
      /\ Cardinality(col.passed) \in Nat /\ Cardinality(col.ran) \in Nat
  <2>1. IsFiniteSet(col.passed)
    BY <1>1, <1>2, FS_Subset
  <2> QED
    BY <1>1, <1>2, <2>1, FS_Subset, FS_CardinalityType
<1>4. ASSUME col.code \in {0, 1}
      PROVE  ~FailedColumn(col) /\ Rate(col) = <<Cardinality(col.passed), Cardinality(col.ran)>>
  BY <1>4 DEF FailedColumn, Rate
<1> HIDE DEF col
<1>5. col.code = 1 => ~FailedColumn(col) /\ Rate(col)[1] # Rate(col)[2]
  BY <1>1, <1>3, <1>4
<1>6. ASSUME col.code = 0
      PROVE  ~FailedColumn(col) /\ Rate(col) # None /\ Rate(col)[1] = Rate(col)[2]
  <2>1. Rate(col) = <<Cardinality(col.passed), Cardinality(col.ran)>>
    BY <1>4, <1>6
  <2>2. Rate(col) \in Nat \X Nat
    BY <1>3, <2>1
  <2> QED
    BY <1>1, <1>4, <1>6, <2>1, <2>2, CompareMatrixAssumption
<1> QED
  BY <1>5, <1>6 DEF col

LEMMA Prefix ==
  ASSUME NEW s, NEW m \in Nat
  PROVE  /\ Len(SubSeq(s, 1, m)) = m /\ DOMAIN SubSeq(s, 1, m) = 1 .. m
         /\ \A i \in 1 .. m : SubSeq(s, 1, m)[i] = s[i]
<1> DEFINE S == {s[i] : i \in 1 .. m}
           first == SubSeq(s, 1, m)
<1>1. /\ first \in Seq(S)
      /\ Len(first) = IF 1 <= m THEN m - 1 + 1 ELSE 0
      /\ \A i \in 1 .. m - 1 + 1 : first[i] = s[1 + i - 1]
  <2>1. \A i \in 1 .. m : s[i] \in S
    OBVIOUS
  <2> HIDE DEF S
  <2> QED
    BY <2>1, SubSeqProperties
<1> HIDE DEF S, first
<1>2. Len(first) = m /\ DOMAIN first = 1 .. m /\ \A i \in 1 .. m : first[i] = s[i]
  BY <1>1
<1> QED
  BY <1>2 DEF first

LEMMA MatrixShows ==
  ASSUME IInv, ColumnsShow, cmd.kind = "compare", phase = "ended", columns # <<>>
  PROVE  MatrixShowsDisagreement
<1> DEFINE n == Len(columns)
           m == Min({MaxCols, n})
           shown == SubSeq(columns, 1, m)
<1>1. n \in Nat \ {0} /\ DOMAIN columns = 1 .. n /\ columns \in Seq({columns[i] : i \in DOMAIN columns})
  BY Columns, EmptySeq DEF IInv
<1>2. m \in 1 .. n /\ (m = n \/ m < n)
  <2>1. {MaxCols, n} \in SUBSET Nat /\ {MaxCols, n} # {}
    BY <1>1, CompareMatrixAssumption
  <2>2. m \in {MaxCols, n} /\ m <= n
    <3> HIDE DEF n
    <3> QED
      BY <2>1, MinOf
  <2> HIDE DEF m, n
  <2> QED
    BY <1>1, <2>2, CompareMatrixAssumption
<1>3. /\ DOMAIN shown = 1 .. m /\ Len(shown) = m
      /\ \A i \in 1 .. m : i \in DOMAIN columns /\ shown[i] = columns[i]
  <2> HIDE DEF m, n
  <2> QED
    BY <1>1, <1>2, Prefix DEF shown
<1> HIDE DEF n, m, shown
<1>4. ASSUME NEW i \in DOMAIN columns
      PROVE  columns[i].ran \subseteq Cases /\ columns[i].passed \subseteq columns[i].ran
  BY DEF ColumnsShow, ColumnShows
<1>5. /\ \A c \in Rows : Page.rows[c] = Row(columns, c) /\ Terminal.rows[c] = Row(shown, c)
      /\ \A i \in DOMAIN columns : Page.rates[i] = Rate(columns[i])
      /\ Terminal.dropped = n - m
  BY <1>3 DEF Page, Terminal, Matrix, n, m, shown
<1>6. \A c \in Rows : c \in Cases
  BY RowsAreKept
<1>7. ASSUME NEW c \in Rows, Unique(c)
      PROVE  LET disagreed ==
                   /\ \E i \in DOMAIN columns : c \in columns[i].passed
                   /\ \E i \in DOMAIN columns : c \in columns[i].ran \ columns[i].passed
             IN  /\ Page.rows[c].marked = disagreed
                 /\ Terminal.rows[c].marked => disagreed
                 /\ disagreed => Terminal.rows[c].marked \/ Terminal.dropped > 0
  <2> DEFINE disagreed ==
               /\ \E i \in DOMAIN columns : c \in columns[i].passed
               /\ \E i \in DOMAIN columns : c \in columns[i].ran \ columns[i].passed
  <2>1. \A i \in DOMAIN columns :
          /\ Verdict(columns[i], CaseName[c]) = "pass" <=> c \in columns[i].passed
          /\ Verdict(columns[i], CaseName[c]) = "fail" <=> c \in columns[i].ran \ columns[i].passed
    BY <1>4, <1>6, <1>7, VerdictOf
  <2>2. Row(columns, c).marked <=> disagreed
    BY <2>1, RowMarks
  <2>3. Row(shown, c).marked => disagreed
    BY <1>3, <2>1, RowMarks
  <2>4. m = n => (Row(shown, c).marked <=> disagreed)
    BY <1>1, <1>3, <2>1, RowMarks
  <2>5. m # n => Terminal.dropped > 0
    BY <1>1, <1>2, <1>5
  <2>6. Row(columns, c).marked = disagreed
    <3>1. Row(columns, c).marked \in BOOLEAN
      BY DEF Row
    <3> QED
      BY <2>2, <3>1
  <2> HIDE DEF disagreed
  <2>7. /\ Page.rows[c].marked = disagreed
        /\ Terminal.rows[c].marked => disagreed
        /\ disagreed => Terminal.rows[c].marked \/ Terminal.dropped > 0
    BY <1>5, <2>3, <2>4, <2>5, <2>6
  <2> QED
    BY <2>7 DEF disagreed
<1> DEFINE failing == \E c \in Rows, i \in DOMAIN columns : Page.rows[c].cells[i] = "fail"
           below == \E i \in DOMAIN columns :
                      Page.rates[i] = None \/ Page.rates[i][1] # Page.rates[i][2]
           hidden == \E i \in DOMAIN columns : \E c \in columns[i].ran \ columns[i].passed,
                       d \in columns[i].passed : d < c /\ CaseName[d] = CaseName[c]
           codes == {columns[i].code : i \in DOMAIN columns}
<1>8. \A c \in Rows, i \in DOMAIN columns : Page.rows[c].cells[i] = Verdict(columns[i], CaseName[c])
  <2>1. \A c \in Rows : \A i \in DOMAIN columns :
          Row(columns, c).cells[i] = Verdict(columns[i], CaseName[c])
    BY DEF Row
  <2> QED
    BY <1>5, <2>1
<1>9. exit \in {0, 1} => exit = Max(codes)
  BY RunCommandAssumption DEF IInv, ExitFits, Worst
<1>10. codes \in SUBSET (0 .. 3) /\ codes # {}
  <2>1. \A i \in DOMAIN columns : columns[i].code \in 0 .. 3
    BY DEF IInv, ColumnsTell, ColumnTells
  <2>2. 1 \in DOMAIN columns
    BY <1>1
  <2> QED
    BY <2>1, <2>2
<1>11. Max(codes) \in codes /\ \A k \in codes : k <= Max(codes)
  <2> HIDE DEF codes
  <2> QED
    BY <1>10, MaxOf
<1>12. ASSUME exit = 1
       PROVE  below /\ (failing \/ hidden)
  <2>1. PICK i \in DOMAIN columns : columns[i].code = 1
    BY <1>9, <1>11, <1>12
  <2>2. ~FailedColumn(columns[i]) /\ Rate(columns[i])[1] # Rate(columns[i])[2]
    BY <2>1, Rated
  <2>3. below
    BY <1>5, <2>2
  <2>4. columns[i].passed # columns[i].ran /\ columns[i].ran = Kept /\ Rows = Kept
    BY <2>1, <2>2, RowsAreKept DEF ColumnsShow, ColumnShows
  <2>5. PICK c \in columns[i].ran : c \notin columns[i].passed
    BY <1>4, <2>4
  <2>6. \/ Verdict(columns[i], CaseName[c]) = "fail"
        \/ \E d \in columns[i].passed : d < c /\ CaseName[d] = CaseName[c]
    BY <1>4, <2>5, VerdictOf
  <2>7. c \in Rows
    BY <2>4
  <2>8. failing \/ hidden
    BY <1>8, <2>5, <2>6, <2>7
  <2> QED
    BY <2>3, <2>8
<1>13. ASSUME exit = 0
       PROVE  ~failing /\ ~below
  <2>1. \A i \in DOMAIN columns : columns[i].code = 0
    <3>1. \A k \in codes : k \in 0 .. 3 /\ k <= 0
      BY <1>9, <1>10, <1>11, <1>13
    <3> QED
      BY <3>1
  <2>2. ~below
    BY <1>5, <2>1, Rated
  <2>3. ASSUME NEW c \in Rows, NEW i \in DOMAIN columns
        PROVE  Page.rows[c].cells[i] # "fail"
    <3>1. columns[i].passed = columns[i].ran
      BY <2>1 DEF IInv, ColumnsTell, ColumnTells
    <3> QED
      BY <1>4, <1>6, <1>8, <3>1, VerdictOf
  <2> QED
    BY <2>2, <2>3
<1> HIDE DEF failing, below, hidden, codes
<1>14. /\ exit = 1 => below /\ (failing \/ hidden)
       /\ exit = 0 => ~failing /\ ~below
  BY <1>12, <1>13
<1> QED
  BY <1>7, <1>14 DEF MatrixShowsDisagreement, failing, below, hidden

(* The matrices show what the columns found: a row is marked exactly where *)
(* a case passed under one label and failed under another, and the exit    *)
(* code is what the cells and the pass rates say.                          *)
THEOREM DisagreementShows == Spec => []MatrixShowsDisagreement
<1>1. Init => ColumnsShow
  BY DEF Init, ColumnsShow
<1>2. IInv /\ ColumnsShow /\ [Next]_vars => ColumnsShow'
  BY ColumnsShowStep
<1>3. IInv /\ ColumnsShow => MatrixShowsDisagreement
  BY MatrixShows DEF MatrixShowsDisagreement
<1> QED
  BY <1>1, <1>2, <1>3, Inductive, PTL DEF Spec

============================================================================
