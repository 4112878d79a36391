-------------------------- MODULE SchedulerProofs --------------------------
(***************************************************************************)
(* Proofs about Scheduler for every number of cases, repetitions, workers  *)
(* and outcomes: IInv is inductive, and with it the safety properties of   *)
(* the pool and the safety part of its contract.  And about Reports, for   *)
(* any suites as well: every result is listed once, under its suite and in *)
(* spec order, the exit code and the reports agree on what is listed, a    *)
(* partial run is never green, and a command that ends with the exit code  *)
(* of its run has left its reports.                                        *)
(***************************************************************************)
EXTENDS Reports, FiniteSetTheorems, WellFoundedInduction, SequenceTheorems,
        FunctionTheorems, TLAPS

-----------------------------------------------------------------------------
(* Units and their order.                                                  *)

(* A unit is a pair of a case and one of its repetitions.                  *)
LEMMA UnitMember ==
  ASSUME NEW c, NEW r
  PROVE  <<c, r>> \in Units <=> c \in Cases /\ r \in 0 .. Repeat[c] - 1
<1>1. ASSUME <<c, r>> \in Units
      PROVE  c \in Cases /\ r \in 0 .. Repeat[c] - 1
  <2>1. PICK d \in Cases : <<c, r>> \in {<<d, q>> : q \in 0 .. Repeat[d] - 1}
    BY <1>1 DEF Units
  <2>2. PICK q \in 0 .. Repeat[d] - 1 : <<c, r>> = <<d, q>>
    BY <2>1
  <2> QED  BY <2>2
<1>2. ASSUME c \in Cases, r \in 0 .. Repeat[c] - 1
      PROVE  <<c, r>> \in Units
  BY <1>2 DEF Units
<1> QED  BY <1>1, <1>2

LEMMA UnitShape ==
  ASSUME NEW u \in Units
  PROVE  /\ u = <<u[1], u[2]>>
         /\ u[1] \in Cases
         /\ u[2] \in 0 .. Repeat[u[1]] - 1
         /\ u[1] \in Int /\ u[2] \in Int
<1>1. PICK d \in Cases : u \in {<<d, q>> : q \in 0 .. Repeat[d] - 1}
  BY DEF Units
<1>2. PICK q \in 0 .. Repeat[d] - 1 : u = <<d, q>>
  BY <1>1
<1>3. u[1] = d /\ u[2] = q /\ u = <<u[1], u[2]>>
  BY <1>2
<1>4. d \in Int /\ q \in Int
  BY AggregationAssumption DEF Cases
<1> QED  BY <1>2, <1>3, <1>4

(* The iterator ends at Exhausted and yields a unit until then.            *)
LEMMA FirstUnitType == FirstUnit \in Units \cup {Exhausted}
<1>1. CASE NumCases = 0
  BY <1>1 DEF FirstUnit, Exhausted
<1>2. CASE NumCases # 0
  <2>1. 1 \in Cases /\ 0 \in 0 .. Repeat[1] - 1
    BY <1>2, AggregationAssumption DEF Cases
  <2> QED  BY <2>1, UnitMember DEF FirstUnit
<1> QED  BY <1>1, <1>2

LEMMA AfterType ==
  ASSUME NEW u \in Units
  PROVE  After(u) \in Units \cup {Exhausted}
<1> DEFINE c == u[1]
           r == u[2]
<1>1. /\ c \in Cases /\ c \in Int /\ r \in Int
      /\ r \in 0 .. Repeat[c] - 1 /\ Repeat[c] \in Nat \ {0}
  BY UnitShape, AggregationAssumption
<1>2. CASE r + 1 < Repeat[c]
  <2>1. r + 1 \in 0 .. Repeat[c] - 1
    BY <1>1, <1>2
  <2>2. <<c, r + 1>> \in Units
    BY <1>1, <2>1, UnitMember
  <2> QED  BY <1>2, <2>2 DEF After
<1>3. CASE ~(r + 1 < Repeat[c])
  <2>1. CASE c = NumCases
    BY <1>3, <2>1 DEF After, Exhausted
  <2>2. CASE c # NumCases
    <3>1. c + 1 \in Cases
      BY <1>1, <2>2, AggregationAssumption DEF Cases
    <3>2. 0 \in 0 .. Repeat[c + 1] - 1
      BY <3>1, AggregationAssumption
    <3>3. <<c + 1, 0>> \in Units
      BY <3>1, <3>2, UnitMember
    <3> QED  BY <1>3, <3>3 DEF After
  <2> QED  BY <2>1, <2>2
<1> QED  BY <1>2, <1>3

LEMMA BeforeExhausted ==
  ASSUME NEW u \in Units
  PROVE  Before(u, Exhausted) /\ u # Exhausted
BY UnitShape, AggregationAssumption DEF Before, Exhausted, Cases

LEMMA NothingBeforeFirst ==
  ASSUME NEW u \in Units
  PROVE  ~Before(u, FirstUnit)
BY UnitShape, AggregationAssumption DEF Before, FirstUnit, Cases

LEMMA BeforeIrreflexive ==
  ASSUME NEW u \in Units
  PROVE  ~Before(u, u)
BY UnitShape DEF Before

(* Pulling a unit moves the iterator past that unit and no other.          *)
LEMMA BeforeAfter ==
  ASSUME NEW u \in Units, NEW v \in Units
  PROVE  Before(v, After(u)) <=> v = u \/ Before(v, u)
<1>1. /\ u = <<u[1], u[2]>> /\ v = <<v[1], v[2]>>
      /\ u[1] \in Int /\ u[2] \in Int /\ v[1] \in Int /\ v[2] \in Int
      /\ v[1] \in Cases /\ v[2] \in 0 .. Repeat[v[1]] - 1
      /\ u[1] \in Cases /\ u[2] \in 0 .. Repeat[u[1]] - 1
      /\ Repeat[u[1]] \in Nat
  BY UnitShape, AggregationAssumption
<1>2. v = u <=> v[1] = u[1] /\ v[2] = u[2]
  BY <1>1
<1>3. CASE u[2] + 1 < Repeat[u[1]]
  <2>1. After(u) = <<u[1], u[2] + 1>>
    BY <1>3 DEF After
  <2> QED  BY <1>1, <1>2, <2>1 DEF Before
<1>4. CASE ~(u[2] + 1 < Repeat[u[1]])
  <2>1. After(u) = <<u[1] + 1, 0>>
    BY <1>4 DEF After
  <2>2. v[1] = u[1] => v[2] <= u[2]
    BY <1>1, <1>4
  <2> QED  BY <1>1, <1>2, <2>1, <2>2 DEF Before
<1> QED  BY <1>3, <1>4

-----------------------------------------------------------------------------
(* Finite sets: the units, and the filled slots of a case.                 *)

LEMMA UnitsFinite == IsFiniteSet(Units)
<1> DEFINE UnitsOf == [c \in Cases |-> {<<c, r>> : r \in 0 .. Repeat[c] - 1}]
           Parts == {UnitsOf[c] : c \in Cases}
<1>1. IsFiniteSet(Cases)
  BY FS_Interval, AggregationAssumption DEF Cases
<1>2. IsFiniteSet(Parts)
  <2>1. UnitsOf \in Surjection(Cases, Parts)
    BY DEF Surjection
  <2> QED  BY <1>1, <2>1, FS_Surjection
<1>3. ASSUME NEW P \in Parts
      PROVE  IsFiniteSet(P)
  <2>1. PICK c \in Cases : P = {<<c, r>> : r \in 0 .. Repeat[c] - 1}
    OBVIOUS
  <2>2. IsFiniteSet(0 .. Repeat[c] - 1)
    BY FS_Interval, AggregationAssumption
  <2>3. [r \in 0 .. Repeat[c] - 1 |-> <<c, r>>]
           \in Surjection(0 .. Repeat[c] - 1, P)
    BY <2>1 DEF Surjection
  <2> QED  BY <2>2, <2>3, FS_Surjection
<1>4. IsFiniteSet(UNION Parts)
  BY <1>2, <1>3, FS_UNION
<1>5. Units = UNION Parts
  BY DEF Units
<1> QED  BY <1>4, <1>5

(* The counter reaches `repeat` exactly when every slot is filled.         *)
LEMMA FilledCount ==
  ASSUME NEW s, NEW c \in Cases
  PROVE  /\ IsFiniteSet(Filled(s, c))
         /\ Cardinality(Filled(s, c)) \in Nat
         /\ Cardinality(Filled(s, c)) <= Repeat[c]
         /\ Cardinality(Filled(s, c)) = Repeat[c] <=> AllFilled(s, c)
<1> DEFINE R == 0 .. Repeat[c] - 1
<1>1. IsFiniteSet(R) /\ Cardinality(R) = Repeat[c] /\ Repeat[c] \in Nat
  <2>1. Repeat[c] \in Nat \ {0}
    BY AggregationAssumption
  <2>2. 0 \in Int /\ Repeat[c] - 1 \in Int
    BY <2>1
  <2>3. /\ IsFiniteSet(R)
        /\ Cardinality(R) = IF 0 > Repeat[c] - 1 THEN 0 ELSE Repeat[c] - 1 - 0 + 1
    BY <2>2, FS_Interval
  <2> QED  BY <2>1, <2>3
<1>2. Filled(s, c) \in SUBSET R
  BY DEF Filled
<1>3. /\ IsFiniteSet(Filled(s, c))
      /\ Cardinality(Filled(s, c)) <= Cardinality(R)
      /\ Cardinality(R) = Cardinality(Filled(s, c)) => R = Filled(s, c)
  BY <1>1, <1>2, FS_Subset
<1>4. R = Filled(s, c) <=> AllFilled(s, c)
  BY DEF Filled, AllFilled
<1>5. Cardinality(Filled(s, c)) \in Nat
  BY <1>3, FS_CardinalityType
<1> QED  BY <1>1, <1>3, <1>4, <1>5

(* A nonempty set of repetitions has a least one.                          *)
LEMMA LeastMember ==
  ASSUME NEW S \in SUBSET Nat, S # {}
  PROVE  \E r \in S : \A q \in S : r <= q
<1>1. IsWellFoundedOn(OpToRel(<, Nat), Nat)
  BY NatLessThanWellFounded, Zenon
<1>2. PICK r \in S : \A q \in S : ~(<<q, r>> \in OpToRel(<, Nat))
  BY <1>1, WFMin
<1>3. \A q \in S : ~(q < r)
  BY <1>2 DEF OpToRel
<1> QED  BY <1>3

LEMMA RepresentativeType ==
  ASSUME NEW passing, NEW c \in Cases
  PROVE  Representative(passing, c) \in 0 .. Repeat[c] - 1
<1> DEFINE failing == (0 .. Repeat[c] - 1) \ passing
<1>1. Repeat[c] \in Nat \ {0}
  BY AggregationAssumption
<1>2. CASE failing = {}
  BY <1>1, <1>2 DEF Representative
<1>3. CASE failing # {}
  <2>1. failing \in SUBSET Nat
    OBVIOUS
  <2>2. \E r \in failing : \A q \in failing : r <= q
    BY <1>3, <2>1, LeastMember
  <2>3. Representative(passing, c) \in failing
    BY <1>3, <2>2 DEF Representative
  <2> QED  BY <2>3
<1> QED  BY <1>2, <1>3

(* What is published is a CaseResult.                                      *)
LEMMA AggregateType ==
  ASSUME NEW s \in [Units -> Outcomes \cup {None}], NEW c \in Cases,
         AllFilled(s, c)
  PROVE  Aggregate(s, c) \in Results
<1>1. s[<<c, Representative(Passing(s, c), c)>>] \in Outcomes
  BY RepresentativeType, UnitMember DEF AllFilled
<1>2. Passed(s[<<c, 0>>]) \in BOOLEAN
  BY DEF Passed
<1>3. MeetsRate(Passing(s, c), c) \in BOOLEAN
  BY DEF MeetsRate
<1> QED  BY <1>1, <1>2, <1>3 DEF Aggregate, Results

(* Filling an empty slot of a case adds one to its count and leaves the    *)
(* slots of the other cases alone.                                         *)
LEMMA FillSlot ==
  ASSUME NEW s, NEW t, NEW u \in Units,
         s[u] = None, t[u] # None,
         \A v \in Units : v # u => t[v] = s[v]
  PROVE  /\ Cardinality(Filled(t, u[1])) = Cardinality(Filled(s, u[1])) + 1
         /\ \A d \in Cases : d # u[1] => /\ Filled(t, d) = Filled(s, d)
                                         /\ AllFilled(t, d) <=> AllFilled(s, d)
                                         /\ Aggregate(t, d) = Aggregate(s, d)
<1> DEFINE c == u[1]
           r == u[2]
<1>1. /\ u = <<c, r>> /\ c \in Cases /\ r \in 0 .. Repeat[c] - 1
  BY UnitShape
<1>2. ASSUME NEW d \in Cases, NEW q \in 0 .. Repeat[d] - 1, d # c \/ q # r
      PROVE  t[<<d, q>>] = s[<<d, q>>]
  <2>1. <<d, q>> \in Units
    BY UnitMember
  <2>2. <<d, q>> # u
    BY <1>1, <1>2
  <2> QED  BY <2>1, <2>2
<1>3. Cardinality(Filled(t, c)) = Cardinality(Filled(s, c)) + 1
  <2>1. s[<<c, r>>] = None /\ t[<<c, r>>] # None
    BY <1>1
  <2>2. \A q \in 0 .. Repeat[c] - 1 : q # r => t[<<c, q>>] = s[<<c, q>>]
    BY <1>1, <1>2
  <2> HIDE DEF c, r
  <2>3. Filled(t, c) = Filled(s, c) \cup {r}
    BY <1>1, <2>1, <2>2 DEF Filled
  <2>4. r \notin Filled(s, c)
    BY <2>1 DEF Filled
  <2> QED  BY <1>1, <2>3, <2>4, FilledCount, FS_AddElement
<1>4. ASSUME NEW d \in Cases, d # c
      PROVE  /\ Filled(t, d) = Filled(s, d)
             /\ AllFilled(t, d) <=> AllFilled(s, d)
             /\ Aggregate(t, d) = Aggregate(s, d)
  <2>1. \A q \in 0 .. Repeat[d] - 1 : t[<<d, q>>] = s[<<d, q>>]
    BY <1>2, <1>4
  <2>2. Filled(t, d) = Filled(s, d) /\ (AllFilled(t, d) <=> AllFilled(s, d))
    BY <2>1 DEF Filled, AllFilled
  <2>3. Passing(t, d) = Passing(s, d)
    BY <2>1 DEF Passing
  <2>4. /\ Representative(Passing(s, d), d) \in 0 .. Repeat[d] - 1
        /\ 0 \in 0 .. Repeat[d] - 1
    BY RepresentativeType, AggregationAssumption
  <2>5. /\ t[<<d, 0>>] = s[<<d, 0>>]
        /\ t[<<d, Representative(Passing(t, d), d)>>]
             = s[<<d, Representative(Passing(s, d), d)>>]
    BY <2>1, <2>3, <2>4
  <2>6. MeetsRate(Passing(t, d), d) = MeetsRate(Passing(s, d), d)
    BY <2>3
  <2> QED  BY <2>2, <2>5, <2>6 DEF Aggregate
<1> QED  BY <1>3, <1>4

-----------------------------------------------------------------------------
(* IInv is inductive.                                                      *)

LEMMA InitIInv == Init => IInv
<1> SUFFICES ASSUME Init  PROVE IInv
  OBVIOUS
<1>1. TypeOK
  <2>1. progress \in Seq(Cases)
    BY DEF Init
  <2> QED  BY <2>1, FirstUnitType DEF Init, TypeOK
<1>2. ~Tripped
  BY DEF Init, Tripped
<1>3. \A c \in Cases : Filled(slots, c) = {}
  BY UnitMember DEF Init, Filled
<1>4. CountersMatch
  BY <1>3, FS_EmptySet DEF Init, CountersMatch
<1>5. ResultsMatchSlots
  <2> SUFFICES ASSUME NEW c \in Cases  PROVE ~AllFilled(slots, c)
    BY DEF Init, ResultsMatchSlots
  <2>1. 0 \in 0 .. Repeat[c] - 1
    BY AggregationAssumption
  <2>2. slots[<<c, 0>>] = None
    BY <2>1, UnitMember DEF Init
  <2> QED  BY <2>1, <2>2 DEF AllFilled
<1>6. ClaimedOnce /\ HeldMatchesState
  BY DEF Init, ClaimedOnce, HeldMatchesState
<1>7. ClaimsBehind
  BY DEF Init, ClaimsBehind
<1>8. ClaimsKept
  BY NothingBeforeFirst DEF Init, ClaimsKept
<1>9. StopReachesAll /\ NoWorkerLeavesEarly /\ ReturnedLast
  BY <1>2 DEF Init, StopReachesAll, NoWorkerLeavesEarly, ReturnedLast
<1> QED  BY <1>1, <1>4, <1>5, <1>6, <1>7, <1>8, <1>9 DEF IInv

(* What the pull of a worker that is about to run does to the claims.      *)
LEMMA PullKeepsClaims ==
  ASSUME IInv, NEW w \in Workers, state[w] \in {"new", "busy"}, Pull(w),
         \A u \in Units : IF u = held[w] THEN slots'[u] # None
                                         ELSE slots'[u] = slots[u],
         ~Tripped', returned' = returned
  PROVE  /\ next' \in Units \cup {Exhausted}
         /\ state' \in [Workers -> {"new", "busy", "cancelling", "done"}]
         /\ held' \in [Workers -> Units \cup {None}]
         /\ ClaimedOnce'
         /\ HeldMatchesState'
         /\ ClaimsBehind'
         /\ StopReachesAll'
         /\ ClaimsKept'
         /\ NoWorkerLeavesEarly'
         /\ ReturnedLast'
<1> USE DEF IInv
<1>1. /\ next \in Units \cup {Exhausted}
      /\ state \in [Workers -> {"new", "busy", "cancelling", "done"}]
      /\ held \in [Workers -> Units \cup {None}]
  BY DEF TypeOK
<1>2. ~Tripped
  BY DEF StopReachesAll
<1>3. returned' = returned /\ ~returned
  <2>1. returned \in BOOLEAN /\ ~returned
    BY DEF ReturnedLast, TypeOK
  <2> QED  BY <2>1
<1>4. CASE next = Exhausted
  <2>1. /\ state' = [state EXCEPT ![w] = "done"]
        /\ held' = [held EXCEPT ![w] = None]
        /\ next' = next
    BY <1>4 DEF Pull
  <2>2. ClaimedOnce'
    BY <1>1, <2>1 DEF ClaimedOnce
  <2>3. HeldMatchesState'
    BY <1>1, <2>1 DEF HeldMatchesState
  <2>4. ClaimsBehind'
    BY <1>1, <1>4, <2>1, BeforeExhausted DEF ClaimsBehind
  <2>5. StopReachesAll'
    BY <1>1, <1>2, <2>1 DEF StopReachesAll
  <2>6. ClaimsKept'
    <3> SUFFICES ASSUME Escapes = {}, NEW u \in Units, slots'[u] = None,
                        Before(u, next)
                 PROVE  \E v \in Workers : held'[v] = u
      BY <2>1 DEF ClaimsKept
    <3>1. u # held[w] /\ slots[u] = None
      OBVIOUS
    <3>2. PICK v \in Workers : held[v] = u
      BY <1>2, <3>1 DEF ClaimsKept
    <3> QED  BY <1>1, <2>1, <3>1, <3>2
  <2>7. NoWorkerLeavesEarly'
    BY <1>4, <2>1 DEF NoWorkerLeavesEarly
  <2>8. ReturnedLast'
    BY <1>3 DEF ReturnedLast
  <2> QED  BY <1>1, <2>1, <2>2, <2>3, <2>4, <2>5, <2>6, <2>7, <2>8
<1>5. CASE next # Exhausted
  <2>1. /\ state' = [state EXCEPT ![w] = "busy"]
        /\ held' = [held EXCEPT ![w] = next]
        /\ next' = After(next)
        /\ next \in Units
    BY <1>1, <1>5 DEF Pull
  <2>2. next # None
    BY <2>1, NoneAssumption
  <2>3. slots'[next] = None /\ \A v \in Workers : held[v] # next
    BY <1>1, <2>1, <2>2, BeforeIrreflexive DEF ClaimsBehind
  <2>4. ClaimedOnce'
    BY <1>1, <2>1, <2>2, <2>3 DEF ClaimedOnce
  <2>5. HeldMatchesState'
    BY <1>1, <2>1, <2>2 DEF HeldMatchesState
  <2>6. ClaimsBehind'
    <3>1. \A v \in Workers : held'[v] # None => Before(held'[v], next')
      BY <1>1, <2>1, BeforeAfter DEF ClaimsBehind
    <3>2. ASSUME NEW u \in Units, slots'[u] # None
          PROVE  Before(u, next')
      <4>1. Before(u, next)
        BY <3>2, NoneAssumption DEF ClaimsBehind
      <4> QED  BY <2>1, <4>1, BeforeAfter
    <3> QED  BY <3>1, <3>2 DEF ClaimsBehind
  <2>7. StopReachesAll'
    BY <1>1, <1>2, <2>1 DEF StopReachesAll
  <2>8. ClaimsKept'
    <3> SUFFICES ASSUME Escapes = {}, NEW u \in Units, slots'[u] = None,
                        Before(u, next')
                 PROVE  \E v \in Workers : held'[v] = u
      BY DEF ClaimsKept
    <3>1. CASE u = next
      BY <1>1, <2>1, <3>1
    <3>2. CASE u # next
      <4>1. Before(u, next)
        BY <2>1, <3>2, BeforeAfter
      <4>2. u # held[w] /\ slots[u] = None
        OBVIOUS
      <4>3. PICK v \in Workers : held[v] = u
        BY <1>2, <4>1, <4>2 DEF ClaimsKept
      <4> QED  BY <1>1, <2>1, <4>2, <4>3
    <3> QED  BY <3>1, <3>2
  <2>9. NoWorkerLeavesEarly'
    BY <1>1, <1>2, <1>5, <2>1 DEF NoWorkerLeavesEarly
  <2>10. ReturnedLast'
    BY <1>3 DEF ReturnedLast
  <2> QED  BY <1>1, <2>1, <2>4, <2>5, <2>6, <2>7, <2>8, <2>9, <2>10, AfterType
<1> QED  BY <1>4, <1>5

LEMMA StartIInv ==
  ASSUME IInv, NEW w \in Workers, Start(w)
  PROVE  IInv'
<1>1. /\ state[w] = "new" /\ Pull(w)
      /\ slots' = slots /\ filled' = filled /\ results' = results
      /\ progress' = progress /\ returned' = returned
  BY DEF Start
<1>2. Tripped' <=> Tripped
  BY <1>1 DEF Tripped
<1>3. held[w] = None /\ ~Tripped
  BY <1>1 DEF IInv, HeldMatchesState, StopReachesAll
<1>4. \A u \in Units : IF u = held[w] THEN slots'[u] # None
                                      ELSE slots'[u] = slots[u]
  BY <1>1, <1>3, NoneAssumption
<1>5. /\ next' \in Units \cup {Exhausted}
      /\ state' \in [Workers -> {"new", "busy", "cancelling", "done"}]
      /\ held' \in [Workers -> Units \cup {None}]
      /\ ClaimedOnce' /\ HeldMatchesState' /\ ClaimsBehind' /\ StopReachesAll'
      /\ ClaimsKept' /\ NoWorkerLeavesEarly' /\ ReturnedLast'
  <2>1. state[w] \in {"new", "busy"}
    BY <1>1
  <2>2. ~Tripped'
    BY <1>2, <1>3
  <2> QED  BY <1>1, <1>4, <2>1, <2>2, PullKeepsClaims
<1>6. TypeOK'
  BY <1>1, <1>5 DEF IInv, TypeOK
<1>7. ResultsMatchSlots' /\ CountersMatch'
  BY <1>1 DEF IInv, ResultsMatchSlots, CountersMatch
<1> QED  BY <1>5, <1>6, <1>7 DEF IInv

(* The outcome of a unit in flight lands in an empty slot of its case.     *)
LEMMA DepositCounts ==
  ASSUME IInv, NEW w \in Workers, NEW o \in Outcomes, Deposit(w, o)
  PROVE  LET c == held[w][1] IN
         /\ held[w] \in Units /\ c \in Cases
         /\ slots' \in [Units -> Outcomes \cup {None}]
         /\ filled' \in [Cases -> Nat]
         /\ \A u \in Units : IF u = held[w] THEN slots'[u] # None
                                            ELSE slots'[u] = slots[u]
         /\ CountersMatch'
         /\ ~AllFilled(slots, c)
         /\ AllFilled(slots', c) <=> ~(filled'[c] < Repeat[c])
         /\ \A d \in Cases : d # c =>
              /\ AllFilled(slots', d) <=> AllFilled(slots, d)
              /\ Aggregate(slots', d) = Aggregate(slots, d)
<1> DEFINE u == held[w]
           c == held[w][1]
           r == held[w][2]
<1>1. /\ u \in Units /\ slots[u] = None /\ c \in Cases
      /\ slots \in [Units -> Outcomes \cup {None}]
      /\ filled \in [Cases -> Nat]
  <2>1. held[w] # None
    BY DEF IInv, HeldMatchesState, Deposit
  <2> QED  BY <2>1, UnitShape DEF IInv, TypeOK, ClaimedOnce
<1>2. /\ slots' = [slots EXCEPT ![u] = o]
      /\ filled' = [filled EXCEPT ![c] = filled[c] + 1]
  BY DEF Deposit
<1>3. /\ slots' \in [Units -> Outcomes \cup {None}]
      /\ slots'[u] # None
      /\ \A v \in Units : v # u => slots'[v] = slots[v]
  BY <1>1, <1>2, NoneAssumption
<1>4. /\ Cardinality(Filled(slots', c)) = Cardinality(Filled(slots, c)) + 1
      /\ \A d \in Cases : d # c => /\ Filled(slots', d) = Filled(slots, d)
                                   /\ AllFilled(slots', d) <=> AllFilled(slots, d)
                                   /\ Aggregate(slots', d) = Aggregate(slots, d)
  BY <1>1, <1>3, FillSlot
<1>5. filled' \in [Cases -> Nat]
  BY <1>1, <1>2
<1>6. CountersMatch'
  BY <1>1, <1>2, <1>4 DEF IInv, CountersMatch
<1>7. ~AllFilled(slots, c)
  BY <1>1, UnitShape DEF AllFilled
<1>8. AllFilled(slots', c) <=> ~(filled'[c] < Repeat[c])
  <2>1. /\ Cardinality(Filled(slots', c)) <= Repeat[c]
        /\ Cardinality(Filled(slots', c)) = Repeat[c] <=> AllFilled(slots', c)
    BY <1>1, FilledCount
  <2>2. filled'[c] = Cardinality(Filled(slots', c))
    BY <1>1, <1>6 DEF CountersMatch
  <2>3. filled'[c] \in Nat /\ Repeat[c] \in Nat
    BY <1>1, <1>5, AggregationAssumption
  <2> QED  BY <2>1, <2>2, <2>3
<1> QED  BY <1>1, <1>3, <1>4, <1>5, <1>6, <1>7, <1>8

LEMMA FinishRepetitionIInv ==
  ASSUME IInv, NEW w \in Workers, NEW o \in Outcomes, FinishRepetition(w, o)
  PROVE  IInv'
<1> DEFINE c == held[w][1]
<1>1. /\ Deposit(w, o) /\ Pull(w) /\ filled'[c] < Repeat[c]
      /\ results' = results /\ progress' = progress /\ returned' = returned
      /\ state[w] = "busy"
  BY DEF FinishRepetition, Deposit
<1>2. /\ c \in Cases /\ held[w] \in Units
      /\ slots' \in [Units -> Outcomes \cup {None}]
      /\ filled' \in [Cases -> Nat]
      /\ \A u \in Units : IF u = held[w] THEN slots'[u] # None
                                         ELSE slots'[u] = slots[u]
      /\ CountersMatch'
      /\ ~AllFilled(slots, c) /\ ~AllFilled(slots', c)
      /\ \A d \in Cases : d # c => /\ AllFilled(slots', d) <=> AllFilled(slots, d)
                                   /\ Aggregate(slots', d) = Aggregate(slots, d)
  BY <1>1, DepositCounts
<1>3. ResultsMatchSlots'
  BY <1>1, <1>2 DEF IInv, ResultsMatchSlots
<1>4. ~Tripped'
  <2>1. ~Tripped
    BY <1>1 DEF IInv, StopReachesAll
  <2> QED  BY <1>1, <2>1 DEF Tripped
<1>5. /\ next' \in Units \cup {Exhausted}
      /\ state' \in [Workers -> {"new", "busy", "cancelling", "done"}]
      /\ held' \in [Workers -> Units \cup {None}]
      /\ ClaimedOnce' /\ HeldMatchesState' /\ ClaimsBehind' /\ StopReachesAll'
      /\ ClaimsKept' /\ NoWorkerLeavesEarly' /\ ReturnedLast'
  <2>1. state[w] \in {"new", "busy"}
    BY <1>1
  <2> HIDE DEF c
  <2> QED  BY <1>1, <1>2, <1>4, <2>1, PullKeepsClaims
<1>6. TypeOK'
  BY <1>1, <1>2, <1>5 DEF IInv, TypeOK
<1> QED  BY <1>2, <1>3, <1>5, <1>6 DEF IInv

(* The step that fills the last slot publishes the aggregate.              *)
LEMMA PublishResult ==
  ASSUME IInv, NEW w \in Workers, NEW o \in Outcomes, Publish(w, o)
  PROVE  LET c == held[w][1] IN
         /\ held[w] \in Units /\ c \in Cases
         /\ slots' \in [Units -> Outcomes \cup {None}]
         /\ filled' \in [Cases -> Nat]
         /\ \A u \in Units : IF u = held[w] THEN slots'[u] # None
                                            ELSE slots'[u] = slots[u]
         /\ CountersMatch'
         /\ ResultsMatchSlots'
         /\ results' \in [Cases -> Results \cup {None}]
         /\ results'[c] \in Results
         /\ \A d \in Cases : d # c => results'[d] = results[d]
         /\ progress' \in Seq(Cases)
         /\ ~Tripped
<1> DEFINE c == held[w][1]
<1>1. /\ Deposit(w, o) /\ ~(filled'[c] < Repeat[c])
      /\ results' = [results EXCEPT ![c] = Aggregate(slots', c)]
      /\ progress' = Append(progress, c)
      /\ state[w] = "busy"
  BY DEF Publish, Deposit
<1>2. /\ c \in Cases /\ held[w] \in Units
      /\ slots' \in [Units -> Outcomes \cup {None}]
      /\ filled' \in [Cases -> Nat]
      /\ \A u \in Units : IF u = held[w] THEN slots'[u] # None
                                         ELSE slots'[u] = slots[u]
      /\ CountersMatch'
      /\ AllFilled(slots', c)
      /\ \A d \in Cases : d # c => /\ AllFilled(slots', d) <=> AllFilled(slots, d)
                                   /\ Aggregate(slots', d) = Aggregate(slots, d)
  BY <1>1, DepositCounts
<1>3. results \in [Cases -> Results \cup {None}] /\ progress \in Seq(Cases)
  BY DEF IInv, TypeOK
<1>4. Aggregate(slots', c) \in Results
  BY <1>2, AggregateType
<1>5. /\ results' \in [Cases -> Results \cup {None}]
      /\ results'[c] = Aggregate(slots', c)
      /\ \A d \in Cases : d # c => results'[d] = results[d]
  BY <1>1, <1>2, <1>3, <1>4
<1>6. ResultsMatchSlots'
  BY <1>2, <1>5 DEF IInv, ResultsMatchSlots
<1>7. progress' \in Seq(Cases)
  BY <1>1, <1>2, <1>3
<1>8. ~Tripped
  BY <1>1 DEF IInv, StopReachesAll
<1> QED  BY <1>2, <1>4, <1>5, <1>6, <1>7, <1>8

LEMMA FinishCaseIInv ==
  ASSUME IInv, NEW w \in Workers, NEW o \in Outcomes, FinishCase(w, o)
  PROVE  IInv'
<1> DEFINE c == held[w][1]
<1>1. /\ Publish(w, o) /\ Pull(w) /\ ~(FailFast /\ ~results'[c].passed)
      /\ returned' = returned /\ state[w] = "busy"
  BY DEF FinishCase, Publish, Deposit
<1>2. /\ c \in Cases /\ held[w] \in Units
      /\ slots' \in [Units -> Outcomes \cup {None}]
      /\ filled' \in [Cases -> Nat]
      /\ \A u \in Units : IF u = held[w] THEN slots'[u] # None
                                         ELSE slots'[u] = slots[u]
      /\ CountersMatch' /\ ResultsMatchSlots'
      /\ results' \in [Cases -> Results \cup {None}]
      /\ \A d \in Cases : d # c => results'[d] = results[d]
      /\ progress' \in Seq(Cases)
      /\ ~Tripped
  BY <1>1, PublishResult
<1>3. ~Tripped'
  <2> SUFFICES ASSUME FailFast, NEW d \in Cases,
                      results'[d] # None, ~results'[d].passed
               PROVE  FALSE
    BY DEF Tripped
  <2>1. d # c
    BY <1>1
  <2> QED  BY <1>2, <2>1 DEF Tripped
<1>4. /\ next' \in Units \cup {Exhausted}
      /\ state' \in [Workers -> {"new", "busy", "cancelling", "done"}]
      /\ held' \in [Workers -> Units \cup {None}]
      /\ ClaimedOnce' /\ HeldMatchesState' /\ ClaimsBehind' /\ StopReachesAll'
      /\ ClaimsKept' /\ NoWorkerLeavesEarly' /\ ReturnedLast'
  <2>1. state[w] \in {"new", "busy"}
    BY <1>1
  <2> HIDE DEF c
  <2> QED  BY <1>1, <1>2, <1>3, <2>1, PullKeepsClaims
<1>5. TypeOK'
  BY <1>1, <1>2, <1>4 DEF IInv, TypeOK
<1> QED  BY <1>2, <1>4, <1>5 DEF IInv

LEMMA FinishCaseAndStopIInv ==
  ASSUME IInv, NEW w \in Workers, NEW o \in Outcomes, FinishCaseAndStop(w, o)
  PROVE  IInv'
<1> DEFINE c == held[w][1]
<1>1. /\ Publish(w, o) /\ FailFast /\ ~results'[c].passed
      /\ state' = [v \in Workers |->
                     IF v = w \/ state[v] = "done" THEN "done" ELSE "cancelling"]
      /\ held' = [held EXCEPT ![w] = None]
      /\ next' = next /\ returned' = returned /\ state[w] = "busy"
  BY DEF FinishCaseAndStop, Publish, Deposit
<1>2. /\ c \in Cases /\ held[w] \in Units
      /\ slots' \in [Units -> Outcomes \cup {None}]
      /\ filled' \in [Cases -> Nat]
      /\ \A u \in Units : IF u = held[w] THEN slots'[u] # None
                                         ELSE slots'[u] = slots[u]
      /\ CountersMatch' /\ ResultsMatchSlots'
      /\ results' \in [Cases -> Results \cup {None}]
      /\ results'[c] \in Results
      /\ progress' \in Seq(Cases)
  BY <1>1, PublishResult
<1>3. Tripped'
  BY <1>1, <1>2, NoneAssumption DEF Tripped
<1>4. /\ next \in Units \cup {Exhausted}
      /\ state \in [Workers -> {"new", "busy", "cancelling", "done"}]
      /\ held \in [Workers -> Units \cup {None}]
      /\ held[w] # None
  BY <1>1 DEF IInv, TypeOK, HeldMatchesState
<1>5. TypeOK'
  BY <1>1, <1>2, <1>4 DEF IInv, TypeOK
<1>6. ClaimedOnce'
  BY <1>1, <1>2, <1>4 DEF IInv, ClaimedOnce
<1>7. HeldMatchesState'
  BY <1>1, <1>4 DEF IInv, HeldMatchesState
<1>8. ClaimsBehind'
  BY <1>1, <1>2, <1>4 DEF IInv, ClaimsBehind
<1>9. StopReachesAll'
  BY <1>1, <1>3, <1>4 DEF StopReachesAll
<1>10. ReturnedLast'
  BY <1>1 DEF IInv, ReturnedLast
<1>11. ClaimsKept' /\ NoWorkerLeavesEarly'
  BY <1>3 DEF ClaimsKept, NoWorkerLeavesEarly
<1> QED  BY <1>2, <1>5, <1>6, <1>7, <1>8, <1>9, <1>10, <1>11 DEF IInv

(* A task that ends with its unit: cancelled, or by the case's own code.   *)
LEMMA LeaveIInv ==
  ASSUME IInv, NEW w \in Workers,
         Tripped \/ (Escapes # {} /\ state[w] # "new"), ~returned,
         state' = [state EXCEPT ![w] = "done"],
         held' = [held EXCEPT ![w] = None],
         UNCHANGED <<next, slots, filled, results, progress, returned>>
  PROVE  IInv'
<1>1. /\ next' = next /\ slots' = slots /\ filled' = filled
      /\ results' = results /\ progress' = progress /\ returned' = returned
      /\ Tripped' = Tripped
  BY DEF Tripped
<1>2. /\ state \in [Workers -> {"new", "busy", "cancelling", "done"}]
      /\ held \in [Workers -> Units \cup {None}]
  BY DEF IInv, TypeOK
<1>3. TypeOK'
  BY <1>1, <1>2 DEF IInv, TypeOK
<1>4. ClaimedOnce' /\ HeldMatchesState' /\ ClaimsBehind'
  BY <1>1, <1>2 DEF IInv, ClaimedOnce, HeldMatchesState, ClaimsBehind
<1>5. ResultsMatchSlots' /\ CountersMatch'
  BY <1>1 DEF IInv, ResultsMatchSlots, CountersMatch
<1>6. StopReachesAll'
  BY <1>1, <1>2 DEF IInv, StopReachesAll
<1>7. ClaimsKept' /\ NoWorkerLeavesEarly'
  BY <1>1 DEF ClaimsKept, NoWorkerLeavesEarly
<1>8. ReturnedLast'
  BY <1>1 DEF ReturnedLast
<1> QED  BY <1>3, <1>4, <1>5, <1>6, <1>7, <1>8 DEF IInv

LEMMA UnwindIInv ==
  ASSUME IInv, NEW w \in Workers, Unwind(w)
  PROVE  IInv'
<1>1. Tripped
  BY DEF IInv, StopReachesAll, Unwind
<1>2. ~returned
  BY DEF IInv, ReturnedLast, TypeOK, Unwind
<1> QED  BY <1>1, <1>2, LeaveIInv DEF Unwind

LEMMA EscapeIInv ==
  ASSUME IInv, NEW w \in Workers, Escape(w)
  PROVE  IInv'
<1>1. Escapes # {} /\ state[w] = "busy"
  BY DEF Escape
<1>2. ~returned
  BY <1>1 DEF IInv, ReturnedLast, TypeOK
<1> QED  BY <1>1, <1>2, LeaveIInv DEF Escape

LEMMA ReturnIInv ==
  ASSUME IInv, Return
  PROVE  IInv'
<1>1. /\ next' = next /\ state' = state /\ held' = held /\ slots' = slots
      /\ filled' = filled /\ results' = results /\ progress' = progress
      /\ returned' = TRUE /\ \A w \in Workers : state[w] = "done"
  BY DEF Return
<1>2. Tripped' <=> Tripped
  BY <1>1 DEF Tripped
<1>3. TypeOK'
  BY <1>1 DEF IInv, TypeOK
<1>4. ClaimedOnce' /\ HeldMatchesState' /\ ClaimsBehind'
  BY <1>1 DEF IInv, ClaimedOnce, HeldMatchesState, ClaimsBehind
<1>5. ResultsMatchSlots' /\ CountersMatch' /\ ReturnedLast'
  BY <1>1 DEF IInv, ResultsMatchSlots, CountersMatch, ReturnedLast
<1>6. StopReachesAll' /\ ClaimsKept' /\ NoWorkerLeavesEarly'
  BY <1>1, <1>2 DEF IInv, StopReachesAll, ClaimsKept, NoWorkerLeavesEarly
<1> QED  BY <1>3, <1>4, <1>5, <1>6 DEF IInv

LEMMA StutterIInv ==
  ASSUME IInv, UNCHANGED vars
  PROVE  IInv'
<1>1. /\ next' = next /\ state' = state /\ held' = held /\ slots' = slots
      /\ filled' = filled /\ results' = results /\ progress' = progress
      /\ returned' = returned
  BY DEF vars
<1>2. Tripped' <=> Tripped
  BY <1>1 DEF Tripped
<1>3. TypeOK' /\ ClaimedOnce' /\ HeldMatchesState' /\ ClaimsBehind'
  BY <1>1 DEF IInv, TypeOK, ClaimedOnce, HeldMatchesState, ClaimsBehind
<1>4. ResultsMatchSlots' /\ CountersMatch' /\ ReturnedLast'
  BY <1>1 DEF IInv, ResultsMatchSlots, CountersMatch, ReturnedLast
<1>5. StopReachesAll' /\ ClaimsKept' /\ NoWorkerLeavesEarly'
  BY <1>1, <1>2 DEF IInv, StopReachesAll, ClaimsKept, NoWorkerLeavesEarly
<1> QED  BY <1>3, <1>4, <1>5 DEF IInv

(* IInv holds throughout: the claims, slots, counters, results and worker  *)
(* states of run_suites stay consistent, whatever the interleaving.        *)
THEOREM Inductive == Spec => []IInv
<1>1. IInv /\ [Next]_vars => IInv'
  <2> SUFFICES ASSUME IInv, [Next]_vars  PROVE IInv'
    OBVIOUS
  <2>1. CASE Return
    BY <2>1, ReturnIInv
  <2>2. ASSUME NEW w \in Workers, Start(w)  PROVE IInv'
    BY <2>2, StartIInv
  <2>3. ASSUME NEW w \in Workers, NEW o \in Outcomes, FinishRepetition(w, o)
        PROVE  IInv'
    BY <2>3, FinishRepetitionIInv
  <2>4. ASSUME NEW w \in Workers, NEW o \in Outcomes, FinishCase(w, o)
        PROVE  IInv'
    BY <2>4, FinishCaseIInv
  <2>5. ASSUME NEW w \in Workers, NEW o \in Outcomes, FinishCaseAndStop(w, o)
        PROVE  IInv'
    BY <2>5, FinishCaseAndStopIInv
  <2>6. ASSUME NEW w \in Workers, Unwind(w)  PROVE IInv'
    BY <2>6, UnwindIInv
  <2>7. ASSUME NEW w \in Workers, Escape(w)  PROVE IInv'
    BY <2>7, EscapeIInv
  <2>8. CASE UNCHANGED vars
    BY <2>8, StutterIInv
  <2> QED  BY <2>1, <2>2, <2>3, <2>4, <2>5, <2>6, <2>7, <2>8 DEF Next, Worker
<1> QED  BY InitIInv, <1>1, PTL DEF Spec

-----------------------------------------------------------------------------
(* The properties of the pool.                                             *)

(* Every variable of run_suites keeps its type.                            *)
THEOREM TypeCorrect == Spec => []TypeOK
<1>1. IInv => TypeOK
  BY DEF IInv
<1> QED  BY <1>1, Inductive, PTL

(* No repetition runs twice, whatever the number of workers pulling from   *)
(* the shared iterator.                                                    *)
THEOREM EachUnitOnce == Spec => []ClaimedOnce
<1>1. IInv => ClaimedOnce
  BY DEF IInv
<1> QED  BY <1>1, Inductive, PTL

(* A CaseResult is always the aggregate of exactly its own repetitions.    *)
THEOREM ResultsAreAggregates == Spec => []ResultsMatchSlots
<1>1. IInv => ResultsMatchSlots
  BY DEF IInv
<1> QED  BY <1>1, Inductive, PTL

(* When every task of an undisturbed run has ended, every case is in.      *)
LEMMA DoneMeansComplete ==
  ASSUME IInv, \A w \in Workers : state[w] = "done",
         Escapes = {}, Concurrency > 0, ~Tripped
  PROVE  Complete
<1> SUFFICES ASSUME NEW c \in Cases  PROVE results[c] # None
  BY DEF Complete
<1>1. \A r \in 0 .. Repeat[c] - 1 : <<c, r>> \in Units
  BY UnitMember
<1>2. next = Exhausted
  <2>1. <<c, 0>> \in Units
    BY <1>1, AggregationAssumption
  <2>2. Cardinality(Units) \in Nat /\ Cardinality(Units) # 0
    BY <2>1, UnitsFinite, FS_CardinalityType, FS_EmptySet
  <2>3. 1 \in Workers
    BY <2>2, SchedulerAssumption DEF Workers
  <2> QED  BY <2>3 DEF IInv, NoWorkerLeavesEarly
<1>3. AllFilled(slots, c)
  <2> SUFFICES ASSUME NEW r \in 0 .. Repeat[c] - 1, slots[<<c, r>>] = None
               PROVE  FALSE
    BY DEF AllFilled
  <2>1. <<c, r>> \in Units
    BY <1>1
  <2>2. Before(<<c, r>>, next)
    BY <1>2, <2>1, BeforeExhausted
  <2>3. PICK w \in Workers : held[w] = <<c, r>>
    BY <2>1, <2>2 DEF IInv, ClaimsKept
  <2>4. held[w] = None
    BY DEF IInv, HeldMatchesState
  <2> QED  BY <2>1, <2>3, <2>4, NoneAssumption
<1>4. results[c] = Aggregate(slots, c) /\ Aggregate(slots, c) \in Results
  BY <1>3, AggregateType DEF IInv, ResultsMatchSlots, TypeOK
<1> QED  BY <1>4, NoneAssumption

(* run_suites returns with complete=True unless fail-fast stopped it or    *)
(* the tools' own code ended a task.                                       *)
THEOREM CompleteRun == Spec => []NothingLost
<1>1. IInv => NothingLost
  BY DoneMeansComplete DEF IInv, ReturnedLast, NothingLost
<1> QED  BY <1>1, Inductive, PTL

(* After the failed case of a fail-fast run no slot, result or progress    *)
(* call is added: whatever was in flight is dropped.                       *)
THEOREM StopIsFinal == Spec => NothingLandsAfterStop
<1>1. IInv /\ [Next]_vars => (Tripped => UNCHANGED <<slots, results, progress>>)
  <2> SUFFICES ASSUME IInv, [Next]_vars, Tripped
               PROVE  UNCHANGED <<slots, results, progress>>
    OBVIOUS
  <2>1. \A w \in Workers : state[w] # "new" /\ state[w] # "busy"
    BY DEF IInv, StopReachesAll
  <2>2. \A w \in Workers : ~Start(w) /\ ~Escape(w)
    BY <2>1 DEF Start, Escape
  <2>3. \A w \in Workers, o \in Outcomes : ~Deposit(w, o)
    BY <2>1 DEF Deposit
  <2>4. \A w \in Workers, o \in Outcomes : /\ ~FinishRepetition(w, o)
                                           /\ ~FinishCase(w, o)
                                           /\ ~FinishCaseAndStop(w, o)
    BY <2>3 DEF FinishRepetition, FinishCase, FinishCaseAndStop, Publish
  <2>5. CASE \E w \in Workers : Worker(w)
    BY <2>2, <2>4, <2>5 DEF Worker, Unwind
  <2>6. CASE Return
    BY <2>6 DEF Return
  <2>7. CASE UNCHANGED vars
    BY <2>7 DEF vars
  <2> QED  BY <2>5, <2>6, <2>7 DEF Next
<1>2. IInv /\ [Next]_vars => [Tripped => UNCHANGED <<slots, results, progress>>]_vars
  BY <1>1
<1> QED  BY <1>2, Inductive, PTL DEF Spec, NothingLandsAfterStop

(* Publishing a case appends a case that is not in the progress yet.       *)
LEMMA PublishProgress ==
  ASSUME IInv, ProgressOncePerCase, NEW w \in Workers, NEW o \in Outcomes,
         Publish(w, o)
  PROVE  ProgressOncePerCase'
<1> DEFINE c == held[w][1]
<1>1. /\ c \in Cases /\ results[c] = None /\ results'[c] # None
      /\ \A d \in Cases : d # c => results'[d] = results[d]
      /\ Deposit(w, o)
  <2>1. Deposit(w, o)
    BY DEF Publish
  <2>2. ~AllFilled(slots, c) /\ c \in Cases
    BY <2>1, DepositCounts
  <2>3. results[c] = None
    BY <2>2 DEF IInv, ResultsMatchSlots
  <2>4. /\ results'[c] \in Results
        /\ \A d \in Cases : d # c => results'[d] = results[d]
    BY PublishResult
  <2> QED  BY <2>1, <2>2, <2>3, <2>4, NoneAssumption
<1>2. progress' = Append(progress, c) /\ progress \in Seq(Cases)
  BY DEF Publish, IInv, TypeOK
<1> HIDE DEF c
<1>3. /\ DOMAIN progress = 1 .. Len(progress) /\ Len(progress) \in Nat
      /\ DOMAIN progress' = 1 .. Len(progress) + 1
      /\ \A i \in DOMAIN progress : progress'[i] = progress[i]
      /\ progress'[Len(progress) + 1] = c
  BY <1>1, <1>2
<1>4. \A i \in DOMAIN progress : progress[i] # c
  BY <1>1 DEF ProgressOncePerCase
<1>5. \A i, j \in DOMAIN progress' : progress'[i] = progress'[j] => i = j
  BY <1>3, <1>4 DEF ProgressOncePerCase
<1>6. {progress'[i] : i \in DOMAIN progress'}
        = {progress[i] : i \in DOMAIN progress} \cup {c}
  BY <1>3
<1>7. {d \in Cases : results'[d] # None}
        = {d \in Cases : results[d] # None} \cup {c}
  BY <1>1
<1> QED  BY <1>5, <1>6, <1>7 DEF ProgressOncePerCase

(* Progress is reported once for each published case.                      *)
THEOREM ProgressOnce == Spec => []ProgressOncePerCase
<1>1. Init => ProgressOncePerCase
  BY DEF Init, ProgressOncePerCase
<1>2. IInv /\ ProgressOncePerCase /\ [Next]_vars => ProgressOncePerCase'
  <2> SUFFICES ASSUME IInv, ProgressOncePerCase, [Next]_vars
               PROVE  ProgressOncePerCase'
    OBVIOUS
  <2>1. CASE UNCHANGED <<results, progress>>
    BY <2>1 DEF ProgressOncePerCase
  <2>2. ASSUME NEW w \in Workers, NEW o \in Outcomes, Publish(w, o)
        PROVE  ProgressOncePerCase'
    BY <2>2, PublishProgress
  <2>3. CASE Return
    BY <2>1, <2>3 DEF Return
  <2>4. CASE \E w \in Workers : Worker(w)
    BY <2>1, <2>2, <2>4 DEF Worker, Start, FinishRepetition, FinishCase,
                            FinishCaseAndStop, Unwind, Escape
  <2>5. CASE UNCHANGED vars
    BY <2>1, <2>5 DEF vars
  <2> QED  BY <2>3, <2>4, <2>5 DEF Next
<1> QED  BY <1>1, <1>2, Inductive, PTL DEF Spec

-----------------------------------------------------------------------------
(* What escaping tool code costs.                                          *)

Lost ==
  {u \in Units : /\ Before(u, next)
                 /\ slots[u] = None
                 /\ \A w \in Workers : held[w] # u}

Ended == {w \in Workers : state[w] = "done"}

Balance ==
  ~Tripped => /\ Cardinality(Lost) <= Cardinality(Ended)
              /\ next # Exhausted => Cardinality(Lost) = Cardinality(Ended)

LEMMA LostAndEnded ==
  /\ IsFiniteSet(Lost) /\ Cardinality(Lost) \in Nat
  /\ IsFiniteSet(Ended) /\ Cardinality(Ended) \in Nat
  /\ \A u : u \notin Lost => Cardinality(Lost \cup {u}) = Cardinality(Lost) + 1
  /\ \A w : w \notin Ended => Cardinality(Ended \cup {w}) = Cardinality(Ended) + 1
<1>1. IsFiniteSet(Lost)
  <2>1. Lost \in SUBSET Units
    BY DEF Lost
  <2> QED  BY <2>1, UnitsFinite, FS_Subset
<1>2. IsFiniteSet(Ended)
  <2>1. Cardinality(Units) \in Nat
    BY UnitsFinite, FS_CardinalityType
  <2>2. IsFiniteSet(Workers)
    BY <2>1, SchedulerAssumption, FS_Interval DEF Workers
  <2>3. Ended \in SUBSET Workers
    BY DEF Ended
  <2> QED  BY <2>2, <2>3, FS_Subset
<1> QED  BY <1>1, <1>2, FS_CardinalityType, FS_AddElement

LEMMA CostIs == (EscapeCostsOneUnit <=> Balance) /\ (EscapeCostsOneUnit <=> Balance)'
BY DEF EscapeCostsOneUnit, Balance, Lost, Ended

(* A pull loses no unit, and ends the task only at the end of the iterator.*)
LEMMA PullLosesNothing ==
  ASSUME IInv, NEW w \in Workers, state[w] \in {"new", "busy"}, Pull(w),
         \A u \in Units : IF u = held[w] THEN slots'[u] # None
                                         ELSE slots'[u] = slots[u],
         EscapeCostsOneUnit, ~Tripped
  PROVE  EscapeCostsOneUnit'
<1>1. /\ next \in Units \cup {Exhausted}
      /\ state \in [Workers -> {"new", "busy", "cancelling", "done"}]
      /\ held \in [Workers -> Units \cup {None}]
  BY DEF IInv, TypeOK
<1>2. /\ Cardinality(Lost) <= Cardinality(Ended)
      /\ next # Exhausted => Cardinality(Lost) = Cardinality(Ended)
  BY CostIs DEF Balance
<1>3. CASE next = Exhausted
  <2>1. next' = next /\ state' = [state EXCEPT ![w] = "done"] /\ held' = [held EXCEPT ![w] = None]
    BY <1>3 DEF Pull
  <2>2. \A u \in Units : u \in Lost' <=> u \in Lost
    BY <2>1, <1>1, NoneAssumption DEF Lost
  <2>3. Lost' = Lost
    BY <2>2 DEF Lost
  <2>4. Ended' = Ended \cup {w} /\ w \notin Ended
    BY <2>1, <1>1 DEF Ended
  <2>5. Cardinality(Ended') = Cardinality(Ended) + 1
    BY <2>4, LostAndEnded
  <2>6. Cardinality(Lost') <= Cardinality(Ended')
    BY <2>3, <2>5, <1>2, LostAndEnded
  <2> QED  BY <2>1, <2>6, <1>3, CostIs DEF Balance
<1>4. CASE next # Exhausted
  <2>1. /\ next \in Units /\ next' = After(next)
        /\ state' = [state EXCEPT ![w] = "busy"] /\ held' = [held EXCEPT ![w] = next]
    BY <1>1, <1>4 DEF Pull
  <2>2. \A u \in Units : Before(u, next') <=> u = next \/ Before(u, next)
    BY <2>1, BeforeAfter
  <2>3. ~Before(next, next)
    BY <2>1, BeforeIrreflexive
  <2>4. /\ held'[w] = next
        /\ \A v \in Workers : v # w => held'[v] = held[v]
    BY <2>1, <1>1
  <2>5. \A u \in Units : u \in Lost' <=> u \in Lost
    <3> SUFFICES ASSUME NEW u \in Units  PROVE u \in Lost' <=> u \in Lost
      OBVIOUS
    <3>1. ASSUME u \in Lost'  PROVE u \in Lost
      <4>1. u # next /\ Before(u, next) /\ slots'[u] = None
        BY <3>1, <2>2, <2>4 DEF Lost
      <4>2. u # held[w] /\ slots[u] = None
        BY <4>1
      <4> QED  BY <3>1, <4>1, <4>2, <2>4 DEF Lost
    <3>2. ASSUME u \in Lost  PROVE u \in Lost'
      <4>1. u # next /\ Before(u, next) /\ slots[u] = None /\ u # held[w]
        BY <3>2, <2>3 DEF Lost
      <4> QED  BY <3>2, <4>1, <2>2, <2>4 DEF Lost
    <3> QED  BY <3>1, <3>2
  <2>6. Lost' = Lost
    BY <2>5 DEF Lost
  <2>7. Ended' = Ended
    BY <2>1, <1>1 DEF Ended
  <2>8. Cardinality(Lost') = Cardinality(Ended')
    BY <2>6, <2>7, <1>2, <1>4
  <2>9. Cardinality(Lost') <= Cardinality(Ended')
    BY <2>6, <2>8, LostAndEnded
  <2> QED  BY <2>8, <2>9, CostIs DEF Balance
<1> QED  BY <1>3, <1>4

LEMMA EscapeLosesItsUnit ==
  ASSUME IInv, NEW w \in Workers, Escape(w), EscapeCostsOneUnit
  PROVE  EscapeCostsOneUnit'
<1>1. /\ state \in [Workers -> {"new", "busy", "cancelling", "done"}]
      /\ held \in [Workers -> Units \cup {None}]
      /\ state[w] = "busy" /\ next' = next /\ slots' = slots /\ results' = results
      /\ state' = [state EXCEPT ![w] = "done"] /\ held' = [held EXCEPT ![w] = None]
  BY DEF IInv, TypeOK, Escape
<1>2. /\ held[w] \in Units /\ Before(held[w], next) /\ slots[held[w]] = None
      /\ \A v \in Workers : v # w => held[v] # held[w]
  BY <1>1 DEF IInv, HeldMatchesState, ClaimsBehind, ClaimedOnce
<1>3. ~Tripped /\ (Tripped' <=> Tripped)
  BY <1>1 DEF IInv, StopReachesAll, Tripped
<1>4. Lost' = Lost \cup {held[w]} /\ held[w] \notin Lost
  BY <1>1, <1>2, NoneAssumption DEF Lost
<1>5. Ended' = Ended \cup {w} /\ w \notin Ended
  BY <1>1 DEF Ended
<1>6. /\ Cardinality(Lost') = Cardinality(Lost) + 1
      /\ Cardinality(Ended') = Cardinality(Ended) + 1
  BY <1>4, <1>5, LostAndEnded
<1>7. /\ Cardinality(Lost) <= Cardinality(Ended)
      /\ next # Exhausted => Cardinality(Lost) = Cardinality(Ended)
  BY <1>3, CostIs DEF Balance
<1>8. /\ Cardinality(Lost') <= Cardinality(Ended')
      /\ next' # Exhausted => Cardinality(Lost') = Cardinality(Ended')
  BY <1>1, <1>6, <1>7, LostAndEnded
<1> QED  BY <1>8, CostIs DEF Balance

(* CancelledError raised by a tool costs one task and one unit; the other  *)
(* workers drain the iterator.                                             *)
THEOREM EscapesCostLittle == Spec => []EscapeCostsOneUnit
<1>1. Init => EscapeCostsOneUnit
  <2> SUFFICES ASSUME Init  PROVE EscapeCostsOneUnit
    OBVIOUS
  <2>1. Lost = {} /\ Ended = {}
    BY NothingBeforeFirst DEF Init, Lost, Ended
  <2>2. Cardinality(Lost) = 0 /\ Cardinality(Ended) = 0
    BY <2>1, FS_EmptySet
  <2> QED  BY <2>2, CostIs DEF Balance
<1>2. IInv /\ EscapeCostsOneUnit /\ [Next]_vars => EscapeCostsOneUnit'
  <2> SUFFICES ASSUME IInv, EscapeCostsOneUnit, [Next]_vars
               PROVE  EscapeCostsOneUnit'
    OBVIOUS
  <2>1. CASE UNCHANGED <<next, state, held, slots, results>>
    <3>1. Lost' = Lost /\ Ended' = Ended /\ (Tripped' <=> Tripped) /\ next' = next
      BY <2>1 DEF Lost, Ended, Tripped
    <3> QED  BY <3>1, CostIs DEF Balance
  <2>2. ASSUME NEW w \in Workers, Start(w)  PROVE EscapeCostsOneUnit'
    <3>1. /\ state[w] = "new" /\ Pull(w) /\ slots' = slots
          /\ held[w] = None /\ ~Tripped
      BY <2>2 DEF Start, IInv, HeldMatchesState, StopReachesAll
    <3> QED  BY <3>1, PullLosesNothing, NoneAssumption
  <2>3. ASSUME NEW w \in Workers, NEW o \in Outcomes, Deposit(w, o), Pull(w)
        PROVE  EscapeCostsOneUnit'
    <3>1. state[w] = "busy" /\ ~Tripped
      BY <2>3 DEF Deposit, IInv, StopReachesAll
    <3>2. \A u \in Units : IF u = held[w] THEN slots'[u] # None
                                          ELSE slots'[u] = slots[u]
      BY <2>3, DepositCounts
    <3> QED  BY <2>3, <3>1, <3>2, PullLosesNothing
  <2>4. ASSUME NEW w \in Workers, NEW o \in Outcomes, FinishCaseAndStop(w, o)
        PROVE  EscapeCostsOneUnit'
    <3>1. held[w][1] \in Cases /\ results'[held[w][1]] \in Results
      BY <2>4, PublishResult DEF FinishCaseAndStop
    <3>2. Tripped'
      BY <2>4, <3>1, NoneAssumption DEF FinishCaseAndStop, Tripped
    <3> QED  BY <3>2, CostIs DEF Balance
  <2>5. ASSUME NEW w \in Workers, Unwind(w)  PROVE EscapeCostsOneUnit'
    <3>1. Tripped'
      BY <2>5 DEF Unwind, IInv, StopReachesAll, Tripped
    <3> QED  BY <3>1, CostIs DEF Balance
  <2>6. ASSUME NEW w \in Workers, Escape(w)  PROVE EscapeCostsOneUnit'
    BY <2>6, EscapeLosesItsUnit
  <2>7. CASE Return
    BY <2>1, <2>7 DEF Return
  <2>8. CASE UNCHANGED vars
    BY <2>1, <2>8 DEF vars
  <2>9. CASE \E w \in Workers : Worker(w)
    BY <2>2, <2>3, <2>4, <2>5, <2>6, <2>9 DEF Worker, FinishRepetition, FinishCase, Publish
  <2> QED  BY <2>7, <2>8, <2>9 DEF Next
<1> QED  BY <1>1, <1>2, Inductive, PTL DEF Spec

-----------------------------------------------------------------------------
(* The contract.                                                           *)

(* The contract's copies of the aggregation operators are the same.        *)
LEMMA SameAggregation ==
  ASSUME NEW s, NEW c
  PROVE  /\ Contract!Cases = Cases
         /\ Contract!Units = Units
         /\ Contract!AllFilled(s, c) <=> AllFilled(s, c)
         /\ Contract!Aggregate(s, c) = Aggregate(s, c)
<1>1. Contract!Cases = Cases
  BY DEF Contract!Cases, Cases
<1>2. Contract!Units = Units
  BY <1>1 DEF Contract!Units, Units
<1>3. Contract!AllFilled(s, c) <=> AllFilled(s, c)
  BY DEF Contract!AllFilled, AllFilled
<1>4. Contract!Passing(s, c) = Passing(s, c)
  BY DEF Contract!Passing, Passing, Contract!Passed, Passed
<1>5. ASSUME NEW p
      PROVE  /\ Contract!Representative(p, c) = Representative(p, c)
             /\ Contract!MeetsRate(p, c) = MeetsRate(p, c)
  <2>1. Contract!Representative(p, c) = Representative(p, c)
    BY Zenon DEF Contract!Representative, Representative
  <2>2. Contract!MeetsRate(p, c) = MeetsRate(p, c)
    BY Zenon DEF Contract!MeetsRate, MeetsRate, Contract!Cardinality, Cardinality
  <2> QED  BY <2>1, <2>2
<1>6. Contract!Aggregate(s, c) = Aggregate(s, c)
  BY <1>4, <1>5
     DEF Contract!Aggregate, Aggregate, Contract!Passed, Passed
<1> QED  BY <1>1, <1>2, <1>3, <1>6

LEMMA StoppedIsTripped == Contract!Stopped <=> Tripped
BY SameAggregation DEF Contract!Stopped, Contract!Failing, Tripped

(* The step in which an outcome lands is the contract's.                   *)
LEMMA DepositLands ==
  ASSUME IInv, NEW w \in Workers, NEW o \in Outcomes,
         Deposit(w, o),
         results' = IF AllFilled(slots', held[w][1])
                    THEN [results EXCEPT ![held[w][1]] = Aggregate(slots', held[w][1])]
                    ELSE results
  PROVE  Contract!Next
<1>1. held[w] \in Units /\ slots[held[w]] = None
  BY DepositCounts DEF IInv, HeldMatchesState, ClaimedOnce, Deposit
<1>2. ~Tripped /\ ~returned
  BY DEF IInv, StopReachesAll, ReturnedLast, TypeOK, Deposit
<1>3. /\ Contract!AllFilled(slots', held[w][1]) <=> AllFilled(slots', held[w][1])
      /\ Contract!Aggregate(slots', held[w][1]) = Aggregate(slots', held[w][1])
      /\ Contract!Units = Units
  BY SameAggregation
<1>4. Contract!Land(held[w], o)
  BY <1>1, <1>2, <1>3, StoppedIsTripped DEF Contract!Land, Deposit
<1> QED  BY <1>1, <1>3, <1>4 DEF Contract!Next

(* Every step of the pool is a step of RunContract or leaves its           *)
(* variables alone: the concurrent run_suites is a correct implementation  *)
(* of its sequential promise (its liveness half is model-checked).         *)
THEOREM ContractSafety ==
  ASSUME Escapes = {}, Concurrency > 0
  PROVE  Spec => Contract!Init /\ [][Contract!Next]_(Contract!vars)
<1>1. Init => Contract!Init
  BY SameAggregation DEF Init, Contract!Init
<1>2. IInv /\ [Next]_vars => [Contract!Next]_(Contract!vars)
  <2> SUFFICES ASSUME IInv, [Next]_vars
               PROVE  Contract!Next \/ UNCHANGED <<slots, results, returned>>
    BY DEF Contract!vars
  <2>1. CASE Return
    <3>1. Contract!Stopped \/ \A c \in Cases : results[c] # None
      BY <2>1, DoneMeansComplete, StoppedIsTripped DEF Return, Complete
    <3>2. Contract!Return
      BY <2>1, <3>1, SameAggregation DEF Return, Contract!Return
    <3> QED  BY <3>2 DEF Contract!Next
  <2>2. ASSUME NEW w \in Workers, Start(w) \/ Unwind(w) \/ Escape(w)
        PROVE  UNCHANGED <<slots, results, returned>>
    BY <2>2 DEF Start, Unwind, Escape
  <2>3. ASSUME NEW w \in Workers, NEW o \in Outcomes, FinishRepetition(w, o)
        PROVE  Contract!Next
    <3>1. Deposit(w, o) /\ results' = results
      BY <2>3 DEF FinishRepetition
    <3>2. ~AllFilled(slots', held[w][1])
      BY <2>3, <3>1, DepositCounts DEF FinishRepetition
    <3> QED  BY <3>1, <3>2, DepositLands
  <2>4. ASSUME NEW w \in Workers, NEW o \in Outcomes, Publish(w, o)
        PROVE  Contract!Next
    <3>1. /\ Deposit(w, o)
          /\ results' = [results EXCEPT ![held[w][1]] = Aggregate(slots', held[w][1])]
      BY <2>4 DEF Publish
    <3>2. AllFilled(slots', held[w][1])
      BY <2>4, <3>1, DepositCounts DEF Publish
    <3> QED  BY <3>1, <3>2, DepositLands
  <2>5. CASE UNCHANGED vars
    BY <2>5 DEF vars
  <2> QED  BY <2>1, <2>2, <2>3, <2>4, <2>5
           DEF Next, Worker, FinishCase, FinishCaseAndStop
<1> QED  BY <1>1, <1>2, Inductive, PTL DEF Spec

-----------------------------------------------------------------------------
(* What Reports makes of a run of the pool.                                *)

(* What holds of 0 and is passed on holds up to n.                         *)

LEMMA Upward ==
  ASSUME NEW n \in Nat, NEW S, 0 \in S, \A k \in 1 .. n : k - 1 \in S => k \in S
  PROVE  0 .. n \subseteq S
<1> DEFINE Bad == (0 .. n) \ S
<1> SUFFICES ASSUME Bad # {}  PROVE FALSE
  OBVIOUS
<1>1. Bad \in SUBSET Nat
  OBVIOUS
<1>2. PICK k \in Bad : \A j \in Bad : k <= j
  BY <1>1, LeastMember
<1>3. k # 0 /\ k \in 1 .. n /\ k - 1 \in 0 .. n /\ ~(k <= k - 1)
  OBVIOUS
<1>4. k - 1 \in S
  BY <1>2, <1>3
<1> QED  BY <1>3, <1>4

-----------------------------------------------------------------------------
(* A fold over 1 .. n that takes the largest element first has a value.    *)

LEMMA MaxOf ==
  ASSUME NEW n \in Nat, NEW s \in SUBSET (1 .. n), s # {}
  PROVE  /\ Max(s) \in s /\ \A k \in s : k <= Max(s)
         /\ n \in s => Max(s) = n
<1> DEFINE T == {n - k : k \in s}
<1>1. T \in SUBSET Nat /\ T # {}
  <2>1. \A k \in 1 .. n : n - k \in Nat
    OBVIOUS
  <2> QED  BY <2>1
<1>2. PICK d \in T : \A e \in T : d <= e
  BY <1>1, LeastMember
<1>3. PICK m \in s : d = n - m
  OBVIOUS
<1>4. \A k \in s : m >= k
  <2> SUFFICES ASSUME NEW k \in s  PROVE m >= k
    OBVIOUS
  <2>1. n - m <= n - k
    BY <1>2, <1>3
  <2> QED  BY <2>1
<1>5. Max(s) \in s /\ \A k \in s : Max(s) >= k
  BY <1>4 DEF Max
<1>6. \A k \in s : k \in Int /\ k <= n
  OBVIOUS
<1> HIDE DEF T
<1>7. ASSUME NEW x \in s, \A k \in s : x >= k
      PROVE  (\A k \in s : k <= x) /\ (n \in s => x = n)
  BY <1>6, <1>7
<1> QED  BY <1>5, <1>7

(* The step from a value v and an element k is F[<<v, k>>].                *)
Steps(V, n) == [V \X (1 .. n) -> V]

FoldsUpTo(h, m, base, F) ==
  \A s \in SUBSET (1 .. m) :
    h[s] = IF s = {} THEN base ELSE F[<<h[s \ {Max(s)}], Max(s)>>]

LEMMA FoldExists ==
  ASSUME NEW V, NEW base \in V, NEW n \in Nat, NEW F \in Steps(V, n)
  PROVE  \E it \in [SUBSET (1 .. n) -> V] : FoldsUpTo(it, n, base, F)
<1> USE DEF Steps, FoldsUpTo
<1> DEFINE Folds(h, m) == FoldsUpTo(h, m, base, F)
           Bad == {m \in 0 .. n : ~ \E h \in [SUBSET (1 .. m) -> V] : Folds(h, m)}
<1>1. SUFFICES ASSUME Bad # {}  PROVE FALSE
  <2>1. n \in 0 .. n
    OBVIOUS
  <2>2. Bad = {} => \E h \in [SUBSET (1 .. n) -> V] : Folds(h, n)
    BY <2>1
  <2> QED  BY <2>2
<1>2. PICK m \in Bad : \A k \in Bad : m <= k
  <2>1. Bad \in SUBSET Nat
    OBVIOUS
  <2> QED  BY <1>1, <2>1, LeastMember
<1>3. m \in 1 .. n
  <2> SUFFICES ASSUME m = 0  PROVE FALSE
    OBVIOUS
  <2> DEFINE h == [s \in SUBSET (1 .. 0) |-> base]
  <2>1. SUBSET (1 .. 0) = {{}}
    OBVIOUS
  <2>2. h \in [SUBSET (1 .. 0) -> V] /\ Folds(h, 0)
    BY <2>1
  <2> QED  BY <2>2
<1>4. PICK h \in [SUBSET (1 .. m - 1) -> V] : Folds(h, m - 1)
  <2>1. m - 1 \in 0 .. n /\ ~(m <= m - 1)
    BY <1>3
  <2> QED  BY <1>2, <2>1
<1> DEFINE g == [s \in SUBSET (1 .. m) |-> IF m \in s THEN F[<<h[s \ {m}], m>>] ELSE h[s]]
<1>5. ASSUME NEW s \in SUBSET (1 .. m)
      PROVE  /\ s \ {m} \in SUBSET (1 .. m - 1)
             /\ m \notin s => s \in SUBSET (1 .. m - 1)
  <2>1. \A k \in 1 .. m : k # m => k \in 1 .. m - 1
    BY <1>3
  <2> QED  BY <2>1
<1>6. g \in [SUBSET (1 .. m) -> V]
  <2> SUFFICES ASSUME NEW s \in SUBSET (1 .. m)
               PROVE  (IF m \in s THEN F[<<h[s \ {m}], m>>] ELSE h[s]) \in V
    OBVIOUS
  <2>1. h[s \ {m}] \in V
    BY <1>5
  <2>2. F[<<h[s \ {m}], m>>] \in V
    BY <1>3, <2>1
  <2> QED  BY <1>5, <2>2
<1>7. Folds(g, m)
  <2> SUFFICES ASSUME NEW s \in SUBSET (1 .. m)
               PROVE  g[s] = IF s = {} THEN base ELSE F[<<g[s \ {Max(s)}], Max(s)>>]
    OBVIOUS
  <2>0. m \in Nat
    BY <1>3
  <2>1. CASE m \in s
    <3>1. Max(s) = m
      BY <2>0, <2>1, MaxOf
    <3>2. s \ {m} \in SUBSET (1 .. m) /\ m \notin s \ {m}
      OBVIOUS
    <3>3. g[s \ {m}] = h[s \ {m}]
      BY <3>2
    <3>4. g[s] = F[<<h[s \ {m}], m>>]
      BY <2>1
    <3> QED  BY <2>1, <3>1, <3>3, <3>4
  <2>2. CASE m \notin s
    <3>1. g[s] = h[s] /\ s \in SUBSET (1 .. m - 1)
      BY <2>2, <1>5
    <3>2. h[s] = IF s = {} THEN base ELSE F[<<h[s \ {Max(s)}], Max(s)>>]
      BY <3>1, <1>4
    <3>3. s \ {Max(s)} \in SUBSET (1 .. m) /\ m \notin s \ {Max(s)}
      BY <2>2
    <3>4. g[s \ {Max(s)}] = h[s \ {Max(s)}]
      BY <3>3
    <3> QED  BY <3>1, <3>2, <3>4
  <2> QED  BY <2>1, <2>2
<1>8. m \in 0 .. n /\ ~ \E k \in [SUBSET (1 .. m) -> V] : Folds(k, m)
  OBVIOUS
<1> QED  BY <1>6, <1>7, <1>8

(* Its values on 1 .. k are those of a loop that takes one element after   *)
(* the other.                                                              *)
FoldsWhere(g, V, n, base, F) ==
  /\ g[{}] = base
  /\ \A s \in SUBSET (1 .. n) :
       s # {} /\ g[s \ {Max(s)}] \in V => g[s] = F[<<g[s \ {Max(s)}], Max(s)>>]

Loops(acc, n, base, F, result) ==
  /\ acc[0] = base /\ acc[n] = result
  /\ \A k \in 1 .. n : acc[k] = F[<<acc[k - 1], k>>]

LEMMA FoldRuns ==
  ASSUME NEW V, NEW base \in V, NEW n \in Nat, NEW F \in Steps(V, n),
         NEW g, FoldsWhere(g, V, n, base, F)
  PROVE  \E acc \in [0 .. n -> V] : Loops(acc, n, base, F, g[1 .. n])
<1> USE DEF Steps, FoldsWhere, Loops
<1>1. 1 .. 0 = {}
  OBVIOUS
<1>2. ASSUME NEW k \in 1 .. n, g[1 .. k - 1] \in V
      PROVE  g[1 .. k] = F[<<g[1 .. k - 1], k>>] /\ g[1 .. k] \in V
  <2>1. k \in Nat /\ k \in 1 .. k /\ 1 .. k \in SUBSET (1 .. n) /\ (1 .. k) \ {k} = 1 .. k - 1
    OBVIOUS
  <2>2. Max(1 .. k) = k
    BY <2>1, MaxOf
  <2>3. g[1 .. k] = F[<<g[1 .. k - 1], k>>]
    BY <2>1, <2>2, <1>2
  <2> QED  BY <2>3, <1>2
<1>3. \A k \in 0 .. n : g[1 .. k] \in V
  <2> DEFINE Bad == {k \in 0 .. n : g[1 .. k] \notin V}
  <2> SUFFICES ASSUME Bad # {}  PROVE FALSE
    OBVIOUS
  <2>1. PICK k \in Bad : \A j \in Bad : k <= j
    <3>1. Bad \in SUBSET Nat
      OBVIOUS
    <3> QED  BY <3>1, LeastMember
  <2>2. k # 0
    BY <1>1
  <2>3. k - 1 \in 0 .. n /\ ~(k <= k - 1) /\ k \in 1 .. n
    BY <2>2
  <2>4. g[1 .. k - 1] \in V
    BY <2>1, <2>3
  <2> QED  BY <2>3, <2>4, <1>2
<1> DEFINE acc == [k \in 0 .. n |-> g[1 .. k]]
<1>4. acc \in [0 .. n -> V]
  BY <1>3
<1>5. acc[0] = base /\ acc[n] = g[1 .. n]
  BY <1>1
<1>6. ASSUME NEW k \in 1 .. n
      PROVE  acc[k] = F[<<acc[k - 1], k>>]
  <2>1. k \in 0 .. n /\ k - 1 \in 0 .. n
    OBVIOUS
  <2> QED  BY <2>1, <1>2, <1>3
<1> QED  BY <1>4, <1>5, <1>6

-----------------------------------------------------------------------------
(* The folds of the reports.                                               *)

Added(seq) == FoldLeft(LAMBDA a, b : a + b, 0, seq)

LEMMA AddedRuns ==
  ASSUME NEW seq \in Seq(Nat)
  PROVE  \E acc \in [0 .. Len(seq) -> Nat] :
           /\ acc[0] = 0 /\ acc[Len(seq)] = Added(seq)
           /\ \A k \in 1 .. Len(seq) : acc[k] = acc[k - 1] + seq[k]
<1> DEFINE n == Len(seq)
           F == [p \in Nat \X (1 .. n) |-> p[1] + seq[p[2]]]
           g == CHOOSE h : h = [s \in SUBSET DOMAIN seq |->
                                  IF s = {} THEN 0 ELSE h[s \ {Max(s)}] + seq[Max(s)]]
<1>1. n \in Nat /\ DOMAIN seq = 1 .. n /\ \A k \in 1 .. n : seq[k] \in Nat
  BY LenProperties
<1>2. Added(seq) = g[DOMAIN seq]
  BY DEF Added, FoldLeft, MapThenFoldSet
<1>3. F \in Steps(Nat, n)
  BY <1>1 DEF Steps
<1>4. \A v \in Nat, k \in 1 .. n : F[<<v, k>>] = v + seq[k]
  OBVIOUS
<1> HIDE DEF F, n, g
<1>5. \A s \in SUBSET (1 .. n) : s # {} => Max(s) \in 1 .. n /\ s \ {Max(s)} \in SUBSET (1 .. n)
  BY <1>1, MaxOf
<1>6. PICK it \in [SUBSET (1 .. n) -> Nat] : FoldsUpTo(it, n, 0, F)
  BY <1>1, <1>3, FoldExists
<1>7. it = [s \in SUBSET DOMAIN seq |-> IF s = {} THEN 0 ELSE it[s \ {Max(s)}] + seq[Max(s)]]
  BY <1>1, <1>4, <1>5, <1>6 DEF FoldsUpTo
<1>8. g = [s \in SUBSET DOMAIN seq |-> IF s = {} THEN 0 ELSE g[s \ {Max(s)}] + seq[Max(s)]]
  BY <1>7 DEF g
<1>9. FoldsWhere(g, Nat, n, 0, F)
  <2>1. g[{}] = 0
    BY <1>8
  <2>2. ASSUME NEW s \in SUBSET (1 .. n), s # {}, g[s \ {Max(s)}] \in Nat
        PROVE  g[s] = F[<<g[s \ {Max(s)}], Max(s)>>]
    <3>1. g[s] = g[s \ {Max(s)}] + seq[Max(s)]
      BY <1>1, <1>8, <2>2
    <3> QED  BY <3>1, <1>4, <1>5, <2>2
  <2> QED  BY <2>1, <2>2 DEF FoldsWhere
<1>10. PICK acc \in [0 .. n -> Nat] : Loops(acc, n, 0, F, g[1 .. n])
  BY <1>1, <1>3, <1>9, FoldRuns
<1>11. \A k \in 1 .. n : acc[k] = acc[k - 1] + seq[k]
  <2>1. \A k \in 1 .. n : k - 1 \in 0 .. n
    BY <1>1
  <2> QED  BY <2>1, <1>4, <1>10 DEF Loops
<1> QED  BY <1>1, <1>2, <1>10, <1>11 DEF n, Loops

-----------------------------------------------------------------------------
(* The suites.                                                             *)

Total(s) == Added(SubSeq(SuiteSizes, 1, s))

LEMMA SuiteFacts ==
  /\ SuiteSizes \in Seq(Nat) /\ Len(SuiteSizes) \in Nat
  /\ DOMAIN SuiteSizes = 1 .. Len(SuiteSizes)
  /\ \A s \in 1 .. Len(SuiteSizes) : SuiteSizes[s] \in Nat
<1>1. SuiteSizes \in Seq(Nat \ {0})
  BY SuiteAssumption
<1>2. Len(SuiteSizes) \in Nat /\ SuiteSizes \in [1 .. Len(SuiteSizes) -> Nat \ {0}]
  BY <1>1, LenProperties
<1>3. SuiteSizes \in [1 .. Len(SuiteSizes) -> Nat]
  BY <1>2
<1> QED  BY <1>2, <1>3, SeqDef

LEMMA Totals ==
  /\ Total(0) = 0 /\ Total(Len(SuiteSizes)) = NumCases
  /\ \A s \in 1 .. Len(SuiteSizes) : Total(s) = Total(s - 1) + SuiteSizes[s]
  /\ \A s \in 0 .. Len(SuiteSizes) : Total(s) \in Nat /\ Total(s) <= NumCases
<1> DEFINE n == Len(SuiteSizes)
<1>1. /\ n \in Nat /\ DOMAIN SuiteSizes = 1 .. n /\ SuiteSizes \in Seq(Nat)
      /\ \A s \in 1 .. n : SuiteSizes[s] \in Nat
  BY SuiteFacts
<1>2. PICK acc \in [0 .. n -> Nat] :
        /\ acc[0] = 0 /\ acc[n] = Added(SuiteSizes)
        /\ \A k \in 1 .. n : acc[k] = acc[k - 1] + SuiteSizes[k]
  BY <1>1, AddedRuns
<1>3. acc[n] = NumCases
  BY <1>2, SuiteAssumption DEF Added
<1> HIDE DEF n
<1>4. ASSUME NEW s \in 0 .. n
      PROVE  Total(s) = acc[s]
  <2> DEFINE first == SubSeq(SuiteSizes, 1, s)
  <2>1. first \in Seq(Nat) /\ Len(first) = s /\ \A k \in 1 .. s : first[k] = SuiteSizes[k]
    BY <1>1 DEF n
  <2> HIDE DEF first
  <2>2. PICK sub \in [0 .. s -> Nat] :
          /\ sub[0] = 0 /\ sub[s] = Added(first)
          /\ \A k \in 1 .. s : sub[k] = sub[k - 1] + first[k]
    BY <2>1, AddedRuns
  <2> DEFINE Same == {k \in 0 .. s : sub[k] = acc[k]}
  <2>3. 0 \in Same
    BY <1>1, <1>2, <2>2
  <2>4. ASSUME NEW k \in 1 .. s, k - 1 \in Same
        PROVE  k \in Same
    BY <2>4, <1>1, <1>2, <2>1, <2>2
  <2>5. 0 .. s \subseteq Same
    <3>1. s \in Nat
      BY <1>1
    <3> HIDE DEF Same
    <3> QED  BY <3>1, <2>3, <2>4, Upward
  <2>6. s \in 0 .. s
    BY <1>1
  <2> QED  BY <2>2, <2>5, <2>6 DEF Total, first
<1>5. \A s \in 1 .. n : Total(s) = Total(s - 1) + SuiteSizes[s]
  <2>1. \A s \in 1 .. n : s \in 0 .. n /\ s - 1 \in 0 .. n
    BY <1>1
  <2> QED  BY <2>1, <1>2, <1>4
<1>6. \A s \in 0 .. n : Total(s) \in Nat
  BY <1>4
<1>7. 0 \in 0 .. n /\ n \in 0 .. n
  BY <1>1
<1>8. \A s \in 0 .. n : Total(s) <= NumCases
  <2> DEFINE S == {d \in 0 .. n : Total(n - d) <= NumCases}
  <2>1. 0 \in S
    BY <1>1, <1>3, <1>4, <1>6, <1>7, AggregationAssumption
  <2>2. ASSUME NEW d \in 1 .. n, d - 1 \in S
        PROVE  d \in S
    <3>1. /\ n - (d - 1) \in 1 .. n /\ n - (d - 1) - 1 = n - d /\ n - d \in 0 .. n
          /\ n - (d - 1) \in 0 .. n /\ d \in 0 .. n
      BY <1>1
    <3>2. /\ Total(n - (d - 1)) = Total(n - d) + SuiteSizes[n - (d - 1)]
          /\ Total(n - (d - 1)) <= NumCases
      BY <3>1, <1>5, <2>2
    <3>3. /\ Total(n - (d - 1)) \in Nat /\ Total(n - d) \in Nat /\ SuiteSizes[n - (d - 1)] \in Nat
      BY <3>1, <1>1, <1>6
    <3>4. Total(n - d) <= NumCases
      BY <3>2, <3>3, AggregationAssumption
    <3> QED  BY <3>1, <3>4
  <2>3. 0 .. n \subseteq S
    <3> HIDE DEF S
    <3> QED  BY <1>1, <2>1, <2>2, Upward
  <2>4. ASSUME NEW s \in 0 .. n
        PROVE  Total(s) <= NumCases
    <3>1. n - s \in 0 .. n /\ n - (n - s) = s
      BY <1>1
    <3>2. n - s \in S
      BY <3>1, <2>3
    <3> QED  BY <3>1, <3>2
  <2> QED  BY <2>4
<1> QED  BY <1>2, <1>3, <1>4, <1>5, <1>6, <1>7, <1>8 DEF n

(* The cases that _group keeps of those after lo and up to hi, in order.   *)
Keeps(seq, lo, hi) ==
  /\ seq \in Seq(Nat)
  /\ ToSet(seq) = {c \in lo + 1 .. hi : results[c] # None}
  /\ \A i, j \in DOMAIN seq : i < j => seq[i] < seq[j]

Taken(idx, size) ==
  FoldLeft(TakeCase, [idx |-> idx, kept |-> <<>>], [k \in 1 .. size |-> k])

LEMMA TakenRuns ==
  ASSUME NEW idx \in Nat, NEW n \in Nat
  PROVE  \E acc \in [0 .. n -> [idx : Nat, kept : Seq(Nat)]] :
           /\ acc[0] = [idx |-> idx, kept |-> <<>>] /\ acc[n] = Taken(idx, n)
           /\ \A k \in 1 .. n : acc[k] = TakeCase(acc[k - 1], k)
<1> DEFINE V == [idx : Nat, kept : Seq(Nat)]
           base == [idx |-> idx, kept |-> <<>>]
           seq == [k \in 1 .. n |-> k]
           F == [p \in V \X (1 .. n) |-> TakeCase(p[1], p[2])]
           g == CHOOSE h : h = [s \in SUBSET DOMAIN seq |->
                                  IF s = {} THEN base ELSE TakeCase(h[s \ {Max(s)}], seq[Max(s)])]
<1>1. n \in Nat /\ DOMAIN seq = 1 .. n /\ \A k \in 1 .. n : seq[k] = k
  OBVIOUS
<1>2. Taken(idx, n) = g[DOMAIN seq]
  BY DEF Taken, FoldLeft, MapThenFoldSet
<1>3. \A v \in V, k \in 1 .. n : TakeCase(v, k) \in V
  <2> SUFFICES ASSUME NEW v \in V, NEW k \in 1 .. n  PROVE TakeCase(v, k) \in V
    OBVIOUS
  <2>1. v.idx \in Nat /\ v.kept \in Seq(Nat) /\ v.idx + 1 \in Nat
    OBVIOUS
  <2>2. Append(v.kept, v.idx + 1) \in Seq(Nat)
    BY <2>1
  <2> QED  BY <2>1, <2>2 DEF TakeCase
<1>4. F \in Steps(V, n)
  BY <1>3 DEF Steps
<1>5. \A v \in V, k \in 1 .. n : F[<<v, k>>] = TakeCase(v, k)
  OBVIOUS
<1>6. base \in V
  OBVIOUS
<1> HIDE DEF V, base, seq, F, g
<1>7. \A s \in SUBSET (1 .. n) : s # {} => Max(s) \in 1 .. n /\ s \ {Max(s)} \in SUBSET (1 .. n)
  BY MaxOf
<1>8. PICK it \in [SUBSET (1 .. n) -> V] : FoldsUpTo(it, n, base, F)
  BY <1>4, <1>6, FoldExists
<1>9. it = [s \in SUBSET DOMAIN seq |->
              IF s = {} THEN base ELSE TakeCase(it[s \ {Max(s)}], seq[Max(s)])]
  <2>1. ASSUME NEW s \in SUBSET (1 .. n)
        PROVE  it[s] = IF s = {} THEN base ELSE TakeCase(it[s \ {Max(s)}], seq[Max(s)])
    <3>1. it[s] = IF s = {} THEN base ELSE F[<<it[s \ {Max(s)}], Max(s)>>]
      BY <1>8 DEF FoldsUpTo
    <3>2. CASE s # {}
      <4>1. Max(s) \in 1 .. n /\ it[s \ {Max(s)}] \in V /\ seq[Max(s)] = Max(s)
        BY <3>2, <1>1, <1>7
      <4> QED  BY <3>1, <3>2, <4>1, <1>5
    <3> QED  BY <3>1, <3>2
  <2> QED  BY <2>1, <1>1
<1>10. g = [s \in SUBSET DOMAIN seq |->
              IF s = {} THEN base ELSE TakeCase(g[s \ {Max(s)}], seq[Max(s)])]
  BY <1>9 DEF g
<1>11. FoldsWhere(g, V, n, base, F)
  <2>1. g[{}] = base
    BY <1>10
  <2>2. ASSUME NEW s \in SUBSET (1 .. n), s # {}, g[s \ {Max(s)}] \in V
        PROVE  g[s] = F[<<g[s \ {Max(s)}], Max(s)>>]
    <3>1. g[s] = TakeCase(g[s \ {Max(s)}], seq[Max(s)])
      BY <1>1, <1>10, <2>2
    <3>2. Max(s) \in 1 .. n /\ seq[Max(s)] = Max(s)
      BY <1>1, <1>7, <2>2
    <3>3. F[<<g[s \ {Max(s)}], Max(s)>>] = TakeCase(g[s \ {Max(s)}], Max(s))
      BY <3>2, <1>5, <2>2
    <3> QED  BY <3>1, <3>2, <3>3
  <2> QED  BY <2>1, <2>2 DEF FoldsWhere
<1>12. PICK acc \in [0 .. n -> V] : Loops(acc, n, base, F, g[1 .. n])
  BY <1>4, <1>6, <1>11, FoldRuns
<1>13. \A k \in 1 .. n : acc[k] = TakeCase(acc[k - 1], k)
  <2>1. \A k \in 1 .. n : k - 1 \in 0 .. n
    OBVIOUS
  <2> QED  BY <2>1, <1>5, <1>12 DEF Loops
<1> QED  BY <1>1, <1>2, <1>12, <1>13 DEF V, base, Loops

LEMMA KeepsOneMore ==
  ASSUME NEW lo \in Nat, NEW hi \in Nat, lo <= hi, NEW seq, Keeps(seq, lo, hi)
  PROVE  Keeps(IF results[hi + 1] # None THEN Append(seq, hi + 1) ELSE seq, lo, hi + 1)
<1>1. /\ seq \in Seq(Nat) /\ ToSet(seq) = {c \in lo + 1 .. hi : results[c] # None}
      /\ \A i, j \in DOMAIN seq : i < j => seq[i] < seq[j]
      /\ hi + 1 \in Nat
  BY DEF Keeps
<1>2. lo + 1 .. hi + 1 = (lo + 1 .. hi) \cup {hi + 1}
  OBVIOUS
<1>3. CASE results[hi + 1] = None
  <2>1. {c \in lo + 1 .. hi + 1 : results[c] # None} = ToSet(seq)
    BY <1>1, <1>2, <1>3
  <2> QED  BY <2>1, <1>1, <1>3 DEF Keeps
<1>4. CASE results[hi + 1] # None
  <2> DEFINE more == Append(seq, hi + 1)
  <2>1. /\ more \in Seq(Nat) /\ Len(seq) \in Nat /\ DOMAIN seq = 1 .. Len(seq)
        /\ DOMAIN more = 1 .. Len(seq) + 1
        /\ \A i \in 1 .. Len(seq) : more[i] = seq[i]
        /\ more[Len(seq) + 1] = hi + 1
    BY <1>1, AppendProperties, LenProperties
  <2> HIDE DEF more
  <2>2. ToSet(more) = ToSet(seq) \cup {hi + 1}
    BY <2>1 DEF ToSet
  <2>3. ToSet(more) = {c \in lo + 1 .. hi + 1 : results[c] # None}
    BY <2>2, <1>1, <1>2, <1>4
  <2>4. \A i \in DOMAIN seq : seq[i] \in Nat /\ seq[i] < hi + 1
    <3>1. \A i \in DOMAIN seq : seq[i] \in ToSet(seq)
      BY DEF ToSet
    <3> QED  BY <3>1, <1>1
  <2>5. ASSUME NEW i \in DOMAIN more, NEW j \in DOMAIN more, i < j
        PROVE  more[i] < more[j]
    <3>1. i \in 1 .. Len(seq) /\ more[i] = seq[i]
      BY <2>1, <2>5
    <3>2. CASE j \in 1 .. Len(seq)
      <4>1. more[j] = seq[j] /\ i \in DOMAIN seq /\ j \in DOMAIN seq
        BY <3>1, <3>2, <2>1
      <4> QED  BY <3>1, <4>1, <2>5, <1>1
    <3>3. CASE j = Len(seq) + 1
      <4>1. i \in DOMAIN seq /\ more[j] = hi + 1
        BY <3>1, <3>3, <2>1
      <4> QED  BY <3>1, <4>1, <2>4
    <3> QED  BY <3>2, <3>3, <2>1
  <2> QED  BY <1>4, <2>1, <2>3, <2>5 DEF Keeps, more
<1> QED  BY <1>3, <1>4

LEMMA SuiteTaken ==
  ASSUME NEW idx \in Nat, NEW n \in Nat
  PROVE  Taken(idx, n).idx = idx + n /\ Keeps(Taken(idx, n).kept, idx, idx + n)
<1>1. PICK acc \in [0 .. n -> [idx : Nat, kept : Seq(Nat)]] :
        /\ acc[0] = [idx |-> idx, kept |-> <<>>] /\ acc[n] = Taken(idx, n)
        /\ \A k \in 1 .. n : acc[k] = TakeCase(acc[k - 1], k)
  BY TakenRuns
<1> DEFINE S == {k \in 0 .. n : acc[k].idx = idx + k /\ Keeps(acc[k].kept, idx, idx + k)}
<1>2. 0 \in S
  <2>1. idx + 1 .. idx + 0 = {}
    OBVIOUS
  <2>2. Keeps(<<>>, idx, idx + 0)
    BY <2>1 DEF Keeps, ToSet
  <2> QED  BY <1>1, <2>2
<1>3. ASSUME NEW k \in 1 .. n, k - 1 \in S
      PROVE  k \in S
  <2> DEFINE hi == idx + (k - 1)
  <2>1. hi \in Nat /\ idx <= hi /\ hi + 1 = idx + k /\ k \in 0 .. n
    OBVIOUS
  <2>2. acc[k - 1].idx = hi /\ Keeps(acc[k - 1].kept, idx, hi)
    BY <1>3
  <2>3. acc[k] = TakeCase(acc[k - 1], k)
    BY <1>1
  <2>4. /\ acc[k].idx = hi + 1
        /\ acc[k].kept = IF results[hi + 1] # None THEN Append(acc[k - 1].kept, hi + 1)
                                                   ELSE acc[k - 1].kept
    BY <2>2, <2>3 DEF TakeCase
  <2>5. Keeps(acc[k].kept, idx, hi + 1)
    <3> HIDE DEF hi
    <3> QED  BY <2>1, <2>2, <2>4, KeepsOneMore
  <2> QED  BY <2>1, <2>4, <2>5
<1>4. 0 .. n \subseteq S
  <2> HIDE DEF S
  <2> QED  BY <1>2, <1>3, Upward
<1>5. n \in S
  BY <1>4
<1> QED  BY <1>1, <1>5

(* The walk of _group over the suites.                                     *)
Walk == [idx : Nat, groups : Seq(Seq(Nat))]

LEMMA GroupRuns ==
  \E acc \in [0 .. Len(SuiteSizes) -> Walk] :
     /\ acc[0] = [idx |-> 0, groups |-> <<>>] /\ acc[Len(SuiteSizes)].groups = Group
     /\ \A k \in 1 .. Len(SuiteSizes) : acc[k] = TakeSuite(acc[k - 1], SuiteSizes[k])
<1> DEFINE V == Walk
           base == [idx |-> 0, groups |-> <<>>]
           seq == SuiteSizes
           n == Len(SuiteSizes)
           F == [p \in V \X (1 .. n) |-> TakeSuite(p[1], seq[p[2]])]
           g == CHOOSE h : h = [s \in SUBSET DOMAIN seq |->
                                  IF s = {} THEN base ELSE TakeSuite(h[s \ {Max(s)}], seq[Max(s)])]
<1>1. n \in Nat /\ DOMAIN seq = 1 .. n /\ \A k \in 1 .. n : seq[k] \in Nat
  BY SuiteFacts
<1>2. Group = g[DOMAIN seq].groups
  BY DEF Group, FoldLeft, MapThenFoldSet
<1>3. \A v \in V, k \in 1 .. n : TakeSuite(v, seq[k]) \in V
  <2> SUFFICES ASSUME NEW v \in V, NEW k \in 1 .. n  PROVE TakeSuite(v, seq[k]) \in V
    OBVIOUS
  <2>1. v.idx \in Nat /\ v.groups \in Seq(Seq(Nat)) /\ seq[k] \in Nat
    BY <1>1 DEF Walk
  <2> DEFINE suite == Taken(v.idx, seq[k])
  <2>2. TakeSuite(v, seq[k]) = [idx |-> suite.idx, groups |-> Append(v.groups, suite.kept)]
    BY DEF TakeSuite, Taken
  <2>3. suite.idx \in Nat /\ suite.kept \in Seq(Nat)
    BY <2>1, SuiteTaken DEF Keeps
  <2> QED  BY <2>1, <2>2, <2>3 DEF Walk
<1>4. F \in Steps(V, n)
  BY <1>3 DEF Steps
<1>5. \A v \in V, k \in 1 .. n : F[<<v, k>>] = TakeSuite(v, seq[k])
  OBVIOUS
<1>6. base \in V
  BY DEF Walk
<1> HIDE DEF V, base, seq, n, F, g
<1>7. \A s \in SUBSET (1 .. n) : s # {} => Max(s) \in 1 .. n /\ s \ {Max(s)} \in SUBSET (1 .. n)
  BY <1>1, MaxOf
<1>8. PICK it \in [SUBSET (1 .. n) -> V] : FoldsUpTo(it, n, base, F)
  BY <1>1, <1>4, <1>6, FoldExists
<1>9. it = [s \in SUBSET DOMAIN seq |->
              IF s = {} THEN base ELSE TakeSuite(it[s \ {Max(s)}], seq[Max(s)])]
  <2>1. ASSUME NEW s \in SUBSET (1 .. n)
        PROVE  it[s] = IF s = {} THEN base ELSE TakeSuite(it[s \ {Max(s)}], seq[Max(s)])
    <3>1. it[s] = IF s = {} THEN base ELSE F[<<it[s \ {Max(s)}], Max(s)>>]
      BY <1>8 DEF FoldsUpTo
    <3>2. CASE s # {}
      <4>1. Max(s) \in 1 .. n /\ it[s \ {Max(s)}] \in V
        BY <3>2, <1>7
      <4> QED  BY <3>1, <3>2, <4>1, <1>5
    <3> QED  BY <3>1, <3>2
  <2> QED  BY <2>1, <1>1
<1>10. g = [s \in SUBSET DOMAIN seq |->
              IF s = {} THEN base ELSE TakeSuite(g[s \ {Max(s)}], seq[Max(s)])]
  BY <1>9 DEF g
<1>11. FoldsWhere(g, V, n, base, F)
  <2>1. g[{}] = base
    BY <1>10
  <2>2. ASSUME NEW s \in SUBSET (1 .. n), s # {}, g[s \ {Max(s)}] \in V
        PROVE  g[s] = F[<<g[s \ {Max(s)}], Max(s)>>]
    <3>1. g[s] = TakeSuite(g[s \ {Max(s)}], seq[Max(s)])
      BY <1>1, <1>10, <2>2
    <3>2. F[<<g[s \ {Max(s)}], Max(s)>>] = TakeSuite(g[s \ {Max(s)}], seq[Max(s)])
      BY <1>5, <1>7, <2>2
    <3> QED  BY <3>1, <3>2
  <2> QED  BY <2>1, <2>2 DEF FoldsWhere
<1>12. PICK acc \in [0 .. n -> V] : Loops(acc, n, base, F, g[1 .. n])
  BY <1>1, <1>4, <1>6, <1>11, FoldRuns
<1>13. \A k \in 1 .. n : acc[k] = TakeSuite(acc[k - 1], seq[k])
  <2>1. \A k \in 1 .. n : k - 1 \in 0 .. n
    BY <1>1
  <2> QED  BY <2>1, <1>5, <1>12 DEF Loops
<1> QED  BY <1>1, <1>2, <1>12, <1>13 DEF V, base, seq, n, Loops

LEMMA Grouped ==
  /\ Len(Group) = Len(SuiteSizes) /\ DOMAIN Group = 1 .. Len(SuiteSizes)
  /\ Group \in Seq(Seq(Nat))
  /\ \A s \in 1 .. Len(SuiteSizes) : Keeps(Group[s], Total(s - 1), Total(s))
<1> DEFINE n == Len(SuiteSizes)
<1>1. PICK acc \in [0 .. n -> Walk] :
        /\ acc[0] = [idx |-> 0, groups |-> <<>>] /\ acc[n].groups = Group
        /\ \A k \in 1 .. n : acc[k] = TakeSuite(acc[k - 1], SuiteSizes[k])
  BY GroupRuns
<1> DEFINE S == {k \in 0 .. n : /\ acc[k].idx = Total(k) /\ Len(acc[k].groups) = k
                               /\ \A t \in 1 .. k : Keeps(acc[k].groups[t], Total(t - 1), Total(t))}
<1>2. n \in Nat /\ \A k \in 1 .. n : SuiteSizes[k] \in Nat
  BY SuiteFacts
<1>3. 0 \in S
  BY <1>1, <1>2, Totals
<1> HIDE DEF n
<1>4. ASSUME NEW k \in 1 .. n, k - 1 \in S
      PROVE  k \in S
  <2> DEFINE before == acc[k - 1]
             suite == Taken(before.idx, SuiteSizes[k])
  <2>1. /\ before \in Walk /\ before.idx = Total(k - 1) /\ Len(before.groups) = k - 1
        /\ \A t \in 1 .. k - 1 : Keeps(before.groups[t], Total(t - 1), Total(t))
    BY <1>1, <1>2, <1>4
  <2>2. /\ k - 1 \in 0 .. n /\ k \in 0 .. n /\ Total(k - 1) \in Nat /\ SuiteSizes[k] \in Nat
        /\ Total(k) = Total(k - 1) + SuiteSizes[k]
    BY <1>2, Totals DEF n
  <2>3. acc[k] = [idx |-> suite.idx, groups |-> Append(before.groups, suite.kept)]
    BY <1>1 DEF TakeSuite, Taken
  <2>4. suite.idx = Total(k) /\ Keeps(suite.kept, Total(k - 1), Total(k))
    BY <2>1, <2>2, SuiteTaken
  <2> HIDE DEF suite
  <2>5. /\ before.groups \in Seq(Seq(Nat)) /\ suite.kept \in Seq(Nat)
    BY <2>1, <2>4 DEF Walk, Keeps
  <2> DEFINE gs == before.groups
  <2>6. /\ Len(acc[k].groups) = k /\ acc[k].groups[k] = suite.kept
        /\ \A t \in 1 .. k - 1 : acc[k].groups[t] = gs[t]
    <3>1. acc[k].groups = Append(gs, suite.kept) /\ Len(gs) = k - 1 /\ gs \in Seq(Seq(Nat))
      BY <2>1, <2>3, <2>5
    <3>2. k - 1 + 1 = k /\ k \in Nat
      BY <1>2
    <3> HIDE DEF gs
    <3> QED  BY <3>1, <3>2, <2>5, AppendProperties
  <2>7. ASSUME NEW t \in 1 .. k
        PROVE  Keeps(acc[k].groups[t], Total(t - 1), Total(t))
    <3>1. CASE t = k
      BY <3>1, <2>4, <2>6
    <3>2. CASE t # k
      <4>1. t \in 1 .. k - 1
        BY <3>2, <1>2
      <4> QED  BY <4>1, <2>1, <2>6
    <3> QED  BY <3>1, <3>2
  <2>8. acc[k].idx = Total(k)
    BY <2>3, <2>4
  <2> QED  BY <2>2, <2>6, <2>7, <2>8
<1>5. 0 .. n \subseteq S
  <2> HIDE DEF S
  <2> QED  BY <1>2, <1>3, <1>4, Upward
<1>6. n \in 0 .. n
  BY <1>2
<1>7. n \in S /\ acc[n] \in Walk
  BY <1>1, <1>5, <1>6
<1>8. Group \in Seq(Seq(Nat)) /\ Len(Group) = n
  BY <1>1, <1>7 DEF Walk
<1> QED  BY <1>1, <1>2, <1>7, <1>8, LenProperties DEF n

(* Every case lies in one suite.                                           *)
LEMMA InSomeSuite ==
  ASSUME NEW n \in 0 .. Len(SuiteSizes), NEW c \in 1 .. Total(n)
  PROVE  \E s \in 1 .. n : c \in Total(s - 1) + 1 .. Total(s)
<1>1. Len(SuiteSizes) \in Nat /\ n \in Nat /\ \A s \in 0 .. n : Total(s) \in Nat
  <2>1. \A s \in 0 .. n : s \in 0 .. Len(SuiteSizes)
    BY SuiteFacts
  <2> QED  BY <2>1, SuiteFacts, Totals
<1> DEFINE S == {s \in 0 .. n : c <= Total(s)}
<1>2. S \in SUBSET Nat /\ n \in S
  BY <1>1
<1>3. PICK s \in S : \A t \in S : s <= t
  BY <1>2, LeastMember
<1>4. s # 0
  BY <1>1, Totals
<1>5. s \in 1 .. n /\ s - 1 \in 0 .. n /\ ~(s <= s - 1)
  BY <1>1, <1>4
<1>6. ~(c <= Total(s - 1))
  BY <1>3, <1>5
<1>7. c \in Total(s - 1) + 1 .. Total(s)
  BY <1>1, <1>5, <1>6
<1> QED  BY <1>5, <1>7

LEMMA ListedIs == Listed = {c \in Cases : results[c] # None}
<1> DEFINE n == Len(SuiteSizes)
<1>1. /\ n \in Nat /\ n \in 0 .. n /\ DOMAIN Group = 1 .. n
      /\ \A s \in 1 .. n :
           ToSet(Group[s]) = {c \in Total(s - 1) + 1 .. Total(s) : results[c] # None}
  BY SuiteFacts, Grouped DEF Keeps
<1>2. /\ Total(n) = NumCases /\ NumCases \in Nat
      /\ \A s \in 1 .. n : /\ Total(s - 1) \in Nat /\ Total(s) \in Nat /\ Total(s) <= NumCases
  <2>1. \A s \in 1 .. n : s \in 0 .. n /\ s - 1 \in 0 .. n
    BY <1>1
  <2> QED  BY <2>1, Totals, AggregationAssumption
<1>3. ASSUME NEW c \in Cases, results[c] # None
      PROVE  c \in Listed
  <2>1. c \in 1 .. Total(n)
    BY <1>2 DEF Cases
  <2>2. PICK s \in 1 .. n : c \in Total(s - 1) + 1 .. Total(s)
    BY <2>1, <1>1, InSomeSuite
  <2>3. c \in ToSet(Group[s])
    BY <2>2, <1>1, <1>3
  <2> QED  BY <2>3, <1>1 DEF Listed
<1>4. ASSUME NEW c \in Listed
      PROVE  c \in Cases /\ results[c] # None
  <2>1. PICK s \in 1 .. n : c \in ToSet(Group[s])
    BY <1>1 DEF Listed
  <2>2. c \in Total(s - 1) + 1 .. Total(s) /\ results[c] # None
    BY <2>1, <1>1
  <2>3. c \in 1 .. NumCases
    <3> HIDE DEF n
    <3> QED  BY <2>2, <1>2
  <2> QED  BY <2>2, <2>3 DEF Cases
<1> QED  BY <1>3, <1>4

(* The same of the next state.                                             *)
ListedFits == Listed = {c \in Cases : results[c] # None}

LEMMA ListedNext == Listed' = {c \in Cases : results'[c] # None}
<1>1. ListedFits
  BY ListedIs DEF ListedFits
<1>2. ListedFits'
  BY <1>1, PTL
<1> QED  BY <1>2 DEF ListedFits

-----------------------------------------------------------------------------
(* Reporting leaves the pool alone.                                        *)

LEMMA PoolRuns == ReportsSpec => Spec
<1>1. ReportsInit => Init
  BY DEF ReportsInit
<1>2. [ReportsNext]_<<vars, sinks>> => [Next]_vars
  BY DEF ReportsNext, vars
<1> QED  BY <1>1, <1>2, PTL DEF ReportsSpec, Spec

LEMMA PoolInductive == ReportsSpec => []IInv
BY PoolRuns, Inductive, PTL

(* Results come back in spec order and under their own suite, whatever     *)
(* order the cases completed in and whichever were cancelled.              *)
THEOREM SpecOrder == ReportsSpec => []ReportInSpecOrder
<1>1. ReportInSpecOrder
  <2> DEFINE n == Len(SuiteSizes)
  <2>1. /\ n \in Nat /\ Len(Group) = n /\ DOMAIN Group = 1 .. n
        /\ \A s \in 1 .. n : Keeps(Group[s], Total(s - 1), Total(s))
    BY SuiteFacts, Grouped
  <2>2. ASSUME NEW s \in 1 .. n
        PROVE  PlannedIn(s) = Total(s - 1) + 1 .. Total(s)
    <3>1. s - 1 \in 0 .. n
      BY <2>1
    <3>2. Total(s) = Total(s - 1) + SuiteSizes[s] /\ Total(s - 1) \in Nat /\ SuiteSizes[s] \in Nat
      BY <3>1, SuiteFacts, Totals
    <3>3. FirstOf(s) = 1 + Total(s - 1)
      BY DEF FirstOf, Total, Added
    <3>4. FirstOf(s) = Total(s - 1) + 1 /\ FirstOf(s) + SuiteSizes[s] - 1 = Total(s)
      BY <3>2, <3>3
    <3> QED  BY <3>4 DEF PlannedIn
  <2>3. ASSUME NEW s \in 1 .. n
        PROVE  /\ ToSet(Group[s]) = {c \in PlannedIn(s) : results[c] # None}
               /\ \A i, j \in DOMAIN Group[s] : i < j => Group[s][i] < Group[s][j]
    BY <2>1, <2>2 DEF Keeps
  <2> QED  BY <2>1, <2>3 DEF ReportInSpecOrder
<1> QED  BY <1>1, PTL

-----------------------------------------------------------------------------
(* The exit code.                                                          *)

(* A stopped run has a failed case, which is listed.                       *)
LEMMA TrippedIsRed ==
  ASSUME Tripped
  PROVE  ExitCode # 0 /\ \E c \in Listed : ~results[c].passed
<1>1. PICK c \in Cases : results[c] # None /\ ~results[c].passed
  BY DEF Tripped
<1>2. c \in Listed
  BY <1>1, ListedIs
<1> QED  BY <1>1, <1>2 DEF ExitCode

LEMMA GreenIsComplete ==
  ASSUME IInv, returned, Escapes = {}, Concurrency > 0, ~Tripped
  PROVE  Complete
BY DoneMeansComplete DEF IInv, ReturnedLast

(* Exit code 0 means that every planned case ran to a result that passed,  *)
(* when there are workers and no tool code raises CancelledError.          *)
THEOREM GreenMeansPassed ==
  ASSUME Escapes = {}, Concurrency > 0
  PROVE  ReportsSpec => []ExitZeroMeansAllPassed
<1>1. IInv => ExitZeroMeansAllPassed
  <2> SUFFICES ASSUME IInv, returned, ExitCode = 0, NEW c \in Cases
               PROVE  results[c] # None /\ results[c].passed
    BY DEF ExitZeroMeansAllPassed
  <2>1. Complete
    BY TrippedIsRed, GreenIsComplete
  <2>2. c \in Listed
    BY <2>1, ListedIs DEF Complete
  <2>3. \A d \in Listed : results[d].passed
    BY DEF ExitCode
  <2> QED  BY <2>1, <2>2, <2>3 DEF Complete
<1> QED  BY <1>1, PoolInductive, PTL

-----------------------------------------------------------------------------
(* The files.                                                              *)

(* What the writing of the files keeps, beside the state of the pool.      *)
WritingInv ==
  /\ files \in [Targets -> {"before", "whole"}]
  /\ temps \in [Targets -> {"none", "partial", "whole"}]
  /\ \A t \in Targets : files[t] = "whole" => temps[t] = "none"
  /\ Targets = {"json", "junit"} /\ files["junit"] = "whole" => files["json"] = "whole"
  /\ exit # None => returned
  /\ exit \notin {None, 2, Killed} =>
       exit = ExitCode /\ printed /\ \A t \in Targets : files[t] = "whole"

(* The pool takes no step once it has returned.                            *)
LEMMA PoolRests ==
  ASSUME IInv, returned
  PROVE  ~Next
<1>1. \A w \in Workers : state[w] = "done"
  BY DEF IInv, ReturnedLast
<1>2. ~Return
  BY DEF Return
<1>3. \A w \in Workers : ~Worker(w)
  BY <1>1 DEF Worker, Start, FinishRepetition, FinishCase, FinishCaseAndStop, Publish,
              Deposit, Unwind, Escape
<1> QED  BY <1>2, <1>3 DEF Next

LEMMA SameExitCode ==
  ASSUME UNCHANGED results
  PROVE  ExitCode' = ExitCode
<1>1. Listed' = Listed
  BY ListedIs, ListedNext
<1> QED  BY <1>1 DEF ExitCode

(* A command that ends with the exit code of its run has left every report *)
(* that was asked for, whole; whatever raises or kills it, a report file   *)
(* is the former one or the whole new one.                                 *)
THEOREM ExitLeavesReports == ReportsSpec => []ExitCodeMeansReported
<1>1. ReportsInit => WritingInv
  BY DEF ReportsInit, WritingInv
<1>2. IInv /\ WritingInv /\ [ReportsNext]_<<vars, sinks>> => WritingInv'
  <2> SUFFICES ASSUME IInv, WritingInv, [ReportsNext]_<<vars, sinks>>
               PROVE  WritingInv'
    OBVIOUS
  <2>1. CASE Next /\ UNCHANGED sinks
    <3>1. ~returned /\ exit = None
      BY <2>1, PoolRests DEF WritingInv
    <3>2. UNCHANGED <<files, temps, exit>>
      BY <2>1 DEF sinks
    <3> QED  BY <3>1, <3>2 DEF WritingInv
  <2>2. CASE UNCHANGED <<vars, sinks>>
    <3>1. UNCHANGED <<files, temps, printed, exit, returned>> /\ ExitCode' = ExitCode
      BY <2>2, SameExitCode DEF vars, sinks
    <3> QED  BY <3>1 DEF WritingInv
  <2>3. ASSUME UNCHANGED vars, Reporting, exit' \in {None, 2, Killed}, UNCHANGED files,
               temps' \in [Targets -> {"none", "partial", "whole"}],
               \A t \in Targets : files[t] = "whole" => temps'[t] = "none"
        PROVE  WritingInv'
    BY <2>3 DEF WritingInv, Reporting, vars
  <2>4. CASE WriteOut /\ UNCHANGED vars
    BY <2>3, <2>4 DEF WriteOut, Reporting, WritingInv
  <2>5. CASE WriteOutFails /\ UNCHANGED vars
    BY <2>3, <2>5 DEF WriteOutFails, WritingInv
  <2>6. CASE Kill /\ UNCHANGED vars
    BY <2>3, <2>6 DEF Kill, WritingInv
  <2>7. ASSUME NEW t \in Targets, BeginFile(t), UNCHANGED vars
        PROVE  WritingInv'
    BY <2>3, <2>7 DEF BeginFile, Turn, Reporting, WritingInv
  <2>8. ASSUME NEW t \in Targets, FillFile(t), UNCHANGED vars
        PROVE  WritingInv'
    BY <2>3, <2>8 DEF FillFile, Turn, Reporting, WritingInv
  <2>9. ASSUME NEW t \in Targets, SinkFails(t), UNCHANGED vars
        PROVE  WritingInv'
    BY <2>3, <2>9 DEF SinkFails, Turn, Reporting, WritingInv
  <2>10. ASSUME NEW t \in Targets, ReplaceFile(t), UNCHANGED vars
         PROVE  WritingInv'
    <3>1. /\ exit = None /\ exit' = None /\ returned
          /\ files' = [files EXCEPT ![t] = "whole"] /\ temps' = [temps EXCEPT ![t] = "none"]
          /\ t = "junit" /\ "json" \in Targets => files["json"] = "whole"
      BY <2>10 DEF ReplaceFile, Turn, Reporting
    <3>2. Targets = {"json", "junit"} /\ files'["junit"] = "whole" => files'["json"] = "whole"
      BY <3>1 DEF WritingInv
    <3> QED  BY <3>1, <3>2 DEF WritingInv
  <2>11. CASE Exit /\ UNCHANGED vars
    <3>1. ExitCode' = ExitCode
      BY <2>11, SameExitCode DEF vars
    <3> QED  BY <2>11, <3>1 DEF Exit, Reporting, WritingInv, vars
  <2> QED  BY <2>1, <2>2, <2>4, <2>5, <2>6, <2>7, <2>8, <2>9, <2>10, <2>11
           DEF ReportsNext, Report
<1>3. WritingInv => ExitCodeMeansReported
  BY DEF WritingInv, ExitCodeMeansReported
<1> QED  BY <1>1, <1>2, <1>3, PoolInductive, PTL DEF ReportsSpec

-----------------------------------------------------------------------------
(* Counting.                                                               *)

Count(seq, P) == Cardinality({i \in DOMAIN seq : seq[i] \in P})

(* The elements of a sequence without repetitions that lie in P are as     *)
(* many as the places where they stand.                                    *)
LEMMA PlacesCount ==
  ASSUME NEW lo, NEW hi, NEW seq, Keeps(seq, lo, hi), NEW P
  PROVE  /\ IsFiniteSet(ToSet(seq) \cap P)
         /\ Count(seq, P) = Cardinality(ToSet(seq) \cap P)
<1> DEFINE I == {i \in DOMAIN seq : seq[i] \in P}
           T == ToSet(seq) \cap P
           f == [i \in I |-> seq[i]]
<1>1. /\ Len(seq) \in Nat /\ DOMAIN seq = 1 .. Len(seq)
      /\ \A i \in 1 .. Len(seq) : seq[i] \in Nat
      /\ \A i, j \in DOMAIN seq : i < j => seq[i] < seq[j]
  BY LenProperties DEF Keeps
<1>2. IsFiniteSet(I)
  <2>1. IsFiniteSet(DOMAIN seq)
    BY <1>1, FS_Interval
  <2> QED  BY <2>1, FS_Subset
<1>3. \A i, j \in DOMAIN seq : seq[i] = seq[j] => i = j
  BY <1>1
<1>4. f \in [I -> T] /\ \A i, j \in I : f[i] = f[j] => i = j
  BY <1>3 DEF ToSet
<1>5. \A x \in T : \E i \in I : f[i] = x
  BY DEF ToSet
<1>6. ExistsBijection(I, T)
  <2> HIDE DEF I, T, f
  <2> QED  BY <1>4, <1>5 DEF ExistsBijection, Bijection, Injection, IsInjective, Surjection
<1>7. IsFiniteSet(T) /\ Cardinality(T) = Cardinality(I)
  <2> HIDE DEF I, T, f
  <2> QED  BY <1>2, <1>6, FS_Bijection
<1> QED  BY <1>7 DEF Count

(* The listed cases of the first s suites.                                 *)
ListedTo(s) == {c \in 1 .. Total(s) : results[c] # None}

LEMMA ListedOneMore ==
  ASSUME NEW s \in 1 .. Len(SuiteSizes), NEW P
  PROVE  /\ IsFiniteSet(ListedTo(s) \cap P)
         /\ Cardinality(ListedTo(s) \cap P) =
              Cardinality(ListedTo(s - 1) \cap P) + Count(Group[s], P)
<1> DEFINE old == ListedTo(s - 1) \cap P
           new == ToSet(Group[s]) \cap P
<1>1. Keeps(Group[s], Total(s - 1), Total(s))
  BY Grouped
<1>2. ToSet(Group[s]) = {c \in Total(s - 1) + 1 .. Total(s) : results[c] # None}
  BY <1>1 DEF Keeps
<1>3. /\ Total(s - 1) \in Nat /\ Total(s) \in Nat /\ Total(s - 1) <= Total(s)
  <2>1. s \in 0 .. Len(SuiteSizes) /\ s - 1 \in 0 .. Len(SuiteSizes)
    BY SuiteFacts
  <2>2. /\ Total(s - 1) \in Nat /\ Total(s) \in Nat /\ SuiteSizes[s] \in Nat
        /\ Total(s) = Total(s - 1) + SuiteSizes[s]
    BY <2>1, SuiteFacts, Totals
  <2> QED  BY <2>2
<1>4. 1 .. Total(s) = (1 .. Total(s - 1)) \cup (Total(s - 1) + 1 .. Total(s))
  BY <1>3
<1>5. (1 .. Total(s - 1)) \cap (Total(s - 1) + 1 .. Total(s)) = {}
  BY <1>3
<1>6. ListedTo(s) \cap P = old \cup new /\ old \cap new = {}
  BY <1>2, <1>4, <1>5 DEF ListedTo
<1>7. IsFiniteSet(old)
  <2>1. IsFiniteSet(1 .. Total(s - 1)) /\ old \in SUBSET (1 .. Total(s - 1))
    BY <1>3, FS_Interval DEF ListedTo
  <2> QED  BY <2>1, FS_Subset
<1>8. IsFiniteSet(new) /\ Cardinality(new) = Count(Group[s], P)
  BY <1>1, PlacesCount
<1> HIDE DEF old, new
<1>9. Cardinality(old) \in Nat /\ Cardinality(new) \in Nat
  BY <1>7, <1>8, FS_CardinalityType
<1>10. /\ IsFiniteSet(old \cup new)
       /\ Cardinality(old \cup new) = Cardinality(old) + Cardinality(new) - Cardinality(old \cap new)
  BY <1>7, <1>8, FS_Union
<1>11. Cardinality(old \cap new) = 0
  BY <1>6, FS_EmptySet
<1>12. Cardinality(old \cup new) = Cardinality(old) + Cardinality(new)
  BY <1>9, <1>10, <1>11
<1> QED  BY <1>6, <1>8, <1>10, <1>12 DEF old

(* render_junit goes over the suites.                                      *)
Counters == [tests : Nat, failures : Nat, errors : Nat]

Of(kind) == {c \in Nat : Classify(c) = kind}

LEMMA SuiteCounted ==
  ASSUME NEW s \in 1 .. Len(SuiteSizes), NEW v \in Counters
  PROVE  /\ CountSuite(v, Group[s]) =
              [tests |-> v.tests + Count(Group[s], Nat),
               failures |-> v.failures + Count(Group[s], Of("failure")),
               errors |-> v.errors + Count(Group[s], Of("error"))]
         /\ CountSuite(v, Group[s]) \in Counters
<1> DEFINE seq == Group[s]
<1>1. /\ seq \in Seq(Nat) /\ Len(seq) \in Nat /\ DOMAIN seq = 1 .. Len(seq)
      /\ \A i \in DOMAIN seq : seq[i] \in Nat
  BY Grouped, LenProperties DEF Keeps
<1> HIDE DEF seq
<1>2. Len(seq) = Count(seq, Nat)
  <2>1. {i \in DOMAIN seq : seq[i] \in Nat} = 1 .. Len(seq)
    BY <1>1
  <2>2. ASSUME NEW m \in Nat  PROVE Cardinality(1 .. m) = m
    <3>1. Cardinality(1 .. m) = IF 1 > m THEN 0 ELSE m - 1 + 1
      BY FS_Interval
    <3> QED  BY <3>1
  <2> QED  BY <2>1, <2>2, <1>1 DEF Count
<1>3. ASSUME NEW kind
      PROVE  /\ Cardinality({i \in DOMAIN seq : Classify(seq[i]) = kind}) = Count(seq, Of(kind))
             /\ Count(seq, Of(kind)) \in Nat
  <2>1. {i \in DOMAIN seq : Classify(seq[i]) = kind} = {i \in DOMAIN seq : seq[i] \in Of(kind)}
    BY <1>1 DEF Of
  <2>2. IsFiniteSet(DOMAIN seq)
    BY <1>1, FS_Interval
  <2>3. Count(seq, Of(kind)) \in Nat
    BY <2>2, FS_Subset, FS_CardinalityType DEF Count
  <2> QED  BY <2>1, <2>3 DEF Count
<1>4. CountSuite(v, seq) = [tests |-> v.tests + Count(seq, Nat),
                           failures |-> v.failures + Count(seq, Of("failure")),
                           errors |-> v.errors + Count(seq, Of("error"))]
  BY <1>2, <1>3 DEF CountSuite
<1>5. /\ v.tests + Count(seq, Nat) \in Nat /\ v.failures + Count(seq, Of("failure")) \in Nat
      /\ v.errors + Count(seq, Of("error")) \in Nat
  <2>1. v.tests \in Nat /\ v.failures \in Nat /\ v.errors \in Nat
    BY DEF Counters
  <2>2. Count(seq, Nat) \in Nat /\ Count(seq, Of("failure")) \in Nat /\ Count(seq, Of("error")) \in Nat
    BY <1>1, <1>2, <1>3
  <2> QED  BY <2>1, <2>2
<1> QED  BY <1>4, <1>5 DEF seq, Counters

LEMMA JUnitRuns ==
  \E acc \in [0 .. Len(SuiteSizes) -> Counters] :
     /\ acc[0] = [tests |-> 0, failures |-> 0, errors |-> 0]
     /\ acc[Len(SuiteSizes)] = RenderJUnit
     /\ \A k \in 1 .. Len(SuiteSizes) : acc[k] = CountSuite(acc[k - 1], Group[k])
<1> DEFINE V == Counters
           base == [tests |-> 0, failures |-> 0, errors |-> 0]
           seq == Group
           n == Len(SuiteSizes)
           F == [p \in V \X (1 .. n) |-> CountSuite(p[1], seq[p[2]])]
           g == CHOOSE h : h = [s \in SUBSET DOMAIN seq |->
                                  IF s = {} THEN base ELSE CountSuite(h[s \ {Max(s)}], seq[Max(s)])]
<1>1. n \in Nat /\ DOMAIN seq = 1 .. n
  BY SuiteFacts, Grouped
<1>2. RenderJUnit = g[DOMAIN seq]
  BY DEF RenderJUnit, FoldLeft, MapThenFoldSet
<1>3. \A v \in V, k \in 1 .. n : CountSuite(v, seq[k]) \in V
  BY SuiteCounted
<1>4. F \in Steps(V, n)
  BY <1>3 DEF Steps
<1>5. \A v \in V, k \in 1 .. n : F[<<v, k>>] = CountSuite(v, seq[k])
  OBVIOUS
<1>6. base \in V
  BY DEF Counters
<1> HIDE DEF V, base, seq, n, F, g
<1>7. \A s \in SUBSET (1 .. n) : s # {} => Max(s) \in 1 .. n /\ s \ {Max(s)} \in SUBSET (1 .. n)
  BY <1>1, MaxOf
<1>8. PICK it \in [SUBSET (1 .. n) -> V] : FoldsUpTo(it, n, base, F)
  BY <1>1, <1>4, <1>6, FoldExists
<1>9. it = [s \in SUBSET DOMAIN seq |->
              IF s = {} THEN base ELSE CountSuite(it[s \ {Max(s)}], seq[Max(s)])]
  <2>1. ASSUME NEW s \in SUBSET (1 .. n)
        PROVE  it[s] = IF s = {} THEN base ELSE CountSuite(it[s \ {Max(s)}], seq[Max(s)])
    <3>1. it[s] = IF s = {} THEN base ELSE F[<<it[s \ {Max(s)}], Max(s)>>]
      BY <1>8 DEF FoldsUpTo
    <3>2. CASE s # {}
      <4>1. Max(s) \in 1 .. n /\ it[s \ {Max(s)}] \in V
        BY <3>2, <1>7
      <4> QED  BY <3>1, <3>2, <4>1, <1>5
    <3> QED  BY <3>1, <3>2
  <2> QED  BY <2>1, <1>1
<1>10. g = [s \in SUBSET DOMAIN seq |->
              IF s = {} THEN base ELSE CountSuite(g[s \ {Max(s)}], seq[Max(s)])]
  BY <1>9 DEF g
<1>11. FoldsWhere(g, V, n, base, F)
  <2>1. g[{}] = base
    BY <1>10
  <2>2. ASSUME NEW s \in SUBSET (1 .. n), s # {}, g[s \ {Max(s)}] \in V
        PROVE  g[s] = F[<<g[s \ {Max(s)}], Max(s)>>]
    <3>1. g[s] = CountSuite(g[s \ {Max(s)}], seq[Max(s)])
      BY <1>1, <1>10, <2>2
    <3>2. F[<<g[s \ {Max(s)}], Max(s)>>] = CountSuite(g[s \ {Max(s)}], seq[Max(s)])
      BY <1>5, <1>7, <2>2
    <3> QED  BY <3>1, <3>2
  <2> QED  BY <2>1, <2>2 DEF FoldsWhere
<1>12. PICK acc \in [0 .. n -> V] : Loops(acc, n, base, F, g[1 .. n])
  BY <1>1, <1>4, <1>6, <1>11, FoldRuns
<1>13. \A k \in 1 .. n : acc[k] = CountSuite(acc[k - 1], seq[k])
  <2>1. \A k \in 1 .. n : k - 1 \in 0 .. n
    BY <1>1
  <2> QED  BY <2>1, <1>5, <1>12 DEF Loops
<1> QED  BY <1>1, <1>2, <1>12, <1>13 DEF V, base, seq, n, Loops

(* JUnit counts every listed case once, under its kind.                    *)
LEMMA JUnitCounts ==
  /\ RenderJUnit.tests = Cardinality(Listed)
  /\ RenderJUnit.failures = Cardinality({c \in Listed : Classify(c) = "failure"})
  /\ RenderJUnit.errors = Cardinality({c \in Listed : Classify(c) = "error"})
<1> DEFINE n == Len(SuiteSizes)
<1>1. PICK acc \in [0 .. n -> Counters] :
        /\ acc[0] = [tests |-> 0, failures |-> 0, errors |-> 0] /\ acc[n] = RenderJUnit
        /\ \A k \in 1 .. n : acc[k] = CountSuite(acc[k - 1], Group[k])
  BY JUnitRuns
<1>2. n \in Nat
  BY SuiteFacts
<1> DEFINE S == {k \in 0 .. n :
                   /\ acc[k].tests = Cardinality(ListedTo(k) \cap Nat)
                   /\ acc[k].failures = Cardinality(ListedTo(k) \cap Of("failure"))
                   /\ acc[k].errors = Cardinality(ListedTo(k) \cap Of("error"))}
<1>3. 0 \in S
  <2>1. ListedTo(0) = {}
    BY Totals DEF ListedTo
  <2>2. ASSUME NEW P  PROVE Cardinality(ListedTo(0) \cap P) = 0
    BY <2>1, FS_EmptySet
  <2>3. 0 \in 0 .. n
    BY <1>2
  <2>4. /\ Cardinality(ListedTo(0) \cap Nat) = 0
        /\ Cardinality(ListedTo(0) \cap Of("failure")) = 0
        /\ Cardinality(ListedTo(0) \cap Of("error")) = 0
    BY <2>2
  <2> QED  BY <2>3, <2>4, <1>1
<1>4. ASSUME NEW k \in 1 .. n, k - 1 \in S
      PROVE  k \in S
  <2>1. k \in 0 .. n /\ k - 1 \in 0 .. n /\ acc[k - 1] \in Counters
    BY <1>1, <1>2
  <2>2. acc[k] = [tests |-> acc[k - 1].tests + Count(Group[k], Nat),
                  failures |-> acc[k - 1].failures + Count(Group[k], Of("failure")),
                  errors |-> acc[k - 1].errors + Count(Group[k], Of("error"))]
    BY <2>1, <1>1, SuiteCounted
  <2>3. ASSUME NEW P
        PROVE  Cardinality(ListedTo(k) \cap P) =
                 Cardinality(ListedTo(k - 1) \cap P) + Count(Group[k], P)
    BY ListedOneMore
  <2> QED  BY <2>1, <2>2, <2>3, <1>4
<1>5. n \in S
  <2>1. 0 .. n \subseteq S
    <3> HIDE DEF S, n
    <3> QED  BY <1>2, <1>3, <1>4, Upward
  <2> QED  BY <2>1, <1>2
<1>6. ListedTo(n) = Listed
  BY Totals, ListedIs DEF ListedTo, Cases
<1>7. Listed \in SUBSET Nat
  BY ListedIs, AggregationAssumption DEF Cases
<1>8. /\ Listed \cap Nat = Listed
      /\ \A kind : Listed \cap Of(kind) = {c \in Listed : Classify(c) = kind}
  BY <1>7 DEF Of
<1> QED  BY <1>1, <1>5, <1>6, <1>8

-----------------------------------------------------------------------------
(* The reports.                                                            *)

(* A failed result shows a repetition that failed, whatever the pass rate. *)
LEMMA FailureIsShown ==
  ASSUME NEW s, NEW c \in Cases, ~Aggregate(s, c).passed
  PROVE  ~Passed(Aggregate(s, c).shown)
<1> DEFINE passing == Passing(s, c)
           failing == (0 .. Repeat[c] - 1) \ passing
           r == Representative(passing, c)
<1>1. Aggregate(s, c).shown = s[<<c, r>>]
  BY DEF Aggregate
<1>2. Repeat[c] \in Nat \ {0} /\ Required[c] \in 0 .. 100
  BY AggregationAssumption
<1>3. CASE Repeat[c] = 1
  <2>1. r = 0
    <3>1. r \in 0 .. Repeat[c] - 1
      BY RepresentativeType
    <3> HIDE DEF r
    <3> QED  BY <1>3, <3>1
  <2> QED  BY <1>1, <1>3, <2>1 DEF Aggregate
<1>4. CASE Repeat[c] # 1
  <2>1. ~MeetsRate(passing, c)
    BY <1>4 DEF Aggregate
  <2>2. failing # {}
    <3> SUFFICES ASSUME failing = {}  PROVE FALSE
      OBVIOUS
    <3>1. passing = 0 .. Repeat[c] - 1
      BY DEF Passing
    <3>2. Cardinality(0 .. Repeat[c] - 1) = Repeat[c]
      <4>1. \A n \in Nat \ {0} : Cardinality(0 .. n - 1) = n
        <5> SUFFICES ASSUME NEW n \in Nat \ {0}  PROVE Cardinality(0 .. n - 1) = n
          OBVIOUS
        <5>1. Cardinality(0 .. n - 1) = IF 0 > n - 1 THEN 0 ELSE n - 1 - 0 + 1
          BY FS_Interval
        <5> QED  BY <5>1
      <4> QED  BY <4>1, <1>2
    <3>3. \A q \in 0 .. 100, n \in Nat : 100 * n >= q * n
      OBVIOUS
    <3>4. 100 * Repeat[c] >= Required[c] * Repeat[c]
      BY <1>2, <3>3
    <3> QED  BY <2>1, <3>1, <3>2, <3>4 DEF MeetsRate
  <2>3. PICK q \in failing : \A p \in failing : q <= p
    <3>1. failing \in SUBSET Nat
      BY <1>2
    <3> QED  BY <2>2, <3>1, LeastMember
  <2>4. r \in failing
    <3>1. r = CHOOSE x \in failing : \A p \in failing : x <= p
      BY <2>2 DEF Representative
    <3> HIDE DEF failing
    <3> QED  BY <2>3, <3>1
  <2>5. r \in 0 .. Repeat[c] - 1 /\ r \notin passing
    BY <2>4
  <2> HIDE DEF r
  <2> QED  BY <1>1, <2>5 DEF Passing
<1> QED  BY <1>3, <1>4

LEMMA ListedResult ==
  ASSUME IInv, NEW c \in Listed
  PROVE  /\ c \in Cases /\ results[c] \in Results /\ results[c].passed \in BOOLEAN
         /\ ~results[c].passed => ~Passed(results[c].shown)
<1>1. c \in Cases /\ results[c] # None
  BY ListedIs
<1>2. results[c] \in Results
  BY <1>1 DEF IInv, TypeOK
<1>3. results[c] = Aggregate(slots, c)
  BY <1>1 DEF IInv, ResultsMatchSlots
<1>4. ~results[c].passed => ~Passed(results[c].shown)
  BY <1>1, <1>3, FailureIsShown
<1> QED  BY <1>1, <1>2, <1>4 DEF Results

LEMMA ListedFinite == IsFiniteSet(Listed) /\ Listed \in SUBSET Cases
<1>1. IsFiniteSet(Cases)
  BY FS_Interval, AggregationAssumption DEF Cases
<1>2. Listed \in SUBSET Cases
  BY ListedIs
<1> QED  BY <1>1, <1>2, FS_Subset

(* The failures and errors of JUnit are the listed cases it does not pass. *)
LEMMA JUnitRed ==
  /\ RenderJUnit.failures + RenderJUnit.errors =
       Cardinality({c \in Listed : Classify(c) # "pass"})
  /\ Summary.failed = Cardinality({c \in Listed : ~results[c].passed})
  /\ Summary.cases = RenderJUnit.tests
<1> DEFINE fails == {c \in Listed : Classify(c) = "failure"}
           errs == {c \in Listed : Classify(c) = "error"}
           red == {c \in Listed : Classify(c) # "pass"}
           passed == {c \in Listed : results[c].passed}
           failed == {c \in Listed : ~results[c].passed}
<1>1. IsFiniteSet(Listed)
  BY ListedFinite
<1>2. \A c \in Listed : Classify(c) \in {"error", "failure", "pass"}
  BY DEF Classify
<1>3. red = fails \cup errs /\ fails \cap errs = {}
  BY <1>2
<1>4. fails \in SUBSET Listed /\ errs \in SUBSET Listed /\ passed \in SUBSET Listed
  OBVIOUS
<1>5. failed = Listed \ passed /\ Listed \cap passed = passed
  OBVIOUS
<1>6. /\ RenderJUnit.failures = Cardinality(fails) /\ RenderJUnit.errors = Cardinality(errs)
      /\ RenderJUnit.tests = Cardinality(Listed)
  BY JUnitCounts
<1>7. /\ Summary.cases = Cardinality(Listed)
      /\ Summary.failed = Cardinality(Listed) - Cardinality(passed)
  BY DEF Summary
<1> HIDE DEF fails, errs, red, passed, failed
<1>8. Cardinality(red) = Cardinality(fails) + Cardinality(errs)
  <2>1. IsFiniteSet(fails) /\ IsFiniteSet(errs)
    BY <1>1, <1>4, FS_Subset
  <2>2. Cardinality(fails) \in Nat /\ Cardinality(errs) \in Nat
    BY <2>1, FS_CardinalityType
  <2>3. Cardinality(red) = Cardinality(fails) + Cardinality(errs) - Cardinality(fails \cap errs)
    BY <1>3, <2>1, FS_Union
  <2>4. Cardinality(fails \cap errs) = 0
    BY <1>3, FS_EmptySet
  <2> QED  BY <2>2, <2>3, <2>4
<1>9. Cardinality(failed) = Cardinality(Listed) - Cardinality(passed)
  BY <1>1, <1>5, FS_Difference
<1> QED  BY <1>6, <1>7, <1>8, <1>9 DEF red, failed

(* A red case counts as one.                                               *)
LEMMA RedCounts ==
  ASSUME NEW c \in Listed, ~results[c].passed
  PROVE  /\ Classify(c) # "pass"
         /\ RenderJUnit.failures + RenderJUnit.errors > 0 /\ Summary.failed > 0
<1>1. Classify(c) # "pass"
  BY DEF Classify
<1>2. ASSUME NEW S \in SUBSET Listed, c \in S
      PROVE  Cardinality(S) > 0
  <2>1. IsFiniteSet(S)
    BY ListedFinite, FS_Subset
  <2>2. Cardinality(S) \in Nat /\ Cardinality(S) # 0
    BY <2>1, <1>2, FS_CardinalityType, FS_EmptySet
  <2> QED  BY <2>2
<1>3. /\ Cardinality({d \in Listed : Classify(d) # "pass"}) > 0
      /\ Cardinality({d \in Listed : ~results[d].passed}) > 0
  BY <1>1, <1>2
<1> QED  BY <1>1, <1>3, JUnitRed

(* The four reports of one run agree on every listed case, and each says   *)
(* of a failed one why.                                                    *)
THEOREM OneStory == ReportsSpec => []ReportsAgree
<1>1. IInv => ReportsAgree
  <2> SUFFICES ASSUME IInv, Listed # {}  PROVE ReportsAgree
    BY DEF ReportsAgree
  <2>1. /\ \A c \in Listed : RenderReport.lines[c] = CaseLine(c)
        /\ \A c \in Listed : RenderHtml.cases[c] = CaseHtml(results[c], Rate(c))
        /\ RenderReport.summary = Summary
    BY DEF RenderReport, RenderHtml
  <2>2. ASSUME NEW c \in Listed
        PROVE  /\ ~results[c].passed =>
                    /\ CaseLine(c).glyph # "pass"
                    /\ CaseLine(c).block \/ CaseLine(c).remark # None
                    /\ CaseHtml(results[c], Rate(c)).glyph = "fail"
                    /\ \/ CaseHtml(results[c], Rate(c)).bad
                       \/ CaseHtml(results[c], Rate(c)).error
                    /\ Classify(c) # "pass"
               /\ Classify(c) = "failure" => CaseLine(c).block
               /\ Classify(c) # "pass" => ~Clean(CaseLine(c))
    <3> DEFINE r == results[c]
               line == CaseLine(c)
               html == CaseHtml(r, Rate(c))
    <3>1. /\ r.passed \in BOOLEAN
          /\ ~r.passed => ~Passed(r.shown)
          /\ r.shown.term \in Terminations
      BY ListedResult, AggregationAssumption DEF Results
    <3>2. /\ line.glyph = Glyph(c) /\ line.block = (~r.passed /\ ShowsFailedAssertion(r))
          /\ line.remark = IF r.shown.term = "end_turn" THEN None ELSE r.shown.term
      BY DEF CaseLine
    <3>3. /\ html.glyph = Mark(r.passed) /\ html.bad = ShowsFailedAssertion(r)
          /\ html.error = (r.shown.term = "none")
      BY DEF CaseHtml
    <3>4. /\ r.shown.term # "end_turn" => line.remark # None
          /\ r.shown.term = "end_turn" => line.remark = None
      BY <3>1, <3>2, RemarkAssumption
    <3>5. Classify(c) = IF r.shown.term \in {"provider_error", "unmocked_tool", "none"}
                          THEN "error"
                        ELSE IF ~r.passed THEN "failure" ELSE "pass"
      BY DEF Classify
    <3>6. ~r.passed => line.glyph # "pass"
      BY <3>2 DEF Glyph, Mark
    <3> HIDE DEF r, line, html
    <3>7. ~r.passed => line.block \/ line.remark # None
      BY <3>1, <3>2, <3>4 DEF ShowsFailedAssertion, Passed
    <3>8. ~r.passed => html.glyph = "fail" /\ (html.bad \/ html.error) /\ Classify(c) # "pass"
      BY <3>1, <3>3, <3>5 DEF ShowsFailedAssertion, Passed, Mark
    <3>9. Classify(c) = "failure" => line.block
      BY <3>1, <3>2, <3>5 DEF ShowsFailedAssertion, Passed
    <3>10. Classify(c) # "pass" => ~Clean(line)
      BY <3>4, <3>5, <3>6 DEF Clean
    <3> QED  BY <3>6, <3>7, <3>8, <3>9, <3>10 DEF r, line, html
  <2>3. ASSUME NEW c \in Listed
        PROVE  RenderLater(Document).cases[c] = [RenderHtml.cases[c] EXCEPT !.rate = <<>>]
    <3>1. RenderLater(Document).cases[c] = CaseHtml(CaseFrom(CaseDict(c)), <<>>)
      BY DEF RenderLater, Document
    <3>2. CaseFrom(CaseDict(c)) = [passed |-> results[c].passed, shown |-> results[c].shown]
      BY DEF CaseFrom, CaseDict
    <3>3. ASSUME NEW q, NEW r, NEW d, d.passed = r.passed, d.shown = r.shown
          PROVE  CaseHtml(d, <<>>) = [CaseHtml(r, q) EXCEPT !.rate = <<>>]
      BY <3>3 DEF CaseHtml, ShowsFailedAssertion
    <3>4. CaseHtml(CaseFrom(CaseDict(c)), <<>>) = [CaseHtml(results[c], Rate(c)) EXCEPT !.rate = <<>>]
      BY <3>2, <3>3
    <3> QED  BY <2>1, <3>1, <3>4
  <2>4. ExitCode # 0 => \E c \in Listed : ~Clean(CaseLine(c)) /\ Classify(c) # "pass"
    <3> SUFFICES ASSUME ExitCode # 0
                 PROVE  \E c \in Listed : ~Clean(CaseLine(c)) /\ Classify(c) # "pass"
      OBVIOUS
    <3>1. PICK c \in Listed : results[c].shown.term = "provider_error" \/ ~results[c].passed
      BY DEF ExitCode
    <3>2. Classify(c) # "pass"
      BY <3>1 DEF Classify
    <3> QED  BY <2>2, <3>2
  <2>5. Summary.failed <= RenderJUnit.failures + RenderJUnit.errors
    <3>1. /\ {c \in Listed : ~results[c].passed} \in SUBSET {c \in Listed : Classify(c) # "pass"}
          /\ {c \in Listed : Classify(c) # "pass"} \in SUBSET Listed
      BY DEF Classify
    <3>2. Cardinality({c \in Listed : ~results[c].passed})
            <= Cardinality({c \in Listed : Classify(c) # "pass"})
      BY <3>1, ListedFinite, FS_Subset
    <3> QED  BY <3>2, JUnitRed
  <2>6. Summary.cases = RenderJUnit.tests
    BY JUnitRed
  <2> QED  BY <2>1, <2>2, <2>3, <2>4, <2>5, <2>6 DEF ReportsAgree
<1> QED  BY <1>1, PoolInductive, PTL

(* When a planned case has no result every report says so, or counts a     *)
(* failure; and no full run is called partial.                             *)
THEOREM StoppedRunIsRed == ReportsSpec => []PartialRunIsNeverGreen
<1>1. IInv => PartialRunIsNeverGreen
  <2> DEFINE partial == \E c \in Cases : results[c] = None
  <2> SUFFICES ASSUME IInv, returned, Cases # {}, Escapes = {}, Concurrency > 0
               PROVE  /\ RenderReport.says = "report"
                      /\ RenderReport.partial = partial
                      /\ RenderHtml.partial = partial
                      /\ RenderLater(Document).partial = partial
                      /\ partial => /\ RenderJUnit.failures + RenderJUnit.errors > 0
                                    /\ RenderReport.summary.failed > 0
                                    /\ ExitCode # 0
    BY DEF PartialRunIsNeverGreen
  <2>1. (~Complete) = partial /\ Complete \in BOOLEAN
    BY DEF Complete
  <2>2. partial => ExitCode # 0 /\ \E c \in Listed : ~results[c].passed
    BY <2>1, GreenIsComplete, TrippedIsRed
  <2>3. Listed # {}
    <3>1. ~partial => Listed = Cases
      BY ListedIs
    <3> QED  BY <2>2, <3>1
  <2>4. /\ RenderReport.says = "report" /\ RenderReport.partial = ~Complete
        /\ RenderReport.summary = Summary
    BY <2>3 DEF RenderReport
  <2>5. RenderHtml.partial = ~Complete
    BY DEF RenderHtml
  <2>6. RenderLater(Document).partial = ~Complete
    BY DEF RenderLater, Document
  <2>7. partial => RenderJUnit.failures + RenderJUnit.errors > 0 /\ Summary.failed > 0
    BY <2>2, RedCounts
  <2> HIDE DEF partial
  <2> QED  BY <2>1, <2>2, <2>4, <2>5, <2>6, <2>7
<1> QED  BY <1>1, PoolInductive, PTL

============================================================================
