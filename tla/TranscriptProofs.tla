-------------------------- MODULE TranscriptProofs -------------------------
(***************************************************************************)
(* The key of a cassette and the conversations it stands for; what the     *)
(* cassettes of a case serve; what the provider is sent; and what the      *)
(* assertions say of a trace.                                              *)
(***************************************************************************)
EXTENDS Transcript, SequenceTheorems, FiniteSetTheorems, FunctionTheorems,
        WellFoundedInduction, TLAPS

-----------------------------------------------------------------------------
(* Numbers.                                                                *)

LEMMA LeastMember ==
  ASSUME NEW S \in SUBSET Nat, S # {}
  PROVE  \E k \in S : \A j \in S : k <= j
<1> DEFINE R == OpToRel(<, Nat)
<1>1. IsWellFoundedOn(R, Nat)
  BY NatLessThanWellFounded
<1>2. PICK k \in S : \A j \in S : ~(<<j, k>> \in R)
  BY <1>1, WFMin
<1>3. \A j \in S : ~(j < k)
  BY <1>2 DEF OpToRel
<1>4. k \in Nat /\ \A j \in S : j \in Nat
  OBVIOUS
<1>5. \A j \in S : k <= j
  BY <1>3, <1>4
<1> QED  BY <1>5

(* What holds of 0 and is passed on holds up to n.                         *)
LEMMA Upward ==
  ASSUME NEW n \in Nat, NEW S, 0 \in S, \A k \in 1 .. n : k - 1 \in S => k \in S
  PROVE  0 .. n \subseteq S
<1> DEFINE Bad == (0 .. n) \ S
<1> SUFFICES ASSUME Bad # {}  PROVE FALSE
  OBVIOUS
<1>1. Bad \in SUBSET Nat
  OBVIOUS
<1>2. PICK k \in Bad : \A j \in Bad : k <= j
  BY <1>1, LeastMember
<1>3. k # 0 /\ k \in 1 .. n /\ k - 1 \in 0 .. n /\ ~(k <= k - 1)
  OBVIOUS
<1>4. k - 1 \in S
  BY <1>2, <1>3
<1> QED  BY <1>3, <1>4

(* A recursion over 1 .. n has a solution.                                 *)
IsRun(run, n, base, F) ==
  run[0] = base /\ \A i \in 1 .. n : run[i] = F[i][run[i - 1]]

LEMMA RunExists ==
  ASSUME NEW Y, NEW base \in Y, NEW n \in Nat, NEW F \in [1 .. n -> [Y -> Y]]
  PROVE  \E run \in [0 .. n -> Y] : IsRun(run, n, base, F)
<1> DEFINE Up(m) == \E run \in [0 .. m -> Y] : IsRun(run, m, base, F)
           S == {m \in 0 .. n : Up(m)}
<1>1. 0 \in S
  <2> DEFINE run == [i \in 0 .. 0 |-> base]
  <2>1. run \in [0 .. 0 -> Y] /\ IsRun(run, 0, base, F)
    BY DEF IsRun
  <2> QED  BY <2>1
<1>2. ASSUME NEW m \in 1 .. n, m - 1 \in S
      PROVE  m \in S
  <2>1. PICK run \in [0 .. m - 1 -> Y] : IsRun(run, m - 1, base, F)
    BY <1>2
  <2> DEFINE next == [i \in 0 .. m |-> IF i = m THEN F[m][run[m - 1]] ELSE run[i]]
  <2>2. \A i \in 0 .. m - 1 : i \in 0 .. m /\ i # m
    OBVIOUS
  <2>3. \A i \in 0 .. m : i # m => i \in 0 .. m - 1
    OBVIOUS
  <2>4. F[m][run[m - 1]] \in Y
    OBVIOUS
  <2>5. next \in [0 .. m -> Y]
    BY <2>3, <2>4
  <2>6. next[m] = F[m][run[m - 1]] /\ \A i \in 0 .. m - 1 : next[i] = run[i]
    BY <2>2
  <2> HIDE DEF next
  <2>7. next[0] = base
    BY <2>1, <2>6 DEF IsRun
  <2>8. ASSUME NEW i \in 1 .. m
        PROVE  next[i] = F[i][next[i - 1]]
    <3>1. CASE i = m
      BY <2>6, <3>1
    <3>2. CASE i # m
      <4>1. i \in 1 .. m - 1 /\ i \in 0 .. m - 1 /\ i - 1 \in 0 .. m - 1
        BY <3>2
      <4>2. run[i] = F[i][run[i - 1]]
        BY <2>1, <4>1 DEF IsRun
      <4> QED  BY <2>6, <4>1, <4>2
    <3> QED  BY <3>1, <3>2
  <2>9. IsRun(next, m, base, F)
    BY <2>7, <2>8 DEF IsRun
  <2> QED  BY <2>5, <2>9
<1> HIDE DEF S
<1>3. 0 .. n \subseteq S
  BY <1>1, <1>2, Upward
<1>4. n \in 0 .. n
  OBVIOUS
<1> QED  BY <1>3, <1>4 DEF S

-----------------------------------------------------------------------------
(* Sequences put one behind the other.                                     *)

(* How FlattenSeq(s) runs through s.                                       *)
Runs(s, run) ==
  run = [i \in 1 .. Len(s) |-> IF i = 1 THEN s[i] ELSE run[i - 1] \o s[i]]

LEMMA FlattenRuns ==
  ASSUME NEW X, NEW s \in Seq(Seq(X)), s # <<>>
  PROVE  \E run : Runs(s, run) /\ FlattenSeq(s) = run[Len(s)]
<1> DEFINE F == [i \in 1 .. Len(s) |-> [y \in Seq(X) |-> y \o s[i]]]
<1>0. Len(s) \in Nat /\ <<>> \in Seq(X) /\ \A i \in 1 .. Len(s) : s[i] \in Seq(X)
  OBVIOUS
<1>1. F \in [1 .. Len(s) -> [Seq(X) -> Seq(X)]]
  <2> SUFFICES ASSUME NEW i \in 1 .. Len(s), NEW y \in Seq(X)  PROVE y \o s[i] \in Seq(X)
    OBVIOUS
  <2> QED  BY <1>0, ConcatProperties
<1>2. PICK f \in [0 .. Len(s) -> Seq(X)] : IsRun(f, Len(s), <<>>, F)
  <2> HIDE DEF F
  <2> QED  BY <1>0, <1>1, RunExists
<1> DEFINE g == [i \in 1 .. Len(s) |-> f[i]]
<1>3. ASSUME NEW i \in 1 .. Len(s)
      PROVE  g[i] = IF i = 1 THEN s[i] ELSE g[i - 1] \o s[i]
  <2> HIDE DEF F, g
  <2>0. i - 1 \in 0 .. Len(s) /\ f[i - 1] \in Seq(X) /\ s[i] \in Seq(X)
    <3>1. i - 1 \in 0 .. Len(s)
      BY <1>0
    <3> QED  BY <1>0, <3>1
  <2>1. f[i] = f[i - 1] \o s[i] /\ f[i - 1] \in Seq(X) /\ s[i] \in Seq(X)
    <3>1. f[i] = F[i][f[i - 1]]
      BY <1>2 DEF IsRun
    <3>2. F[i][f[i - 1]] = f[i - 1] \o s[i]
      BY <2>0 DEF F
    <3>3. f[i - 1] \o s[i] \in Seq(X)
      BY <2>0, ConcatProperties
    <3> QED  BY <2>0, <3>1, <3>2, <3>3
  <2>2. f[0] = <<>>
    BY <1>2 DEF IsRun
  <2>3. CASE i = 1
    <3>1. f[i - 1] = <<>>
      BY <2>2, <2>3
    <3>2. f[i] = s[i]
      BY <2>1, <3>1, ConcatEmptySeq
    <3>3. g[i] = f[i]
      BY DEF g
    <3> QED  BY <2>3, <3>2, <3>3
  <2>4. CASE i # 1
    <3>1. i - 1 \in 1 .. Len(s)
      BY <1>0, <2>4
    <3>2. g[i] = f[i] /\ g[i - 1] = f[i - 1]
      BY <3>1 DEF g
    <3> QED  BY <2>1, <2>4, <3>2
  <2> QED  BY <2>3, <2>4
<1>4. Runs(s, g)
  <2> HIDE DEF g
  <2>1. g = [i \in 1 .. Len(s) |-> g[i]]
    BY DEF g
  <2> QED  BY <1>3, <2>1 DEF Runs
<1> DEFINE run == CHOOSE r : r = [i \in 1 .. Len(s) |-> IF i = 1 THEN s[i] ELSE r[i - 1] \o s[i]]
<1>5. Runs(s, run)
  <2> HIDE DEF g
  <2> QED  BY <1>4 DEF Runs
<1>6. FlattenSeq(s) = run[Len(s)]
  BY DEF FlattenSeq
<1> HIDE DEF run
<1> QED  BY <1>5, <1>6

(* What holds of the empty sequence and of every longer one holds of all.  *)
LEMMA ByLength ==
  ASSUME NEW X, NEW S, <<>> \in S,
         \A s \in Seq(X), x \in X : s \in S => Append(s, x) \in S
  PROVE  Seq(X) \subseteq S
<1> SUFFICES ASSUME NEW w \in Seq(X), w \notin S  PROVE FALSE
  OBVIOUS
<1> DEFINE L == {n \in Nat : \E s \in Seq(X) : s \notin S /\ Len(s) = n}
<1>1. L \in SUBSET Nat /\ L # {}
  <2>1. Len(w) \in L
    BY LenProperties
  <2> QED  BY <2>1
<1>2. PICK n \in L : \A k \in L : n <= k
  <2> HIDE DEF L
  <2> QED  BY <1>1, LeastMember
<1>3. PICK s \in Seq(X) : s \notin S /\ Len(s) = n
  OBVIOUS
<1>4. PICK f \in Seq(X), x \in X : s = Append(f, x)
  BY <1>3, SequenceEmptyOrAppend
<1>5. Len(f) \in Nat /\ n = Len(f) + 1
  BY <1>3, <1>4, AppendProperties, LenProperties
<1>6. f \notin S
  BY <1>3, <1>4
<1>7. Len(f) \in L
  BY <1>5, <1>6
<1> QED  BY <1>2, <1>5, <1>7

LEMMA RunTyped ==
  ASSUME NEW X, NEW s \in Seq(Seq(X)), NEW run, Runs(s, run)
  PROVE  \A i \in 1 .. Len(s) : run[i] \in Seq(X)
<1> DEFINE S == {k \in 0 .. Len(s) : k = 0 \/ run[k] \in Seq(X)}
<1>0. Len(s) \in Nat /\ \A i \in 1 .. Len(s) : s[i] \in Seq(X)
  BY LenProperties
<1>1. 0 \in S
  BY <1>0
<1>2. ASSUME NEW k \in 1 .. Len(s), k - 1 \in S
      PROVE  k \in S
  <2>1. run[k] = IF k = 1 THEN s[k] ELSE run[k - 1] \o s[k]
    BY DEF Runs
  <2>2. k # 1 => run[k - 1] \in Seq(X)
    BY <1>2
  <2>3. k # 1 => run[k - 1] \o s[k] \in Seq(X)
    BY <1>0, <2>2, ConcatProperties
  <2>4. run[k] \in Seq(X)
    BY <1>0, <2>1, <2>3
  <2> QED  BY <1>0, <2>4
<1>3. 0 .. Len(s) \subseteq S
  <2> HIDE DEF S
  <2> QED  BY <1>0, <1>1, <1>2, Upward
<1> QED  BY <1>3

LEMMA RunsAgree ==
  ASSUME NEW s, NEW t, NEW run, NEW other, Runs(s, run), Runs(t, other),
         Len(s) \in Nat, Len(t) \in Nat, NEW n \in 0 .. Len(s), n <= Len(t),
         \A i \in 1 .. n : s[i] = t[i]
  PROVE  \A i \in 1 .. n : run[i] = other[i]
<1> DEFINE S == {k \in 0 .. n : k = 0 \/ run[k] = other[k]}
<1>0. n \in Nat
  OBVIOUS
<1>1. 0 \in S
  OBVIOUS
<1>2. ASSUME NEW k \in 1 .. n, k - 1 \in S
      PROVE  k \in S
  <2>0. k \in 1 .. Len(s) /\ k \in 1 .. Len(t)
    BY <1>0
  <2>1. run[k] = IF k = 1 THEN s[k] ELSE run[k - 1] \o s[k]
    BY <2>0 DEF Runs
  <2>2. other[k] = IF k = 1 THEN t[k] ELSE other[k - 1] \o t[k]
    BY <2>0 DEF Runs
  <2>3. s[k] = t[k]
    OBVIOUS
  <2>4. k # 1 => run[k - 1] = other[k - 1]
    BY <1>2
  <2> QED  BY <2>1, <2>2, <2>3, <2>4
<1>3. 0 .. n \subseteq S
  <2> HIDE DEF S
  <2> QED  BY <1>0, <1>1, <1>2, Upward
<1> QED  BY <1>3

LEMMA FlattenEmpty == FlattenSeq(<<>>) = <<>>
BY DEF FlattenSeq

LEMMA FlattenTyped ==
  ASSUME NEW X, NEW s \in Seq(Seq(X))
  PROVE  FlattenSeq(s) \in Seq(X)
<1>1. CASE s = <<>>
  <2>1. FlattenSeq(s) = <<>>
    BY <1>1, FlattenEmpty
  <2> QED  BY <2>1, EmptySeq
<1>2. CASE s # <<>>
  <2>1. PICK run : Runs(s, run) /\ FlattenSeq(s) = run[Len(s)]
    BY <1>2, FlattenRuns
  <2>2. Len(s) \in 1 .. Len(s)
    BY <1>2, EmptySeq
  <2> QED  BY <2>1, <2>2, RunTyped
<1> QED  BY <1>1, <1>2

LEMMA FlattenAppend ==
  ASSUME NEW X, NEW s \in Seq(Seq(X)), NEW x \in Seq(X)
  PROVE  FlattenSeq(Append(s, x)) = FlattenSeq(s) \o x
<1> DEFINE t == Append(s, x)
           n == Len(s)
<1>1. /\ t \in Seq(Seq(X)) /\ t # <<>> /\ n \in Nat /\ Len(t) = n + 1
      /\ t[n + 1] = x /\ \A i \in 1 .. n : t[i] = s[i]
  BY AppendProperties, LenProperties
<1> HIDE DEF t, n
<1>2. PICK other : Runs(t, other) /\ FlattenSeq(t) = other[n + 1]
  BY <1>1, FlattenRuns
<1>3. other[n + 1] = IF n + 1 = 1 THEN x ELSE other[n] \o x
  <2>1. n + 1 \in 1 .. Len(t) /\ (n + 1) - 1 = n
    BY <1>1
  <2>2. \A i \in 1 .. Len(t) : other[i] = IF i = 1 THEN t[i] ELSE other[i - 1] \o t[i]
    BY <1>2 DEF Runs
  <2> QED  BY <1>1, <2>1, <2>2
<1>4. CASE s = <<>>
  <2>1. n = 0
    BY <1>4, EmptySeq DEF n
  <2>2. <<>> \o x = x
    BY ConcatEmptySeq
  <2> QED  BY <1>2, <1>3, <1>4, <2>1, <2>2, FlattenEmpty DEF t
<1>5. CASE s # <<>>
  <2>1. PICK run : Runs(s, run) /\ FlattenSeq(s) = run[n]
    BY <1>5, FlattenRuns DEF n
  <2>2. n # 0 /\ n \in 1 .. n
    BY <1>1, <1>5, EmptySeq DEF n
  <2>3. n <= Len(t) /\ n <= Len(s)
    BY <1>1 DEF n
  <2>4. \A i \in 1 .. n : run[i] = other[i]
    <3>1. \A i \in 1 .. n : s[i] = t[i]
      BY <1>1
    <3>2. Len(s) \in Nat /\ Len(t) \in Nat /\ n \in 0 .. Len(s)
      BY <1>1 DEF n
    <3>3. Runs(s, run) /\ Runs(t, other)
      BY <1>2, <2>1
    <3> QED  BY <2>3, <3>1, <3>2, <3>3, RunsAgree
  <2>5. other[n + 1] = other[n] \o x
    BY <1>1, <1>3, <2>2
  <2> QED  BY <1>2, <2>1, <2>2, <2>4, <2>5 DEF t
<1> QED  BY <1>4, <1>5

LEMMA FlattenOne ==
  ASSUME NEW X, NEW x \in Seq(X)
  PROVE  FlattenSeq(<<x>>) = x
<1>1. <<x>> = Append(<<>>, x) /\ <<>> \in Seq(Seq(X))
  OBVIOUS
<1>2. FlattenSeq(<<x>>) = <<>> \o x
  BY <1>1, FlattenAppend, FlattenEmpty
<1> QED  BY <1>2, ConcatEmptySeq

LEMMA FlattenConcat ==
  ASSUME NEW X, NEW s \in Seq(Seq(X)), NEW t \in Seq(Seq(X))
  PROVE  FlattenSeq(s \o t) = FlattenSeq(s) \o FlattenSeq(t)
<1> DEFINE S == {u \in Seq(Seq(X)) : FlattenSeq(s \o u) = FlattenSeq(s) \o FlattenSeq(u)}
<1>0. FlattenSeq(s) \in Seq(X)
  BY FlattenTyped
<1>1. <<>> \in S
  <2>1. s \o <<>> = s /\ FlattenSeq(s) \o <<>> = FlattenSeq(s) /\ <<>> \in Seq(Seq(X))
    BY <1>0, ConcatEmptySeq, EmptySeq
  <2> QED  BY <2>1, FlattenEmpty
<1>2. ASSUME NEW u \in Seq(Seq(X)), NEW x \in Seq(X), u \in S
      PROVE  Append(u, x) \in S
  <2>1. s \o Append(u, x) = Append(s \o u, x) /\ Append(u, x) \in Seq(Seq(X))
    <3>1. Append(u, x) = u \o <<x>> /\ <<x>> \in Seq(Seq(X)) /\ Append(u, x) \in Seq(Seq(X))
      BY AppendIsConcat, AppendProperties
    <3>2. s \o u \in Seq(Seq(X))
      BY ConcatProperties
    <3>3. Append(s \o u, x) = (s \o u) \o <<x>>
      BY <3>2, AppendIsConcat
    <3> QED  BY <3>1, <3>3, ConcatAssociative
  <2>2. s \o u \in Seq(Seq(X)) /\ FlattenSeq(u) \in Seq(X)
    BY ConcatProperties, FlattenTyped
  <2>3. FlattenSeq(s \o Append(u, x)) = FlattenSeq(s \o u) \o x
    BY <2>1, <2>2, FlattenAppend
  <2>4. FlattenSeq(Append(u, x)) = FlattenSeq(u) \o x
    BY FlattenAppend
  <2>5. (FlattenSeq(s) \o FlattenSeq(u)) \o x = FlattenSeq(s) \o (FlattenSeq(u) \o x)
    BY <1>0, <2>2, ConcatAssociative
  <2> QED  BY <1>2, <2>1, <2>3, <2>4, <2>5
<1>3. Seq(Seq(X)) \subseteq S
  <2> HIDE DEF S
  <2> QED  BY <1>1, <1>2, ByLength
<1> QED  BY <1>3

-----------------------------------------------------------------------------
(* A function applied along a sequence, and along each of some sequences.  *)
Map(h, w) == [j \in DOMAIN w |-> h[w[j]]]

MapEach(h, s) == [i \in DOMAIN s |-> Map(h, s[i])]

IsMap(h, X, Y) == h \in [X -> Y]

LEMMA MapTyped ==
  ASSUME NEW X, NEW Y, NEW h, IsMap(h, X, Y), NEW w \in Seq(X)
  PROVE  /\ Map(h, w) \in Seq(Y)
         /\ Len(Map(h, w)) = Len(w)
         /\ DOMAIN Map(h, w) = DOMAIN w
         /\ \A j \in 1 .. Len(w) : Map(h, w)[j] = h[w[j]]
<1>1. Len(w) \in Nat /\ DOMAIN w = 1 .. Len(w) /\ \A j \in 1 .. Len(w) : w[j] \in X
  BY LenProperties
<1>2. Map(h, w) = [j \in 1 .. Len(w) |-> h[w[j]]]
  BY <1>1 DEF Map
<1>3. \A j \in 1 .. Len(w) : h[w[j]] \in Y
  BY <1>1 DEF IsMap
<1> QED  BY <1>1, <1>2, <1>3

LEMMA MapConcat ==
  ASSUME NEW X, NEW Y, NEW h, IsMap(h, X, Y), NEW u \in Seq(X), NEW v \in Seq(X)
  PROVE  Map(h, u \o v) = Map(h, u) \o Map(h, v)
<1> DEFINE w == u \o v
           a == Map(h, w)
           c == Map(h, u)
           d == Map(h, v)
           b == c \o d
<1>0. Len(u) \in Nat /\ Len(v) \in Nat
  BY LenProperties
<1>1. /\ w \in Seq(X) /\ Len(w) = Len(u) + Len(v)
      /\ \A i \in 1 .. Len(u) + Len(v) : w[i] = IF i <= Len(u) THEN u[i] ELSE v[i - Len(u)]
  BY ConcatProperties
<1> HIDE DEF w
<1>2. a \in Seq(Y) /\ Len(a) = Len(w) /\ \A i \in 1 .. Len(w) : a[i] = h[w[i]]
  BY <1>1, MapTyped
<1>3. c \in Seq(Y) /\ Len(c) = Len(u) /\ \A i \in 1 .. Len(u) : c[i] = h[u[i]]
  BY MapTyped
<1>4. d \in Seq(Y) /\ Len(d) = Len(v) /\ \A i \in 1 .. Len(v) : d[i] = h[v[i]]
  BY MapTyped
<1> HIDE DEF a, c, d
<1>5. /\ b \in Seq(Y) /\ Len(b) = Len(c) + Len(d)
      /\ \A i \in 1 .. Len(c) + Len(d) : b[i] = IF i <= Len(c) THEN c[i] ELSE d[i - Len(c)]
  BY <1>3, <1>4, ConcatProperties
<1> HIDE DEF b
<1>6. ASSUME NEW i \in 1 .. Len(w)
      PROVE  a[i] = b[i]
  <2>0. i \in 1 .. Len(u) + Len(v) /\ i \in 1 .. Len(c) + Len(d)
    BY <1>1, <1>3, <1>4
  <2>1. CASE i <= Len(u)
    <3>1. i \in 1 .. Len(u)
      BY <1>0, <2>0, <2>1
    <3>2. a[i] = h[w[i]] /\ w[i] = u[i] /\ b[i] = c[i] /\ c[i] = h[u[i]]
      BY <1>1, <1>2, <1>3, <1>5, <2>0, <2>1, <3>1
    <3> QED  BY <3>2
  <2>2. CASE ~(i <= Len(u))
    <3>1. i - Len(u) \in 1 .. Len(v)
      BY <1>0, <2>0, <2>2
    <3>2. w[i] = v[i - Len(u)] /\ b[i] = d[i - Len(u)]
      BY <1>1, <1>3, <1>5, <2>0, <2>2
    <3>3. a[i] = h[w[i]] /\ d[i - Len(u)] = h[v[i - Len(u)]]
      BY <1>2, <1>4, <3>1
    <3> QED  BY <3>2, <3>3
  <2> QED  BY <2>1, <2>2
<1>7. Len(a) = Len(b)
  BY <1>1, <1>2, <1>3, <1>4, <1>5
<1>8. a = b
  BY <1>2, <1>5, <1>6, <1>7, SeqEqual
<1> QED  BY <1>8 DEF a, b, c, d, w

LEMMA MapEachAppend ==
  ASSUME NEW X, NEW Y, NEW h, IsMap(h, X, Y), NEW s \in Seq(Seq(X)), NEW x \in Seq(X)
  PROVE  /\ MapEach(h, s) \in Seq(Seq(Y))
         /\ MapEach(h, Append(s, x)) = Append(MapEach(h, s), Map(h, x))
<1>1. ASSUME NEW t \in Seq(Seq(X))
      PROVE  /\ MapEach(h, t) \in Seq(Seq(Y)) /\ Len(MapEach(h, t)) = Len(t)
             /\ \A i \in 1 .. Len(t) : MapEach(h, t)[i] = Map(h, t[i])
  <2>1. Len(t) \in Nat /\ DOMAIN t = 1 .. Len(t) /\ \A i \in 1 .. Len(t) : t[i] \in Seq(X)
    BY LenProperties
  <2>2. \A i \in 1 .. Len(t) : Map(h, t[i]) \in Seq(Y)
    BY <2>1, MapTyped
  <2>3. MapEach(h, t) = [i \in 1 .. Len(t) |-> Map(h, t[i])]
    BY <2>1 DEF MapEach
  <2> QED  BY <2>1, <2>2, <2>3
<1> DEFINE t == Append(s, x)
           a == MapEach(h, t)
           b == Append(MapEach(h, s), Map(h, x))
<1>2. /\ t \in Seq(Seq(X)) /\ Len(s) \in Nat /\ Len(t) = Len(s) + 1
      /\ \A i \in 1 .. Len(s) : t[i] = s[i]
      /\ t[Len(s) + 1] = x
  BY AppendProperties, LenProperties
<1>3. /\ a \in Seq(Seq(Y)) /\ Len(a) = Len(s) + 1
      /\ \A i \in 1 .. Len(s) + 1 : a[i] = Map(h, t[i])
  <2> HIDE DEF t
  <2> QED  BY <1>1, <1>2
<1>4. /\ MapEach(h, s) \in Seq(Seq(Y)) /\ Len(MapEach(h, s)) = Len(s)
      /\ \A i \in 1 .. Len(s) : MapEach(h, s)[i] = Map(h, s[i])
  BY <1>1
<1>5. Map(h, x) \in Seq(Y)
  BY MapTyped
<1>6. /\ b \in Seq(Seq(Y)) /\ Len(b) = Len(s) + 1
      /\ \A i \in 1 .. Len(s) : b[i] = MapEach(h, s)[i]
      /\ b[Len(s) + 1] = Map(h, x)
  BY <1>4, <1>5, AppendProperties
<1> HIDE DEF a, b, t
<1>7. ASSUME NEW i \in 1 .. Len(s) + 1
      PROVE  a[i] = b[i]
  <2>1. i \in 1 .. Len(s) \/ i = Len(s) + 1
    BY <1>2
  <2> QED  BY <1>2, <1>3, <1>4, <1>6, <2>1
<1>8. a = b
  BY <1>2, <1>3, <1>6, <1>7, SeqEqual
<1> QED  BY <1>4, <1>8 DEF a, b, t

LEMMA OneLength ==
  ASSUME NEW X, NEW u \in Seq(X), NEW v \in Seq(X), DOMAIN u = DOMAIN v
  PROVE  Len(u) = Len(v)
<1> DEFINE n == Len(u)
           m == Len(v)
<1>1. n \in Nat /\ m \in Nat /\ 1 .. n = 1 .. m
  BY LenProperties
<1> HIDE DEF n, m
<1>2. n = 0 => m = 0
  BY <1>1
<1>3. n # 0 => n \in 1 .. n
  BY <1>1
<1>4. m # 0 => m \in 1 .. m
  BY <1>1
<1>5. n = m
  BY <1>1, <1>2, <1>3, <1>4
<1> QED  BY <1>5 DEF n, m

LEMMA FlattenMap ==
  ASSUME NEW X, NEW Y, NEW h, IsMap(h, X, Y), NEW s \in Seq(Seq(X))
  PROVE  FlattenSeq(MapEach(h, s)) = Map(h, FlattenSeq(s))
<1> DEFINE S == {t \in Seq(Seq(X)) : FlattenSeq(MapEach(h, t)) = Map(h, FlattenSeq(t))}
<1>1. <<>> \in S
  <2>1. MapEach(h, <<>>) = <<>> /\ Map(h, <<>>) = <<>>
    BY DEF Map, MapEach
  <2>2. <<>> \in Seq(Seq(X))
    BY EmptySeq
  <2> QED  BY <2>1, <2>2, FlattenEmpty
<1>2. ASSUME NEW t \in Seq(Seq(X)), NEW x \in Seq(X), t \in S
      PROVE  Append(t, x) \in S
  <2> DEFINE e == MapEach(h, t)
             y == Map(h, x)
  <2>1. e \in Seq(Seq(Y)) /\ y \in Seq(Y)
    BY MapEachAppend, MapTyped
  <2>2. FlattenSeq(MapEach(h, Append(t, x))) = FlattenSeq(MapEach(h, t)) \o Map(h, x)
    <3>1. MapEach(h, Append(t, x)) = Append(e, y)
      BY MapEachAppend
    <3>2. FlattenSeq(Append(e, y)) = FlattenSeq(e) \o y
      <4> HIDE DEF e, y
      <4> QED  BY <2>1, FlattenAppend
    <3> QED  BY <3>1, <3>2
  <2>3. FlattenSeq(Append(t, x)) = FlattenSeq(t) \o x /\ FlattenSeq(t) \in Seq(X)
    BY FlattenAppend, FlattenTyped
  <2>4. Map(h, FlattenSeq(t) \o x) = Map(h, FlattenSeq(t)) \o Map(h, x)
    BY <2>3, MapConcat
  <2>5. Append(t, x) \in Seq(Seq(X))
    BY AppendProperties
  <2> QED  BY <1>2, <2>2, <2>3, <2>4, <2>5
<1>3. Seq(Seq(X)) \subseteq S
  <2> HIDE DEF S
  <2> QED  BY <1>1, <1>2, ByLength
<1> QED  BY <1>3

(* What is in the parts is in the whole, and nothing else.                 *)
Has(w, x) == \E k \in DOMAIN w : w[k] = x

LEMMA ConcatHas ==
  ASSUME NEW X, NEW u \in Seq(X), NEW v \in Seq(X), NEW x
  PROVE  Has(u \o v, x) <=> Has(u, x) \/ Has(v, x)
<1>1. /\ Len(u) \in Nat /\ DOMAIN u = 1 .. Len(u)
      /\ Len(v) \in Nat /\ DOMAIN v = 1 .. Len(v)
      /\ u \o v \in Seq(X) /\ Len(u \o v) = Len(u) + Len(v)
      /\ \A i \in 1 .. Len(u) + Len(v) :
           (u \o v)[i] = IF i <= Len(u) THEN u[i] ELSE v[i - Len(u)]
  BY ConcatProperties, LenProperties
<1>2. DOMAIN (u \o v) = 1 .. Len(u) + Len(v)
  BY <1>1, LenProperties
<1>3. ASSUME Has(u \o v, x)  PROVE Has(u, x) \/ Has(v, x)
  <2>1. PICK k \in 1 .. Len(u) + Len(v) : (u \o v)[k] = x
    BY <1>2, <1>3 DEF Has
  <2>2. CASE k <= Len(u)
    <3>1. k \in 1 .. Len(u) /\ u[k] = x
      BY <1>1, <2>1, <2>2
    <3> QED  BY <1>1, <3>1 DEF Has
  <2>3. CASE ~(k <= Len(u))
    <3>1. k - Len(u) \in 1 .. Len(v) /\ v[k - Len(u)] = x
      BY <1>1, <2>1, <2>3
    <3> QED  BY <1>1, <3>1 DEF Has
  <2> QED  BY <2>2, <2>3
<1>4. ASSUME Has(u, x)  PROVE Has(u \o v, x)
  <2>1. PICK k \in 1 .. Len(u) : u[k] = x
    BY <1>1, <1>4 DEF Has
  <2>2. k \in 1 .. Len(u) + Len(v) /\ k <= Len(u)
    BY <1>1
  <2> QED  BY <1>1, <1>2, <2>1, <2>2 DEF Has
<1>5. ASSUME Has(v, x)  PROVE Has(u \o v, x)
  <2>1. PICK k \in 1 .. Len(v) : v[k] = x
    BY <1>1, <1>5 DEF Has
  <2>2. k + Len(u) \in 1 .. Len(u) + Len(v) /\ ~(k + Len(u) <= Len(u)) /\ (k + Len(u)) - Len(u) = k
    BY <1>1
  <2>3. (u \o v)[k + Len(u)] = v[k]
    BY <1>1, <2>2
  <2> QED  BY <1>2, <2>1, <2>2, <2>3 DEF Has
<1> QED  BY <1>3, <1>4, <1>5

LEMMA FlattenHas ==
  ASSUME NEW X, NEW s \in Seq(Seq(X)), NEW x
  PROVE  Has(FlattenSeq(s), x) <=> \E i \in DOMAIN s : Has(s[i], x)
<1> DEFINE S == {t \in Seq(Seq(X)) :
                   Has(FlattenSeq(t), x) <=> \E i \in DOMAIN t : Has(t[i], x)}
<1>1. <<>> \in S
  <2>1. ~Has(<<>>, x) /\ <<>> \in Seq(Seq(X)) /\ DOMAIN <<>> = {}
    BY EmptySeq DEF Has
  <2> QED  BY <2>1, FlattenEmpty
<1>2. ASSUME NEW t \in Seq(Seq(X)), NEW y \in Seq(X), t \in S
      PROVE  Append(t, y) \in S
  <2>1. FlattenSeq(Append(t, y)) = FlattenSeq(t) \o y /\ FlattenSeq(t) \in Seq(X)
    BY FlattenAppend, FlattenTyped
  <2>2. Has(FlattenSeq(Append(t, y)), x) <=> Has(FlattenSeq(t), x) \/ Has(y, x)
    BY <2>1, ConcatHas
  <2>3. /\ Append(t, y) \in Seq(Seq(X)) /\ Len(t) \in Nat /\ DOMAIN t = 1 .. Len(t)
        /\ DOMAIN Append(t, y) = 1 .. Len(t) + 1
        /\ \A i \in 1 .. Len(t) : Append(t, y)[i] = t[i]
        /\ Append(t, y)[Len(t) + 1] = y
    BY AppendProperties, LenProperties
  <2>4. (\E i \in DOMAIN Append(t, y) : Has(Append(t, y)[i], x))
          <=> (\E i \in DOMAIN t : Has(t[i], x)) \/ Has(y, x)
    <3>1. \A i \in 1 .. Len(t) + 1 : i \in 1 .. Len(t) \/ i = Len(t) + 1
      BY <2>3
    <3>2. Len(t) + 1 \in 1 .. Len(t) + 1 /\ \A i \in 1 .. Len(t) : i \in 1 .. Len(t) + 1
      BY <2>3
    <3> QED  BY <2>3, <3>1, <3>2
  <2> QED  BY <1>2, <2>2, <2>3, <2>4
<1>3. Seq(Seq(X)) \subseteq S
  <2> HIDE DEF S
  <2> QED  BY <1>1, <1>2, ByLength
<1> QED  BY <1>3

-----------------------------------------------------------------------------
(* Reading words back, from the last one on.                               *)

Words(W, X) == W \subseteq Seq(X)

(* Words of W and V are told apart by how a sequence ends.                 *)
Apart(W, V, X) ==
  \A u \in W, v \in V, a, b \in Seq(X) : a \o u = b \o v => u = v

(* Every word ends in E.                                                   *)
EndIn(W, E) == \A u \in W : u # <<>> /\ u[Len(u)] \in E

(* The sequence does not end in a word.                                    *)
Closed(a, E) == a = <<>> \/ a[Len(a)] \notin E

LEMMA ConcatLast ==
  ASSUME NEW X, NEW a \in Seq(X), NEW u \in Seq(X), u # <<>>
  PROVE  /\ a \o u \in Seq(X) /\ a \o u # <<>>
         /\ (a \o u)[Len(a \o u)] = u[Len(u)]
<1> DEFINE w == a \o u
<1>0. Len(a) \in Nat /\ Len(u) \in Nat \ {0}
  BY LenProperties, EmptySeq
<1>1. /\ w \in Seq(X) /\ Len(w) = Len(a) + Len(u)
      /\ \A i \in 1 .. Len(a) + Len(u) : w[i] = IF i <= Len(a) THEN a[i] ELSE u[i - Len(a)]
  BY ConcatProperties
<1> HIDE DEF w
<1>2. /\ Len(w) \in 1 .. Len(a) + Len(u) /\ ~(Len(w) <= Len(a))
      /\ Len(w) - Len(a) = Len(u) /\ Len(w) # 0
  BY <1>0, <1>1
<1>3. w[Len(w)] = u[Len(u)]
  BY <1>1, <1>2
<1>4. w # <<>>
  BY <1>2, EmptySeq
<1> QED  BY <1>1, <1>3, <1>4 DEF w

LEMMA CancelRight ==
  ASSUME NEW X, NEW a \in Seq(X), NEW b \in Seq(X), NEW u \in Seq(X), a \o u = b \o u
  PROVE  a = b
BY ConcatSimplifications

(* A word is not read off a sequence that does not end in one.             *)
LEMMA NotClosed ==
  ASSUME NEW X, NEW W, Words(W, X), NEW E, EndIn(W, E),
         NEW a \in Seq(X), NEW u \in W
  PROVE  ~Closed(a \o u, E)
<1>1. u \in Seq(X) /\ u # <<>> /\ u[Len(u)] \in E
  BY DEF EndIn, Words
<1> QED  BY <1>1, ConcatLast DEF Closed

(* The words of s, read behind a.                                          *)
After(a, s) == a \o FlattenSeq(s)

LEMMA AfterWords ==
  ASSUME NEW X, NEW W, Words(W, X), NEW s \in Seq(W), NEW w \in W, NEW a \in Seq(X)
  PROVE  After(a, s) \in Seq(X) /\ After(a, Append(s, w)) = After(a, s) \o w
<1>1. s \in Seq(Seq(X)) /\ w \in Seq(X)
  BY SeqMonotonic DEF Words
<1>2. FlattenSeq(s) \in Seq(X)
  BY <1>1, FlattenTyped
<1>3. FlattenSeq(Append(s, w)) = FlattenSeq(s) \o w
  BY <1>1, FlattenAppend
<1>4. a \o (FlattenSeq(s) \o w) = (a \o FlattenSeq(s)) \o w
  BY <1>1, <1>2, ConcatAssociative
<1>5. a \o FlattenSeq(s) \in Seq(X)
  BY <1>2, ConcatProperties
<1> QED  BY <1>3, <1>4, <1>5 DEF After

LEMMA AfterNone ==
  ASSUME NEW X, NEW a \in Seq(X)
  PROVE  After(a, <<>>) = a
BY FlattenEmpty, ConcatEmptySeq DEF After

LEMMA ReadBack ==
  ASSUME NEW X, NEW W, Words(W, X), NEW V, Words(V, X), NEW E,
         EndIn(W, E), EndIn(V, E), Apart(W, V, X)
  PROVE  \A s \in Seq(W), t \in Seq(V), a, b \in Seq(X) :
           Closed(a, E) /\ Closed(b, E) /\ After(a, s) = After(b, t) => a = b /\ s = t
<1> DEFINE S == {s \in Seq(W) : \A t \in Seq(V), a, b \in Seq(X) :
                   Closed(a, E) /\ Closed(b, E) /\ After(a, s) = After(b, t)
                     => a = b /\ s = t}
<1>1. <<>> \in S
  <2>1. <<>> \in Seq(W)
    BY EmptySeq
  <2> SUFFICES ASSUME NEW t \in Seq(V), NEW a \in Seq(X), NEW b \in Seq(X),
                      Closed(a, E), Closed(b, E), After(a, <<>>) = After(b, t)
               PROVE  a = b /\ <<>> = t
    BY <2>1
  <2>2. After(b, t) = a
    BY AfterNone
  <2>3. CASE t = <<>>
    BY <2>2, <2>3, AfterNone
  <2>4. CASE t # <<>>
    <3>1. PICK f \in Seq(V), v \in V : t = Append(f, v)
      BY <2>4, SequenceEmptyOrAppend
    <3>2. After(b, f) \in Seq(X) /\ a = After(b, f) \o v
      BY <2>2, <3>1, AfterWords
    <3>3. ~Closed(a, E)
      BY <3>2, NotClosed
    <3> QED  BY <3>3
  <2> QED  BY <2>3, <2>4
<1>2. ASSUME NEW s \in Seq(W), NEW u \in W, s \in S
      PROVE  Append(s, u) \in S
  <2>1. Append(s, u) \in Seq(W)
    BY AppendProperties
  <2> SUFFICES ASSUME NEW t \in Seq(V), NEW a \in Seq(X), NEW b \in Seq(X),
                      Closed(a, E), Closed(b, E), After(a, Append(s, u)) = After(b, t)
               PROVE  a = b /\ Append(s, u) = t
    BY <2>1
  <2>2. After(a, s) \in Seq(X) /\ After(b, t) = After(a, s) \o u
    BY AfterWords
  <2>3. CASE t = <<>>
    <3>1. b = After(a, s) \o u
      BY <2>2, <2>3, AfterNone
    <3>2. ~Closed(b, E)
      BY <2>2, <3>1, NotClosed
    <3> QED  BY <3>2
  <2>4. CASE t # <<>>
    <3>1. PICK f \in Seq(V), v \in V : t = Append(f, v)
      BY <2>4, SequenceEmptyOrAppend
    <3>2. After(b, f) \in Seq(X) /\ After(b, t) = After(b, f) \o v
      BY <3>1, AfterWords
    <3>3. After(a, s) \o u = After(b, f) \o v
      BY <2>2, <3>2
    <3>4. u = v
      BY <2>2, <3>2, <3>3 DEF Apart
    <3>5. After(a, s) = After(b, f)
      <4>1. u \in Seq(X)
        BY DEF Words
      <4> QED  BY <2>2, <3>2, <3>3, <3>4, <4>1, CancelRight
    <3>6. a = b /\ s = f
      BY <1>2, <3>5
    <3> QED  BY <3>1, <3>4, <3>6
  <2> QED  BY <2>3, <2>4
<1>3. Seq(W) \subseteq S
  <2> HIDE DEF S
  <2> QED  BY <1>1, <1>2, ByLength
<1> QED  BY <1>3

-----------------------------------------------------------------------------
(* JSON values.                                                            *)

IsAtom(v) == \E x \in Atoms : v = [atom |-> x]

(* An object over the values of a set.                                     *)
IsObject(v, values) == \E S \in SUBSET Keys : \E f \in [S -> values] : v = [dict |-> f]

(* The first levels of a solution of Nested.                               *)
Levels(m, g) == g = [n \in 0 .. m |-> IF n = 0 THEN [atom : Atoms] ELSE Deeper(g[n - 1])]

LEMMA NestedIs ==
  /\ Nested[0] = [atom : Atoms]
  /\ \A n \in 1 .. MaxDepth : Nested[n] = Deeper(Nested[n - 1])
<1> DEFINE S == {m \in 0 .. MaxDepth : \E g : Levels(m, g)}
<1>0. MaxDepth \in Nat
  BY JsonAssumption
<1>1. 0 \in S
  <2> DEFINE g == [n \in 0 .. 0 |-> [atom : Atoms]]
  <2>1. Levels(0, g)
    BY DEF Levels
  <2>2. 0 \in 0 .. MaxDepth
    BY <1>0
  <2> HIDE DEF g
  <2> QED  BY <2>1, <2>2
<1>2. ASSUME NEW m \in 1 .. MaxDepth, m - 1 \in S
      PROVE  m \in S
  <2>1. PICK g : Levels(m - 1, g)
    BY <1>2
  <2>0. g = [n \in 0 .. m - 1 |-> IF n = 0 THEN [atom : Atoms] ELSE Deeper(g[n - 1])]
    BY <2>1 DEF Levels
  <2> DEFINE h == [n \in 0 .. m |-> IF n = 0 THEN [atom : Atoms] ELSE Deeper(g[n - 1])]
  <2>2. \A n \in 0 .. m - 1 : h[n] = g[n]
    <3>1. \A n \in 0 .. m - 1 : n \in 0 .. m
      BY <1>0
    <3>2. \A n \in 0 .. m - 1 : g[n] = IF n = 0 THEN [atom : Atoms] ELSE Deeper(g[n - 1])
      BY <2>0
    <3> QED  BY <3>1, <3>2
  <2>3. \A n \in 0 .. m : n # 0 => n - 1 \in 0 .. m - 1
    BY <1>0
  <2>4. h = [n \in 0 .. m |-> IF n = 0 THEN [atom : Atoms] ELSE Deeper(h[n - 1])]
    <3>1. \A n \in 0 .. m : n # 0 => h[n - 1] = g[n - 1]
      BY <2>2, <2>3
    <3> QED  BY <3>1
  <2> HIDE DEF h
  <2>5. Levels(m, h)
    BY <2>4 DEF Levels
  <2>6. m \in 0 .. MaxDepth
    BY <1>0
  <2> QED  BY <2>5, <2>6
<1>3. 0 .. MaxDepth \subseteq S
  <2> HIDE DEF S
  <2> QED  BY <1>0, <1>1, <1>2, Upward
<1>4. PICK g : Levels(MaxDepth, g)
  <2>1. MaxDepth \in S
    BY <1>0, <1>3
  <2> QED  BY <2>1
<1> DEFINE c == CHOOSE g1 : g1 = [n \in 0 .. MaxDepth |-> IF n = 0 THEN [atom : Atoms] ELSE Deeper(g1[n - 1])]
<1>5. c = [n \in 0 .. MaxDepth |-> IF n = 0 THEN [atom : Atoms] ELSE Deeper(c[n - 1])]
  BY <1>4 DEF Levels
<1>6. Nested = c
  BY DEF Nested
<1> HIDE DEF c
<1>7. \A n \in 0 .. MaxDepth : c[n] = IF n = 0 THEN [atom : Atoms] ELSE Deeper(c[n - 1])
  BY <1>5
<1>8. 0 \in 0 .. MaxDepth /\ \A n \in 1 .. MaxDepth : n \in 0 .. MaxDepth /\ n # 0
  BY <1>0
<1>9. c[0] = [atom : Atoms] /\ \A n \in 1 .. MaxDepth : c[n] = Deeper(c[n - 1])
  BY <1>7, <1>8
<1> QED  BY <1>6, <1>9

LEMMA DeeperObjects ==
  ASSUME NEW values, NEW v
  PROVE  v \in Deeper(values) <=> v \in values \/ IsObject(v, values)
<1> DEFINE F == UNION {[S -> values] : S \in SUBSET Keys}
<1>1. v \in [dict : F] <=> \E f \in F : v = [dict |-> f]
  OBVIOUS
<1>2. \A f : f \in F <=> \E S \in SUBSET Keys : f \in [S -> values]
  OBVIOUS
<1> HIDE DEF F
<1>3. v \in [dict : F] <=> IsObject(v, values)
  BY <1>1, <1>2 DEF IsObject
<1> QED  BY <1>3 DEF Deeper, F

LEMMA NestedGrows ==
  \A n \in 0 .. MaxDepth : Nested[n] \subseteq Values
<1> DEFINE S == {m \in 0 .. MaxDepth : \A k \in 0 .. m : Nested[k] \subseteq Nested[m]}
<1>0. MaxDepth \in Nat
  BY JsonAssumption
<1>1. 0 \in S
  BY <1>0
<1>2. ASSUME NEW m \in 1 .. MaxDepth, m - 1 \in S
      PROVE  m \in S
  <2>1. Nested[m - 1] \subseteq Nested[m]
    <3>1. Nested[m] = Deeper(Nested[m - 1])
      BY NestedIs
    <3> QED  BY <3>1, DeeperObjects
  <2>2. \A k \in 0 .. m : k = m \/ k \in 0 .. m - 1
    BY <1>0
  <2>3. m \in 0 .. MaxDepth
    BY <1>0
  <2>4. \A k \in 0 .. m - 1 : Nested[k] \subseteq Nested[m - 1]
    BY <1>2
  <2> QED  BY <2>1, <2>2, <2>3, <2>4
<1>3. 0 .. MaxDepth \subseteq S
  <2> HIDE DEF S
  <2> QED  BY <1>0, <1>1, <1>2, Upward
<1>4. MaxDepth \in S
  <2> HIDE DEF S
  <2> QED  BY <1>0, <1>3
<1> QED  BY <1>4 DEF Values

LEMMA ObjectsWiden ==
  ASSUME NEW v, NEW values, NEW wider, values \subseteq wider, IsObject(v, values)
  PROVE  IsObject(v, wider)
<1>1. PICK S \in SUBSET Keys : \E f \in [S -> values] : v = [dict |-> f]
  BY DEF IsObject
<1>2. PICK f \in [S -> values] : v = [dict |-> f]
  BY <1>1
<1>3. f \in [S -> wider]
  OBVIOUS
<1> QED  BY <1>2, <1>3 DEF IsObject

(* What holds of the atoms, and of the objects over values it holds of,    *)
(* holds of every value.                                                   *)
LEMMA ByNesting ==
  ASSUME NEW S,
         \A v \in Values : IsAtom(v) => v \in S,
         \A v \in Values, values \in SUBSET (S \cap Values) : IsObject(v, values) => v \in S
  PROVE  Values \subseteq S
<1> DEFINE L == {m \in 0 .. MaxDepth : Nested[m] \subseteq S}
<1>0. MaxDepth \in Nat
  BY JsonAssumption
<1>1. 0 \in L
  <2>1. \A v \in Nested[0] : IsAtom(v)
    BY NestedIs DEF IsAtom
  <2>2. 0 \in 0 .. MaxDepth
    BY <1>0
  <2>3. Nested[0] \subseteq Values
    BY <2>2, NestedGrows
  <2> QED  BY <2>1, <2>2, <2>3
<1>2. ASSUME NEW m \in 1 .. MaxDepth, m - 1 \in L
      PROVE  m \in L
  <2>1. m \in 0 .. MaxDepth /\ Nested[m] \subseteq Values
    BY <1>0, NestedGrows
  <2>2. Nested[m - 1] \in SUBSET (S \cap Values)
    BY <1>2, NestedGrows
  <2>3. \A v \in Nested[m] : v \in Nested[m - 1] \/ IsObject(v, Nested[m - 1])
    BY NestedIs, DeeperObjects
  <2>4. \A v \in Nested[m] : v \in S
    <3> HIDE DEF L
    <3> QED  BY <2>1, <2>2, <2>3
  <2> QED  BY <2>1, <2>4
<1>3. 0 .. MaxDepth \subseteq L
  <2> HIDE DEF L
  <2> QED  BY <1>0, <1>1, <1>2, Upward
<1>4. MaxDepth \in L
  <2> HIDE DEF L
  <2> QED  BY <1>0, <1>3
<1> QED  BY <1>4 DEF Values

LEMMA ValueShapes ==
  \A v \in Values : IsAtom(v) \/ IsObject(v, Values)
<1> DEFINE S == {v \in Values : IsAtom(v) \/ IsObject(v, Values)}
<1>1. \A v \in Values : IsAtom(v) => v \in S
  OBVIOUS
<1>2. \A v \in Values, values \in SUBSET (S \cap Values) : IsObject(v, values) => v \in S
  <2> SUFFICES ASSUME NEW v \in Values, NEW values \in SUBSET (S \cap Values),
                      IsObject(v, values)
               PROVE  IsObject(v, Values)
    OBVIOUS
  <2>1. values \subseteq Values
    OBVIOUS
  <2> QED  BY <2>1, ObjectsWiden
<1> HIDE DEF S
<1>3. Values \subseteq S
  BY <1>1, <1>2, ByNesting
<1> QED  BY <1>3 DEF S

LEMMA AtomShape ==
  ASSUME NEW v, IsAtom(v)
  PROVE  ~IsDict(v) /\ v.atom \in Atoms /\ v = [atom |-> v.atom]
<1>1. PICK x \in Atoms : v = [atom |-> x]
  BY DEF IsAtom
<1> QED  BY <1>1 DEF IsDict

LEMMA ObjectShape ==
  ASSUME NEW values, NEW v, IsObject(v, values)
  PROVE  /\ IsDict(v) /\ v = [dict |-> v.dict]
         /\ DOMAIN v.dict \subseteq Keys /\ v.dict \in [DOMAIN v.dict -> values]
<1>1. PICK S \in SUBSET Keys : \E f \in [S -> values] : v = [dict |-> f]
  BY DEF IsObject
<1>2. PICK f \in [S -> values] : v = [dict |-> f]
  BY <1>1
<1>3. v.dict = f /\ DOMAIN f = S
  BY <1>2
<1> QED  BY <1>2, <1>3 DEF IsDict

-----------------------------------------------------------------------------
(* The fields of a value.                                                  *)

LEMMA SetToSeqLists ==
  ASSUME NEW S, IsFiniteSet(S)
  PROVE  /\ SetToSeq(S) \in Seq(S)
         /\ \A x \in S : Has(SetToSeq(S), x)
<1> DEFINE n == Cardinality(S)
           f == SetToSeq(S)
<1>0. n \in Nat /\ IsFiniteSet(1 .. n) /\ Cardinality(1 .. n) = n
  BY FS_CardinalityType, FS_Interval
<1>1. \E g \in [1 .. n -> S] : IsInjective(g)
  <2>1. PICK g : g \in Bijection(1 .. n, S)
    BY FS_CardinalityType DEF ExistsBijection
  <2>2. g \in [1 .. n -> S] /\ \A a, b \in 1 .. n : g[a] = g[b] => a = b
    BY <2>1, Fun_BijectionProperties
  <2> QED  BY <2>2 DEF IsInjective
<1>2. f \in [1 .. n -> S] /\ IsInjective(f)
  BY <1>1 DEF SetToSeq
<1> HIDE DEF f
<1>3. f \in Injection(1 .. n, S)
  BY <1>2, Fun_IsInj DEF IsInjective
<1> HIDE DEF n
<1>4. f \in Surjection(1 .. n, S)
  BY <1>0, <1>3, FS_Injection DEF n
<1>5. \A x \in S : \E k \in 1 .. n : f[k] = x
  BY <1>4 DEF Surjection
<1>6. f \in Seq(S) /\ DOMAIN f = 1 .. n
  BY <1>0, <1>2
<1> QED  BY <1>5, <1>6 DEF f, Has

LEMMA SortedKeysLists ==
  ASSUME NEW values, NEW v, IsObject(v, values)
  PROVE  /\ SortedKeys(v.dict) \in Seq(DOMAIN v.dict)
         /\ SortedKeys(v.dict) \in Seq(Keys)
         /\ \A key \in DOMAIN v.dict : Has(SortedKeys(v.dict), key)
<1>1. DOMAIN v.dict \subseteq Keys /\ IsFiniteSet(Keys)
  BY ObjectShape, JsonAssumption
<1>2. IsFiniteSet(DOMAIN v.dict)
  BY <1>1, FS_Subset
<1>3. /\ SortedKeys(v.dict) \in Seq(DOMAIN v.dict)
      /\ \A key \in DOMAIN v.dict : Has(SortedKeys(v.dict), key)
  BY <1>2, SetToSeqLists DEF SortedKeys
<1> QED  BY <1>1, <1>3, SeqMonotonic

(* One word for each member of an object, when g gives what is in them.    *)
MemberWords(v, g) ==
  LET keys == SortedKeys(v.dict)
  IN  [k \in DOMAIN keys |-> Enclosed(keys[k], v.dict[keys[k]], g[v.dict[keys[k]]])]

MembersBy(v, g) == IF ~IsDict(v) THEN <<>> ELSE FlattenSeq(MemberWords(v, g))

AgreeOn(g, h, values) == \A u \in values : g[u] = h[u]

IsOver(v, values) == IsAtom(v) \/ IsObject(v, values)

LEMMA MembersByAgree ==
  ASSUME NEW values, NEW v, IsOver(v, values), NEW g, NEW h, AgreeOn(g, h, values)
  PROVE  MembersBy(v, g) = MembersBy(v, h)
<1>1. CASE IsAtom(v)
  BY <1>1, AtomShape DEF MembersBy
<1>2. CASE IsObject(v, values)
  <2> DEFINE keys == SortedKeys(v.dict)
  <2>1. \A k \in DOMAIN keys : keys[k] \in DOMAIN v.dict
    BY <1>2, SortedKeysLists, LenProperties
  <2>2. \A key \in DOMAIN v.dict : v.dict[key] \in values
    BY <1>2, ObjectShape
  <2>3. \A k \in DOMAIN keys : g[v.dict[keys[k]]] = h[v.dict[keys[k]]]
    BY <2>1, <2>2 DEF AgreeOn
  <2>4. MemberWords(v, g) = MemberWords(v, h)
    BY <2>3 DEF MemberWords
  <2> QED  BY <2>4 DEF MembersBy
<1> QED  BY <1>1, <1>2 DEF IsOver

LEMMA NestedShapes ==
  ASSUME NEW m \in 0 .. MaxDepth
  PROVE  \A v \in Nested[m] : IsAtom(v) \/ (m # 0 /\ IsObject(v, Nested[m - 1]))
<1> DEFINE S == {k \in 0 .. MaxDepth :
                   \A v \in Nested[k] : IsAtom(v) \/ (k # 0 /\ IsObject(v, Nested[k - 1]))}
<1>0. MaxDepth \in Nat
  BY JsonAssumption
<1>1. 0 \in S
  <2>1. \A v \in Nested[0] : IsAtom(v)
    BY NestedIs DEF IsAtom
  <2>2. 0 \in 0 .. MaxDepth
    BY <1>0
  <2> QED  BY <2>1, <2>2
<1>2. ASSUME NEW k \in 1 .. MaxDepth, k - 1 \in S
      PROVE  k \in S
  <2>0. k \in 0 .. MaxDepth /\ k # 0 /\ (k - 1 # 0 => k - 1 \in 1 .. MaxDepth)
    BY <1>0
  <2>1. \A v \in Nested[k] : v \in Nested[k - 1] \/ IsObject(v, Nested[k - 1])
    BY NestedIs, DeeperObjects
  <2>2. ASSUME NEW v \in Nested[k - 1]
        PROVE  IsAtom(v) \/ IsObject(v, Nested[k - 1])
    <3>1. IsAtom(v) \/ (k - 1 # 0 /\ IsObject(v, Nested[(k - 1) - 1]))
      BY <1>2
    <3>2. k - 1 # 0 => Nested[(k - 1) - 1] \subseteq Nested[k - 1]
      BY <2>0, NestedIs, DeeperObjects
    <3> QED  BY <3>1, <3>2, ObjectsWiden
  <2> QED  BY <2>0, <2>1, <2>2
<1>3. 0 .. MaxDepth \subseteq S
  <2> HIDE DEF S
  <2> QED  BY <1>0, <1>1, <1>2, Upward
<1> QED  BY <1>3

(* The function Members exists, and is what its definition says.           *)
MembersUpTo(m, g) == g = [v \in Nested[m] |-> MembersBy(v, g)]

LEMMA MembersIs ==
  \A v \in Values : Members[v] = MembersBy(v, Members)
<1> DEFINE S == {m \in 0 .. MaxDepth : \E g : MembersUpTo(m, g)}
<1>0. MaxDepth \in Nat
  BY JsonAssumption
<1>1. 0 \in S
  <2> DEFINE g == [v \in Nested[0] |-> MembersBy(v, <<>>)]
  <2>1. \A v \in Nested[0] : MembersBy(v, <<>>) = MembersBy(v, g)
    <3>1. \A v \in Nested[0] : IsAtom(v)
      BY <1>0, NestedShapes
    <3> QED  BY <3>1, AtomShape DEF MembersBy
  <2>2. g = [v \in Nested[0] |-> MembersBy(v, g)]
    <3>1. g = [v \in Nested[0] |-> g[v]] /\ \A v \in Nested[0] : g[v] = MembersBy(v, <<>>)
      OBVIOUS
    <3> HIDE DEF g
    <3> QED  BY <2>1, <3>1
  <2> HIDE DEF g
  <2>3. MembersUpTo(0, g)
    BY <2>2 DEF MembersUpTo
  <2>4. 0 \in 0 .. MaxDepth
    BY <1>0
  <2> QED  BY <2>3, <2>4
<1>2. ASSUME NEW m \in 1 .. MaxDepth, m - 1 \in S
      PROVE  m \in S
  <2>1. PICK g : MembersUpTo(m - 1, g)
    BY <1>2
  <2>2. \A v \in Nested[m - 1] : g[v] = MembersBy(v, g)
    BY <2>1 DEF MembersUpTo
  <2> DEFINE h == [v \in Nested[m] |-> MembersBy(v, g)]
  <2>3. Nested[m - 1] \subseteq Nested[m]
    BY NestedIs, DeeperObjects
  <2>4. \A v \in Nested[m] : h[v] = MembersBy(v, g)
    OBVIOUS
  <2>5. h = [v \in Nested[m] |-> h[v]]
    OBVIOUS
  <2> HIDE DEF h
  <2>6. AgreeOn(g, h, Nested[m - 1])
    BY <2>2, <2>3, <2>4 DEF AgreeOn
  <2>7. ASSUME NEW v \in Nested[m]
        PROVE  MembersBy(v, g) = MembersBy(v, h)
    <3>1. m \in 0 .. MaxDepth
      BY <1>0
    <3> DEFINE values == Nested[m - 1]
    <3>2. IsOver(v, values) /\ AgreeOn(g, h, values)
      BY <2>6, <3>1, NestedShapes DEF IsOver
    <3> HIDE DEF values, S
    <3> QED  BY <3>2, MembersByAgree
  <2>8. h = [v \in Nested[m] |-> MembersBy(v, h)]
    BY <2>4, <2>5, <2>7
  <2>9. MembersUpTo(m, h) /\ m \in 0 .. MaxDepth
    BY <1>0, <2>8 DEF MembersUpTo
  <2> QED  BY <2>9
<1>3. 0 .. MaxDepth \subseteq S
  <2> HIDE DEF S
  <2> QED  BY <1>0, <1>1, <1>2, Upward
<1>4. PICK g : g = [v \in Values |-> MembersBy(v, g)]
  <2>1. MaxDepth \in S
    <3> HIDE DEF S
    <3> QED  BY <1>0, <1>3
  <2> QED  BY <2>1 DEF MembersUpTo, Values
<1> DEFINE c == CHOOSE g1 : g1 = [v \in Values |-> MembersBy(v, g1)]
<1>5. c = [v \in Values |-> MembersBy(v, c)]
  BY <1>4
<1>6. Members = c
  BY DEF Members, MembersBy, MemberWords
<1> HIDE DEF c
<1>7. \A v \in Values : c[v] = MembersBy(v, c)
  BY <1>5
<1> QED  BY <1>6, <1>7

-----------------------------------------------------------------------------
(* Words made by a function, read back.                                    *)

Behind(a, u) == a \o u

LastOf(w) == w[Len(w)]

LEMMA BehindTyped ==
  ASSUME NEW X, NEW a \in Seq(X), NEW u \in Seq(X)
  PROVE  Behind(a, u) \in Seq(X)
BY ConcatProperties DEF Behind

LEMMA BehindLast ==
  ASSUME NEW X, NEW a \in Seq(X), NEW u \in Seq(X), u # <<>>
  PROVE  LastOf(Behind(a, u)) = LastOf(u) /\ Behind(a, u) # <<>>
BY ConcatLast DEF Behind, LastOf

LEMMA BehindBehind ==
  ASSUME NEW X, NEW a \in Seq(X), NEW u \in Seq(X), NEW v \in Seq(X)
  PROVE  Behind(a, Behind(u, v)) = Behind(Behind(a, u), v)
BY ConcatAssociative DEF Behind

LEMMA BehindCancels ==
  ASSUME NEW X, NEW a \in Seq(X), NEW b \in Seq(X), NEW u \in Seq(X), Behind(a, u) = Behind(b, u)
  PROVE  a = b
BY CancelRight DEF Behind

(* The word says which member of R or Q it is of, whatever is before it.   *)
Legible(f, R, Q, X) ==
  \A r \in R, q \in Q, a, b \in Seq(X) : Behind(a, f[r]) = Behind(b, f[q]) => r = q

Ends(f, Q, E) == \A q \in Q : f[q] # <<>> /\ f[q][Len(f[q])] \in E

ReadAlike(a, b, f, s, t) == After(a, Map(f, s)) = After(b, Map(f, t))

LEMMA ReadMap ==
  ASSUME NEW X, NEW Q, NEW R, R \subseteq Q, NEW f, IsMap(f, Q, Seq(X)),
         NEW E, Ends(f, Q, E), Legible(f, R, Q, X),
         NEW s \in Seq(R), NEW t \in Seq(Q), NEW a \in Seq(X), NEW b \in Seq(X),
         Closed(a, E), Closed(b, E), ReadAlike(a, b, f, s, t)
  PROVE  a = b /\ s = t
<1> DEFINE W == {f[r] : r \in R}
           V == {f[q] : q \in Q}
           w == Map(f, s)
           v == Map(f, t)
<1>1. Words(W, X) /\ Words(V, X)
  BY DEF Words, IsMap
<1>2. EndIn(W, E) /\ EndIn(V, E)
  BY DEF EndIn, Ends
<1>3. Apart(W, V, X)
  BY DEF Apart, Legible, Behind
<1>4. IsMap([r \in R |-> f[r]], R, W) /\ IsMap(f, Q, V)
  BY DEF IsMap
<1>5. w = Map([r \in R |-> f[r]], s)
  <2>1. DOMAIN s = 1 .. Len(s) /\ \A j \in 1 .. Len(s) : s[j] \in R
    BY LenProperties
  <2> QED  BY <2>1 DEF Map
<1> HIDE DEF W, V
<1>6. w \in Seq(W) /\ Len(w) = Len(s) /\ \A j \in 1 .. Len(s) : w[j] = f[s[j]]
  <2> DEFINE g == [r \in R |-> f[r]]
  <2>1. \A j \in 1 .. Len(s) : g[s[j]] = f[s[j]]
    BY LenProperties
  <2>3. IsMap(g, R, W)
    BY <1>4
  <2> HIDE DEF g
  <2>2. Map(g, s) \in Seq(W) /\ Len(Map(g, s)) = Len(s) /\ \A j \in 1 .. Len(s) : Map(g, s)[j] = g[s[j]]
    BY <2>3, MapTyped
  <2> QED  BY <1>5, <2>1, <2>2 DEF g
<1>7. v \in Seq(V) /\ Len(v) = Len(t) /\ \A j \in 1 .. Len(t) : v[j] = f[t[j]]
  BY <1>4, MapTyped
<1> HIDE DEF w, v
<1>8. a = b /\ w = v
  <2>1. After(a, w) = After(b, v)
    BY DEF w, v, ReadAlike
  <2> QED  BY <1>1, <1>2, <1>3, <1>6, <1>7, <2>1, ReadBack
<1>9. Len(s) = Len(t)
  BY <1>6, <1>7, <1>8
<1>10. ASSUME NEW j \in 1 .. Len(s)
       PROVE  s[j] = t[j]
  <2>1. s[j] \in R /\ t[j] \in Q /\ f[s[j]] = f[t[j]]
    BY <1>6, <1>7, <1>8, <1>9, LenProperties
  <2>2. <<>> \in Seq(X)
    BY EmptySeq
  <2>3. Behind(<<>>, f[s[j]]) = Behind(<<>>, f[t[j]])
    BY <2>1
  <2> QED  BY <2>1, <2>2, <2>3 DEF Legible
<1>11. s = t
  <2>1. s \in Seq(Q)
    BY SeqMonotonic
  <2> QED  BY <1>9, <1>10, <2>1, SeqEqual
<1> QED  BY <1>8, <1>11

(* What stands between a and an end of one field is what stands there in   *)
(* the other sequence.                                                     *)
Enclose(a, x, p, b, z, q, y) ==
  Behind(a, Behind(Behind(x, p), y)) = Behind(b, Behind(Behind(z, q), y))

Alike(a, p, b, q) == Behind(a, p) = Behind(b, q)

LEMMA Enclosing ==
  ASSUME NEW X, NEW a \in Seq(X), NEW b \in Seq(X), NEW x \in Seq(X), NEW z \in Seq(X),
         NEW y \in Seq(X),
         NEW p \in Seq(X), NEW q \in Seq(X), Enclose(a, x, p, b, z, q, y)
  PROVE  Alike(Behind(a, x), p, Behind(b, z), q)
<1>1. /\ Behind(x, p) \in Seq(X) /\ Behind(z, q) \in Seq(X)
  BY BehindTyped
<1> DEFINE u == Behind(x, p)
           v == Behind(z, q)
<1>2. u \in Seq(X) /\ v \in Seq(X) /\ Behind(a, Behind(u, y)) = Behind(b, Behind(v, y))
  BY <1>1 DEF Enclose
<1> HIDE DEF u, v
<1>3. Behind(a, Behind(u, y)) = Behind(Behind(a, u), y)
  BY <1>2, BehindBehind
<1>4. Behind(b, Behind(v, y)) = Behind(Behind(b, v), y)
  BY <1>2, BehindBehind
<1>5. Behind(a, u) \in Seq(X)
  BY <1>2, BehindTyped
<1>6. Behind(b, v) \in Seq(X)
  BY <1>2, BehindTyped
<1> DEFINE c == Behind(a, u)
           d == Behind(b, v)
<1>7. c \in Seq(X) /\ d \in Seq(X) /\ Behind(c, y) = Behind(d, y)
  BY <1>2, <1>3, <1>4, <1>5, <1>6
<1> HIDE DEF c, d
<1>8. c = d
  BY <1>7, BehindCancels
<1>9. c = Behind(Behind(a, x), p)
  BY BehindBehind DEF c, u
<1>10. d = Behind(Behind(b, z), q)
  BY BehindBehind DEF d, v
<1> QED  BY <1>8, <1>9, <1>10 DEF Alike

(* What renames the fields of each word renames the fields of all.         *)
Renames(h, f, g, R) == \A r \in R : Map(h, f[r]) = f[g[r]]

LEMMA RenameWords ==
  ASSUME NEW X, NEW R, NEW f, IsMap(f, R, Seq(X)), NEW g, IsMap(g, R, R),
         NEW h, IsMap(h, X, X), Renames(h, f, g, R), NEW s \in Seq(R)
  PROVE  Map(h, FlattenSeq(Map(f, s))) = FlattenSeq(Map(f, Map(g, s)))
<1>1. /\ Map(f, s) \in Seq(Seq(X)) /\ DOMAIN Map(f, s) = DOMAIN s
      /\ \A j \in 1 .. Len(s) : Map(f, s)[j] = f[s[j]]
  BY MapTyped
<1>2. Map(g, s) \in Seq(R) /\ DOMAIN Map(g, s) = DOMAIN s
      /\ \A j \in 1 .. Len(s) : Map(g, s)[j] = g[s[j]]
  BY MapTyped
<1>3. DOMAIN s = 1 .. Len(s) /\ \A j \in 1 .. Len(s) : s[j] \in R
  BY LenProperties
<1>4. MapEach(h, Map(f, s)) = Map(f, Map(g, s))
  <2>1. MapEach(h, Map(f, s)) = [j \in DOMAIN s |-> Map(h, Map(f, s)[j])]
    BY <1>1 DEF MapEach
  <2>2. Map(f, Map(g, s)) = [j \in DOMAIN s |-> f[Map(g, s)[j]]]
    BY <1>2 DEF Map
  <2>3. \A j \in DOMAIN s : Map(h, Map(f, s)[j]) = f[Map(g, s)[j]]
    BY <1>1, <1>2, <1>3 DEF Renames
  <2> QED  BY <2>1, <2>2, <2>3
<1>5. FlattenSeq(MapEach(h, Map(f, s))) = Map(h, FlattenSeq(Map(f, s)))
  BY <1>1, FlattenMap
<1> QED  BY <1>4, <1>5

-----------------------------------------------------------------------------
(* A value as a word of fields.                                            *)

(* The keys a value can stand under in a request.                          *)
Heads == Keys \cup {"arguments", "content"}

DataFields == Heads \X (Atoms \cup Marks)

ValueWord == [p \in Heads \X Values |-> ValueFields(p[1], p[2])]

Entries(v) ==
  LET keys == SortedKeys(v.dict) IN [k \in DOMAIN keys |-> <<keys[k], v.dict[keys[k]]>>]

LEMMA EntriesTyped ==
  ASSUME NEW values, values \subseteq Values, NEW v, IsObject(v, values)
  PROVE  Entries(v) \in Seq(Keys \X values)
<1> DEFINE keys == SortedKeys(v.dict)
<1>1. keys \in Seq(DOMAIN v.dict) /\ keys \in Seq(Keys)
  BY SortedKeysLists
<1> HIDE DEF keys
<1>2. /\ Len(keys) \in Nat /\ DOMAIN keys = 1 .. Len(keys)
      /\ \A k \in 1 .. Len(keys) : keys[k] \in DOMAIN v.dict /\ keys[k] \in Keys
  BY <1>1, LenProperties
<1>3. \A key \in DOMAIN v.dict : v.dict[key] \in values
  BY ObjectShape
<1>4. Entries(v) = [k \in 1 .. Len(keys) |-> <<keys[k], v.dict[keys[k]]>>]
  BY <1>2 DEF Entries, keys
<1> QED  BY <1>2, <1>3, <1>4

LEMMA WordsOfMembers ==
  ASSUME NEW v, IsObject(v, Values)
  PROVE  MemberWords(v, Members) = Map(ValueWord, Entries(v))
<1> DEFINE keys == SortedKeys(v.dict)
<1>1. keys \in Seq(DOMAIN v.dict) /\ keys \in Seq(Keys)
  BY SortedKeysLists
<1> HIDE DEF keys
<1>2. \A k \in DOMAIN keys : keys[k] \in DOMAIN v.dict /\ keys[k] \in Keys
  BY <1>1, LenProperties
<1>3. \A k \in DOMAIN keys : <<keys[k], v.dict[keys[k]]>> \in Heads \X Values
  BY <1>2, ObjectShape DEF Heads
<1>4. Entries(v) = [k \in DOMAIN keys |-> <<keys[k], v.dict[keys[k]]>>]
  BY DEF Entries, keys
<1>5. \A p \in Heads \X Values : ValueWord[p] = Enclosed(p[1], p[2], Members[p[2]])
  BY DEF ValueWord, ValueFields
<1>6. \A k \in DOMAIN keys :
        ValueWord[Entries(v)[k]] = Enclosed(keys[k], v.dict[keys[k]], Members[v.dict[keys[k]]])
  BY <1>3, <1>4, <1>5
<1>7. DOMAIN Entries(v) = DOMAIN keys
  BY <1>4
<1> QED  BY <1>6, <1>7 DEF MemberWords, Map, keys

LEMMA EntriesTell ==
  ASSUME NEW v, NEW w, IsObject(v, Values), IsObject(w, Values), Entries(v) = Entries(w)
  PROVE  v = w
<1> DEFINE keys == SortedKeys(v.dict)
           others == SortedKeys(w.dict)
<1>1. /\ DOMAIN keys = DOMAIN others
      /\ \A k \in DOMAIN keys : keys[k] = others[k] /\ v.dict[keys[k]] = w.dict[others[k]]
  <2>1. /\ DOMAIN Entries(v) = DOMAIN keys
        /\ \A k \in DOMAIN keys : Entries(v)[k] = <<keys[k], v.dict[keys[k]]>>
    BY DEF Entries
  <2>2. /\ DOMAIN Entries(w) = DOMAIN others
        /\ \A k \in DOMAIN others : Entries(w)[k] = <<others[k], w.dict[others[k]]>>
    BY DEF Entries
  <2> HIDE DEF keys, others
  <2>3. DOMAIN keys = DOMAIN others
    BY <2>1, <2>2
  <2>4. \A k \in DOMAIN keys : <<keys[k], v.dict[keys[k]]>> = <<others[k], w.dict[others[k]]>>
    BY <2>1, <2>2, <2>3
  <2> QED  BY <2>3, <2>4
<1>2. /\ keys \in Seq(DOMAIN v.dict) /\ \A key \in DOMAIN v.dict : Has(keys, key)
      /\ others \in Seq(DOMAIN w.dict) /\ \A key \in DOMAIN w.dict : Has(others, key)
  BY SortedKeysLists
<1> HIDE DEF keys, others
<1>3. /\ \A k \in DOMAIN keys : keys[k] \in DOMAIN v.dict
      /\ \A k \in DOMAIN others : others[k] \in DOMAIN w.dict
  BY <1>2, LenProperties
<1>4. DOMAIN v.dict = DOMAIN w.dict
  <2>1. ASSUME NEW key \in DOMAIN v.dict  PROVE key \in DOMAIN w.dict
    <3>1. PICK k \in DOMAIN keys : keys[k] = key
      BY <1>2 DEF Has
    <3> QED  BY <1>1, <1>3, <3>1
  <2>2. ASSUME NEW key \in DOMAIN w.dict  PROVE key \in DOMAIN v.dict
    <3>1. PICK k \in DOMAIN others : others[k] = key
      BY <1>2 DEF Has
    <3> QED  BY <1>1, <1>3, <3>1
  <2> QED  BY <2>1, <2>2
<1>5. \A key \in DOMAIN v.dict : v.dict[key] = w.dict[key]
  BY <1>1, <1>2 DEF Has
<1>6. v.dict = w.dict
  <2>1. v.dict \in [DOMAIN v.dict -> Values] /\ w.dict \in [DOMAIN w.dict -> Values]
    BY ObjectShape
  <2> QED  BY <1>4, <1>5, <2>1
<1> QED  BY <1>6, ObjectShape

Gives(h, X, Y) == \A x \in X : h[x] \in Y

LEMMA MapGives ==
  ASSUME NEW X, NEW Y, NEW h, Gives(h, X, Y), NEW w \in Seq(X)
  PROVE  Map(h, w) \in Seq(Y)
<1>1. Len(w) \in Nat /\ DOMAIN w = 1 .. Len(w) /\ \A j \in 1 .. Len(w) : w[j] \in X
  BY LenProperties
<1>2. Map(h, w) = [j \in 1 .. Len(w) |-> h[w[j]]]
  BY <1>1 DEF Map
<1>3. \A j \in 1 .. Len(w) : h[w[j]] \in Y
  BY <1>1 DEF Gives
<1> QED  BY <1>1, <1>2, <1>3

LEMMA AtomWord ==
  ASSUME NEW k \in Heads, NEW v \in Values, IsAtom(v)
  PROVE  ValueWord[<<k, v>>] = <<<<k, v.atom>>>>
<1>1. ValueWord[<<k, v>>] = Enclosed(k, v, Members[v])
  BY DEF ValueWord, ValueFields
<1> QED  BY <1>1, AtomShape DEF Enclosed

(* An object up to where it is closed.                                     *)
Opened(k, v) == After(<<<<k, "{">>>>, Map(ValueWord, Entries(v)))

LEMMA ObjectWord ==
  ASSUME NEW k \in Heads, NEW v \in Values, IsObject(v, Values)
  PROVE  ValueWord[<<k, v>>] = Opened(k, v) \o <<<<k, "}">>>>
<1>1. ValueWord[<<k, v>>] = Enclosed(k, v, Members[v])
  BY DEF ValueWord, ValueFields
<1>2. IsDict(v)
  BY ObjectShape
<1>3. Members[v] = FlattenSeq(Map(ValueWord, Entries(v)))
  <2>1. Members[v] = FlattenSeq(MemberWords(v, Members))
    BY <1>2, MembersIs DEF MembersBy
  <2> QED  BY <2>1, WordsOfMembers
<1> QED  BY <1>1, <1>2, <1>3 DEF Enclosed, Opened, After

LEMMA OneField ==
  ASSUME NEW X, NEW x \in X
  PROVE  <<x>> \in Seq(X) /\ <<x>> # <<>> /\ Len(<<x>>) = 1 /\ <<x>>[1] = x
OBVIOUS

LEMMA OpenedTyped ==
  ASSUME NEW k \in Heads, NEW v \in Values, NEW values, values \subseteq Values,
         IsObject(v, values), Gives(ValueWord, Keys \X values, Seq(DataFields))
  PROVE  /\ <<<<k, "{">>>> \in Seq(DataFields)
         /\ Map(ValueWord, Entries(v)) \in Seq(Seq(DataFields))
         /\ Opened(k, v) \in Seq(DataFields)
<1> DEFINE x == <<k, "{">>
           w == Map(ValueWord, Entries(v))
<1>1. x \in DataFields
  BY DEF DataFields, Marks
<1>2. <<x>> \in Seq(DataFields)
  <2> HIDE DEF x
  <2> QED  BY <1>1, OneField
<1>3. w \in Seq(Seq(DataFields))
  BY EntriesTyped, MapGives
<1>4. FlattenSeq(w) \in Seq(DataFields)
  <2> HIDE DEF w
  <2> QED  BY <1>3, FlattenTyped
<1>5. Opened(k, v) = <<x>> \o FlattenSeq(w)
  BY DEF Opened, After
<1> HIDE DEF x, w
<1>6. <<x>> \o FlattenSeq(w) \in Seq(DataFields)
  BY <1>2, <1>4, ConcatProperties
<1> QED  BY <1>2, <1>3, <1>5, <1>6 DEF x, w

LEMMA ValueWordGives == Gives(ValueWord, Heads \X Values, Seq(DataFields))
<1> DEFINE S == {v \in Values : \A k \in Heads : ValueWord[<<k, v>>] \in Seq(DataFields)}
<1>1. ASSUME NEW v \in Values, IsAtom(v)
      PROVE  v \in S
  <2> SUFFICES ASSUME NEW k \in Heads  PROVE ValueWord[<<k, v>>] \in Seq(DataFields)
    OBVIOUS
  <2>1. ValueWord[<<k, v>>] = <<<<k, v.atom>>>>
    BY <1>1, AtomWord
  <2>2. <<k, v.atom>> \in DataFields
    BY <1>1, AtomShape DEF DataFields
  <2> QED  BY <2>1, <2>2
<1>2. ASSUME NEW v \in Values, NEW values \in SUBSET (S \cap Values), IsObject(v, values)
      PROVE  v \in S
  <2> SUFFICES ASSUME NEW k \in Heads  PROVE ValueWord[<<k, v>>] \in Seq(DataFields)
    OBVIOUS
  <2>1. values \subseteq Values /\ \A u \in values : u \in S
    OBVIOUS
  <2>2. Gives(ValueWord, Keys \X values, Seq(DataFields))
    <3>1. \A p \in Keys \X values : p = <<p[1], p[2]>> /\ p[1] \in Heads /\ p[2] \in S
      BY <2>1 DEF Heads
    <3> QED  BY <3>1 DEF Gives
  <2>3. IsObject(v, Values)
    BY <1>2, <2>1, ObjectsWiden
  <2> HIDE DEF S
  <2>4. Opened(k, v) \in Seq(DataFields)
    BY <1>2, <2>1, <2>2, OpenedTyped
  <2> DEFINE x == <<k, "}">>
  <2>5. x \in DataFields
    BY DEF DataFields, Marks
  <2>6. ValueWord[<<k, v>>] = Opened(k, v) \o <<x>>
    BY <2>3, ObjectWord
  <2> HIDE DEF x
  <2>7. <<x>> \in Seq(DataFields)
    BY <2>5, OneField
  <2> QED  BY <2>4, <2>6, <2>7, ConcatProperties
<1>3. Values \subseteq S
  <2> HIDE DEF S
  <2> QED  BY <1>1, <1>2, ByNesting
<1>4. \A p \in Heads \X Values : p = <<p[1], p[2]>> /\ p[1] \in Heads /\ p[2] \in S
  <2>1. \A p \in Heads \X Values : p = <<p[1], p[2]>> /\ p[1] \in Heads /\ p[2] \in Values
    OBVIOUS
  <2> HIDE DEF S
  <2> QED  BY <1>3, <2>1
<1> QED  BY <1>4 DEF Gives

LEMMA ValueWordTyped == IsMap(ValueWord, Heads \X Values, Seq(DataFields))
<1>1. ValueWord = [p \in Heads \X Values |-> ValueWord[p]]
  BY DEF ValueWord
<1> QED  BY <1>1, ValueWordGives DEF IsMap, Gives

-----------------------------------------------------------------------------
(* The fields of requests.                                                 *)

Ids == ToSet(CallIds)

FieldKeys ==
  Heads \cup {"id", "name", "malformed_arguments", "call_id", "is_error", "role"}

FieldValues ==
  Atoms \cup Marks \cup Ids \cup Tools \cup Malformed \cup {"ok", "error"}
    \cup {"user", "assistant", "tool"}

AllFields == FieldKeys \X FieldValues

LEMMA DataWords == Seq(DataFields) \subseteq Seq(AllFields)
<1>1. DataFields \subseteq AllFields
  BY DEF DataFields, AllFields, FieldKeys, FieldValues
<1> QED  BY <1>1, SeqMonotonic

LEMMA ValueWordFields == IsMap(ValueWord, Heads \X Values, Seq(AllFields))
BY ValueWordTyped, DataWords DEF IsMap

(* The last field of a value.                                              *)
Closing(k, v) == IF IsDict(v) THEN <<k, "}">> ELSE <<k, v.atom>>

ValueEnds == Heads \X (Atoms \cup {"}"})

LEMMA ValueLast ==
  ASSUME NEW k \in Heads, NEW v \in Values
  PROVE  /\ ValueWord[<<k, v>>] \in Seq(AllFields) /\ ValueWord[<<k, v>>] # <<>>
         /\ ValueWord[<<k, v>>][Len(ValueWord[<<k, v>>])] = Closing(k, v)
         /\ Closing(k, v) \in ValueEnds
<1> DEFINE w == ValueWord[<<k, v>>]
<1>1. w \in Seq(AllFields)
  BY ValueWordFields DEF IsMap
<1>2. CASE IsAtom(v)
  <2>1. w = <<<<k, v.atom>>>> /\ Closing(k, v) = <<k, v.atom>> /\ v.atom \in Atoms
    BY <1>2, AtomWord, AtomShape DEF Closing
  <2> DEFINE x == <<k, v.atom>>
  <2>2. x \in ValueEnds
    BY <2>1 DEF ValueEnds
  <2>3. w = <<x>> /\ Closing(k, v) = x
    BY <2>1
  <2> HIDE DEF x, w
  <2>4. w # <<>> /\ w[Len(w)] = Closing(k, v) /\ Closing(k, v) \in ValueEnds
    BY <2>2, <2>3, OneField
  <2> QED  BY <1>1, <2>4 DEF w
<1>3. CASE IsObject(v, Values)
  <2> DEFINE x == <<k, "}">>
             o == Opened(k, v)
  <2>1. w = o \o <<x>> /\ Closing(k, v) = x
    BY <1>3, ObjectWord, ObjectShape DEF Closing
  <2>2. x \in DataFields /\ x \in ValueEnds
    BY DEF DataFields, Marks, ValueEnds
  <2>3. o \in Seq(DataFields)
    <3>1. Gives(ValueWord, Keys \X Values, Seq(DataFields))
      BY ValueWordGives DEF Gives, Heads
    <3> QED  BY <1>3, <3>1, OpenedTyped
  <2> HIDE DEF x, o, w
  <2>4. <<x>> \in Seq(DataFields) /\ <<x>> # <<>> /\ Len(<<x>>) = 1 /\ <<x>>[1] = x
    BY <2>2, OneField
  <2>5. w # <<>> /\ w[Len(w)] = <<x>>[Len(<<x>>)]
    BY <2>1, <2>3, <2>4, ConcatLast
  <2>6. w # <<>> /\ w[Len(w)] = Closing(k, v) /\ Closing(k, v) \in ValueEnds
    BY <2>1, <2>2, <2>4, <2>5
  <2> QED  BY <1>1, <2>6 DEF w
<1>4. IsAtom(v) \/ IsObject(v, Values)
  BY ValueShapes
<1> QED  BY <1>2, <1>3, <1>4

LEMMA ValueWordEnds == Ends(ValueWord, Heads \X Values, ValueEnds)
<1> SUFFICES ASSUME NEW p \in Heads \X Values
             PROVE  ValueWord[p] # <<>> /\ ValueWord[p][Len(ValueWord[p])] \in ValueEnds
  BY DEF Ends
<1>1. PICK k \in Heads, v \in Values : p = <<k, v>>
  OBVIOUS
<1> QED  BY <1>1, ValueLast

LEMMA ValueBehind ==
  ASSUME NEW k \in Heads, NEW v \in Values, NEW a \in Seq(AllFields)
  PROVE  LastOf(Behind(a, ValueWord[<<k, v>>])) = Closing(k, v)
<1> DEFINE u == ValueWord[<<k, v>>]
<1>1. u \in Seq(AllFields) /\ u # <<>> /\ u[Len(u)] = Closing(k, v)
  BY ValueLast
<1> HIDE DEF u
<1>2. LastOf(Behind(a, u)) = Closing(k, v)
  BY <1>1, BehindLast DEF LastOf
<1> QED  BY <1>2 DEF u

LEMMA ClosingTells ==
  ASSUME NEW k \in Heads, NEW v \in Values, NEW l \in Heads, NEW w \in Values,
         Closing(k, v) = Closing(l, w)
  PROVE  /\ k = l
         /\ IsAtom(v) => v = w
         /\ IsObject(v, Values) => IsObject(w, Values)
<1>1. Atoms \cap Marks = {}
  BY TranscriptAssumption
<1>2. "}" \notin Atoms
  BY <1>1 DEF Marks
<1>3. k = l
  BY DEF Closing
<1>4. ASSUME IsAtom(v)  PROVE v = w
  <2>1. ~IsDict(v) /\ v.atom \in Atoms /\ v = [atom |-> v.atom]
    BY <1>4, AtomShape
  <2>2. ~IsDict(w) /\ v.atom = w.atom
    BY <1>2, <2>1 DEF Closing
  <2>3. IsAtom(w)
    BY <2>2, ValueShapes, ObjectShape
  <2> QED  BY <2>1, <2>2, <2>3, AtomShape
<1>5. ASSUME IsObject(v, Values), ~IsObject(w, Values)  PROVE FALSE
  <2>1. IsAtom(w)
    BY <1>5, ValueShapes
  <2>2. ~IsDict(w) /\ w.atom \in Atoms
    BY <2>1, AtomShape
  <2>3. IsDict(v)
    BY <1>5, ObjectShape
  <2> QED  BY <1>2, <2>2, <2>3 DEF Closing
<1> QED  BY <1>3, <1>4, <1>5

(* Whatever is before it, the fields of a value say which value it is.     *)
LegibleValue(v) ==
  \A k \in Heads, l \in Heads, w \in Values, a, b \in Seq(AllFields) :
    Behind(a, ValueWord[<<k, v>>]) = Behind(b, ValueWord[<<l, w>>]) => k = l /\ v = w

LEMMA LegibleObject ==
  ASSUME NEW values, values \subseteq Values, \A u \in values : LegibleValue(u),
         NEW v \in Values, IsObject(v, values)
  PROVE  LegibleValue(v)
<1> SUFFICES ASSUME NEW k \in Heads, NEW l \in Heads, NEW w \in Values,
                    NEW a \in Seq(AllFields), NEW b \in Seq(AllFields),
                    Behind(a, ValueWord[<<k, v>>]) = Behind(b, ValueWord[<<l, w>>])
             PROVE  k = l /\ v = w
  BY DEF LegibleValue
<1>1. IsObject(v, Values)
  BY ObjectsWiden
<1>2. k = l /\ IsObject(w, Values)
  <2>1. Closing(k, v) = Closing(l, w)
    BY ValueBehind
  <2> QED  BY <1>1, <2>1, ClosingTells
<1> DEFINE x == <<<<k, "{">>>>
           y == <<<<k, "}">>>>
           s == Entries(v)
           t == Entries(w)
           f == Map(ValueWord, s)
           g == Map(ValueWord, t)
           R == Keys \X values
           Q == Heads \X Values
<1>3. <<k, "{">> \in AllFields /\ <<k, "}">> \in AllFields
  BY DEF AllFields, FieldKeys, FieldValues, Marks
<1>4. x \in Seq(AllFields) /\ y \in Seq(AllFields) /\ x # <<>> /\ x[Len(x)] = <<k, "{">>
  BY <1>3, OneField
<1>5. s \in Seq(R) /\ t \in Seq(Q) /\ R \subseteq Q
  <2>1. Entries(w) \in Seq(Keys \X Values)
    BY <1>2, EntriesTyped
  <2>2. Keys \X Values \subseteq Q /\ R \subseteq Q
    BY DEF Heads
  <2> QED  BY <2>1, <2>2, EntriesTyped, SeqMonotonic
<1>6. ValueWord[<<k, v>>] = Behind(Behind(x, FlattenSeq(f)), y) /\ ValueWord[<<k, w>>] = Behind(Behind(x, FlattenSeq(g)), y)
  BY <1>1, <1>2, ObjectWord DEF Opened, After, Behind
<1>7. f \in Seq(Seq(AllFields)) /\ g \in Seq(Seq(AllFields))
  <2>0. Gives(ValueWord, R, Seq(AllFields)) /\ Gives(ValueWord, Q, Seq(AllFields))
    BY <1>5, ValueWordGives, DataWords DEF Gives
  <2> HIDE DEF R, Q, s, t
  <2> QED  BY <1>5, <2>0, MapGives
<1>8. Legible(ValueWord, R, Q, AllFields)
  <2> SUFFICES ASSUME NEW r \in R, NEW q \in Q, NEW c \in Seq(AllFields), NEW d \in Seq(AllFields),
                      Behind(c, ValueWord[r]) = Behind(d, ValueWord[q])
               PROVE  r = q
    BY DEF Legible
  <2>1. PICK k1 \in Heads, v1 \in values : r = <<k1, v1>>
    BY DEF Heads
  <2>2. PICK l1 \in Heads, w1 \in Values : q = <<l1, w1>>
    OBVIOUS
  <2>3. k1 = l1 /\ v1 = w1
    BY <2>1, <2>2 DEF LegibleValue
  <2> QED  BY <2>1, <2>2, <2>3
<1> HIDE DEF x, y, f, g, s, t, R, Q
<1>9. FlattenSeq(f) \in Seq(AllFields) /\ FlattenSeq(g) \in Seq(AllFields)
  BY <1>7, FlattenTyped
<1> DEFINE a1 == Behind(a, x)
           b1 == Behind(b, x)
<1>10. After(a1, f) = After(b1, g)
  <2> DEFINE p == FlattenSeq(f)
             q == FlattenSeq(g)
  <2>0. p \in Seq(AllFields) /\ q \in Seq(AllFields)
    BY <1>9
  <2>1. Behind(a, Behind(Behind(x, p), y)) = Behind(b, Behind(Behind(x, q), y))
    BY <1>2, <1>6
  <2> HIDE DEF p, q
  <2>3. Enclose(a, x, p, b, x, q, y)
    BY <2>1 DEF Enclose
  <2>2. Alike(Behind(a, x), p, Behind(b, x), q)
    BY <1>4, <2>0, <2>3, Enclosing
  <2> QED  BY <2>2 DEF After, Behind, p, q, Alike
<1>11. /\ a1 \in Seq(AllFields) /\ Closed(a1, ValueEnds)
       /\ b1 \in Seq(AllFields) /\ Closed(b1, ValueEnds)
  <2>1. "{" \notin Atoms
    BY TranscriptAssumption DEF Marks
  <2>2. <<k, "{">> \notin ValueEnds
    BY <2>1 DEF ValueEnds
  <2>3. a1 \in Seq(AllFields) /\ b1 \in Seq(AllFields)
    BY <1>4, BehindTyped
  <2>4. LastOf(a1) = <<k, "{">> /\ LastOf(b1) = <<k, "{">>
    BY <1>4, BehindLast DEF LastOf
  <2> HIDE DEF a1, b1
  <2> QED  BY <2>2, <2>3, <2>4 DEF Closed, LastOf
<1> HIDE DEF a1, b1
<1>12. s = t
  <2>1. IsMap(ValueWord, Q, Seq(AllFields)) /\ Ends(ValueWord, Q, ValueEnds)
    BY ValueWordFields, ValueWordEnds DEF Q
  <2>2. ReadAlike(a1, b1, ValueWord, s, t)
    BY <1>10 DEF f, g, ReadAlike
  <2> QED  BY <1>5, <1>8, <1>11, <2>1, <2>2, ReadMap
<1> QED  BY <1>1, <1>2, <1>12, EntriesTell DEF s, t

LEMMA ValuesLegible == Legible(ValueWord, Heads \X Values, Heads \X Values, AllFields)
<1> DEFINE S == {v \in Values : LegibleValue(v)}
<1>1. ASSUME NEW v \in Values, IsAtom(v)
      PROVE  v \in S
  <2> SUFFICES ASSUME NEW k \in Heads, NEW l \in Heads, NEW w \in Values,
                      NEW a \in Seq(AllFields), NEW b \in Seq(AllFields),
                      Behind(a, ValueWord[<<k, v>>]) = Behind(b, ValueWord[<<l, w>>])
               PROVE  k = l /\ v = w
    BY DEF LegibleValue
  <2>1. Closing(k, v) = Closing(l, w)
    BY ValueBehind
  <2> QED  BY <1>1, <2>1, ClosingTells
<1>2. \A v \in Values, values \in SUBSET (S \cap Values) : IsObject(v, values) => v \in S
  <2> SUFFICES ASSUME NEW v \in Values, NEW values \in SUBSET (S \cap Values), IsObject(v, values)
               PROVE  LegibleValue(v)
    OBVIOUS
  <2>1. values \subseteq Values /\ \A u \in values : LegibleValue(u)
    OBVIOUS
  <2> QED  BY <2>1, LegibleObject
<1>3. Values \subseteq S
  <2> HIDE DEF S
  <2> QED  BY <1>1, <1>2, ByNesting
<1>4. \A v \in Values : LegibleValue(v)
  BY <1>3
<1> SUFFICES ASSUME NEW r \in Heads \X Values, NEW q \in Heads \X Values,
                    NEW c \in Seq(AllFields), NEW d \in Seq(AllFields),
                    Behind(c, ValueWord[r]) = Behind(d, ValueWord[q])
             PROVE  r = q
  BY DEF Legible
<1>5. PICK k1 \in Heads, v1 \in Values : r = <<k1, v1>>
  OBVIOUS
<1>6. PICK l1 \in Heads, w1 \in Values : q = <<l1, w1>>
  OBVIOUS
<1>7. k1 = l1 /\ v1 = w1
  BY <1>4, <1>5, <1>6 DEF LegibleValue
<1> QED  BY <1>5, <1>6, <1>7

-----------------------------------------------------------------------------
(* The fields of a call, of a result, of a message and of a conversation.  *)

CallRecords == [id : Ids, name : Tools, args : Values, malformed : Malformed]

ResultRecords == [id : Ids, content : Values, isError : {"ok", "error"}]

MessageRecords ==
  [role : {"user", "assistant", "tool"}, calls : Seq(CallRecords), results : Seq(ResultRecords)]

CallWord == [c \in CallRecords |-> CallFields(c)]

ResultWord == [r \in ResultRecords |-> ResultFields(r)]

MessageWord == [m \in MessageRecords |-> MessageFields(m)]

LEMMA OneFieldBack ==
  ASSUME NEW X, NEW a \in Seq(X), NEW b \in Seq(X), NEW x \in X, NEW y \in X,
         Alike(a, <<x>>, b, <<y>>)
  PROVE  a = b /\ x = y
<1> DEFINE u == <<x>>
           v == <<y>>
<1>1. /\ u \in Seq(X) /\ u # <<>> /\ LastOf(u) = x
      /\ v \in Seq(X) /\ v # <<>> /\ LastOf(v) = y
  BY OneField DEF LastOf
<1>2. Behind(a, u) = Behind(b, v)
  BY DEF Alike
<1>3. u = v <=> x = y
  OBVIOUS
<1> HIDE DEF u, v
<1>4. LastOf(Behind(a, u)) = x
  BY <1>1, BehindLast
<1>5. LastOf(Behind(b, v)) = y
  BY <1>1, BehindLast
<1>6. x = y /\ u = v
  BY <1>2, <1>3, <1>4, <1>5
<1> QED  BY <1>1, <1>2, <1>6, BehindCancels

LEMMA TwoFieldsBack ==
  ASSUME NEW X, NEW a \in Seq(X), NEW b \in Seq(X),
         NEW x \in X, NEW y \in X, NEW z \in X, NEW w \in X,
         Alike(a, <<x, y>>, b, <<z, w>>)
  PROVE  a = b /\ x = z /\ y = w
<1>1. ASSUME NEW c \in Seq(X), NEW p \in X, NEW q \in X
      PROVE  /\ Behind(c, <<p, q>>) = Behind(Behind(c, <<p>>), <<q>>)
             /\ Behind(c, <<p>>) \in Seq(X)
  <2> DEFINE u == <<p>>
             v == <<q>>
  <2>0. <<p>> \o <<q>> = <<p, q>>
    <3>1. <<p, q>> = Append(<<p>>, q) /\ <<p>> \in Seq(X)
      OBVIOUS
    <3> QED  BY <3>1, AppendIsConcat
  <2>1. <<p, q>> = Behind(u, v) /\ u \in Seq(X) /\ v \in Seq(X)
    BY <2>0, OneField DEF Behind
  <2> HIDE DEF u, v
  <2>2. Behind(c, Behind(u, v)) = Behind(Behind(c, u), v)
    BY <2>1, BehindBehind
  <2>3. Behind(c, u) \in Seq(X)
    BY <2>1, BehindTyped
  <2> QED  BY <2>1, <2>2, <2>3 DEF u, v
<1>2. Alike(Behind(a, <<x>>), <<y>>, Behind(b, <<z>>), <<w>>)
  BY <1>1 DEF Alike
<1>3. Behind(a, <<x>>) = Behind(b, <<z>>) /\ y = w
  <2>1. Behind(a, <<x>>) \in Seq(X)
    BY <1>1
  <2>2. Behind(b, <<z>>) \in Seq(X)
    BY <1>1
  <2> QED  BY <1>2, <2>1, <2>2, OneFieldBack
<1>4. Alike(a, <<x>>, b, <<z>>)
  BY <1>3 DEF Alike
<1> QED  BY <1>3, <1>4, OneFieldBack

(* A value between what identifies it and what is said of it.              *)
Sheathed(x, k, v, d) == Behind(Behind(x, ValueWord[<<k, v>>]), <<d>>)

LEMMA SheathedTyped ==
  ASSUME NEW x \in Seq(AllFields), NEW k \in Heads, NEW v \in Values, NEW d \in AllFields
  PROVE  /\ Sheathed(x, k, v, d) \in Seq(AllFields)
         /\ Sheathed(x, k, v, d) # <<>> /\ LastOf(Sheathed(x, k, v, d)) = d
<1> DEFINE u == ValueWord[<<k, v>>]
           y == <<d>>
<1>1. u \in Seq(AllFields)
  BY ValueLast
<1>2. y \in Seq(AllFields) /\ y # <<>> /\ LastOf(y) = d
  BY OneField DEF LastOf
<1> HIDE DEF u, y
<1>3. Behind(x, u) \in Seq(AllFields)
  BY <1>1, BehindTyped
<1> DEFINE c == Behind(x, u)
<1>4. c \in Seq(AllFields)
  BY <1>3
<1> HIDE DEF c
<1>5. Behind(c, y) \in Seq(AllFields)
  BY <1>2, <1>4, BehindTyped
<1>6. Behind(c, y) # <<>> /\ LastOf(Behind(c, y)) = d
  BY <1>2, <1>4, BehindLast
<1> QED  BY <1>5, <1>6 DEF c, u, y, Sheathed

LEMMA SheathedBack ==
  ASSUME NEW a \in Seq(AllFields), NEW b \in Seq(AllFields),
         NEW x \in Seq(AllFields), NEW z \in Seq(AllFields), NEW k \in Heads,
         NEW v \in Values, NEW w \in Values, NEW d \in AllFields, NEW e \in AllFields,
         Alike(a, Sheathed(x, k, v, d), b, Sheathed(z, k, w, e))
  PROVE  Alike(a, x, b, z) /\ v = w /\ d = e
<1> DEFINE f == Sheathed(x, k, v, d)
           g == Sheathed(z, k, w, e)
           p == ValueWord[<<k, v>>]
           q == ValueWord[<<k, w>>]
           y == <<d>>
<1>1. /\ f \in Seq(AllFields) /\ f # <<>> /\ LastOf(f) = d
      /\ g \in Seq(AllFields) /\ g # <<>> /\ LastOf(g) = e
  BY SheathedTyped
<1>2. d = e
  <2>1. Behind(a, f) = Behind(b, g)
    BY DEF Alike
  <2> HIDE DEF f, g
  <2>2. LastOf(Behind(a, f)) = d
    BY <1>1, BehindLast
  <2>3. LastOf(Behind(b, g)) = e
    BY <1>1, BehindLast
  <2> QED  BY <2>1, <2>2, <2>3
<1>3. Enclose(a, x, p, b, z, q, y)
  BY <1>2 DEF Enclose, Alike, Sheathed
<1>4. p \in Seq(AllFields) /\ q \in Seq(AllFields) /\ y \in Seq(AllFields)
  BY ValueLast, OneField
<1> HIDE DEF f, g, y
<1>5. Alike(Behind(a, x), p, Behind(b, z), q)
  <2> HIDE DEF p, q
  <2> QED  BY <1>3, <1>4, Enclosing
<1>6. Behind(a, x) \in Seq(AllFields) /\ Behind(b, z) \in Seq(AllFields)
  BY BehindTyped
<1>7. v = w
  <2>1. <<k, v>> \in Heads \X Values /\ <<k, w>> \in Heads \X Values
    OBVIOUS
  <2>2. <<k, v>> = <<k, w>>
    BY <1>5, <1>6, <2>1, ValuesLegible DEF Legible, Alike
  <2> QED  BY <2>2
<1>8. Behind(a, x) = Behind(b, z)
  <2>1. Behind(Behind(a, x), p) = Behind(Behind(b, z), p)
    BY <1>5, <1>7 DEF Alike
  <2> HIDE DEF p, q
  <2> QED  BY <1>4, <1>6, <2>1, BehindCancels
<1> QED  BY <1>2, <1>7, <1>8 DEF Alike

CallHead(c) == <<<<"id", c.id>>, <<"name", c.name>>>>

CallTail(c) == <<"malformed_arguments", c.malformed>>

LEMMA CallShape ==
  ASSUME NEW c \in CallRecords
  PROVE  /\ c.id \in Ids /\ c.name \in Tools /\ c.args \in Values /\ c.malformed \in Malformed
         /\ c = [id |-> c.id, name |-> c.name, args |-> c.args, malformed |-> c.malformed]
         /\ "arguments" \in Heads /\ CallTail(c) \in AllFields
         /\ <<"id", c.id>> \in AllFields /\ <<"name", c.name>> \in AllFields
         /\ CallHead(c) \in Seq(AllFields)
         /\ CallWord[c] = Sheathed(CallHead(c), "arguments", c.args, CallTail(c))
<1>1. /\ c.id \in Ids /\ c.name \in Tools /\ c.args \in Values /\ c.malformed \in Malformed
      /\ c = [id |-> c.id, name |-> c.name, args |-> c.args, malformed |-> c.malformed]
  BY DEF CallRecords
<1>2. /\ "arguments" \in Heads /\ CallTail(c) \in AllFields
      /\ <<"id", c.id>> \in AllFields /\ <<"name", c.name>> \in AllFields
  BY <1>1 DEF Heads, AllFields, FieldKeys, FieldValues, CallTail
<1>3. CallHead(c) \in Seq(AllFields)
  BY <1>2 DEF CallHead
<1>4. CallWord[c] = CallFields(c)
  BY DEF CallWord
<1>5. CallFields(c) = Sheathed(CallHead(c), "arguments", c.args, CallTail(c))
  <2>1. ValueWord[<<"arguments", c.args>>] = ValueFields("arguments", c.args)
    BY <1>1, <1>2 DEF ValueWord
  <2> QED  BY <2>1 DEF CallFields, Sheathed, CallHead, CallTail, Behind
<1> QED  BY <1>1, <1>2, <1>3, <1>4, <1>5

ResultHead(r) == <<<<"call_id", r.id>>>>

ResultTail(r) == <<"is_error", r.isError>>

LEMMA ResultShape ==
  ASSUME NEW r \in ResultRecords
  PROVE  /\ r.id \in Ids /\ r.content \in Values /\ r.isError \in {"ok", "error"}
         /\ r = [id |-> r.id, content |-> r.content, isError |-> r.isError]
         /\ "content" \in Heads /\ ResultTail(r) \in AllFields
         /\ <<"call_id", r.id>> \in AllFields
         /\ ResultHead(r) \in Seq(AllFields)
         /\ ResultWord[r] = Sheathed(ResultHead(r), "content", r.content, ResultTail(r))
<1>1. /\ r.id \in Ids /\ r.content \in Values /\ r.isError \in {"ok", "error"}
      /\ r = [id |-> r.id, content |-> r.content, isError |-> r.isError]
  BY DEF ResultRecords
<1>2. "content" \in Heads /\ ResultTail(r) \in AllFields /\ <<"call_id", r.id>> \in AllFields
  BY <1>1 DEF Heads, AllFields, FieldKeys, FieldValues, ResultTail
<1>3. ResultHead(r) \in Seq(AllFields)
  BY <1>2, OneField DEF ResultHead
<1>4. ResultWord[r] = ResultFields(r)
  BY DEF ResultWord
<1>5. ResultFields(r) = Sheathed(ResultHead(r), "content", r.content, ResultTail(r))
  <2>1. ValueWord[<<"content", r.content>>] = ValueFields("content", r.content)
    BY <1>1, <1>2 DEF ValueWord
  <2> QED  BY <2>1 DEF ResultFields, Sheathed, ResultHead, ResultTail, Behind
<1> QED  BY <1>1, <1>2, <1>3, <1>4, <1>5

(* The fields that end a call, and those that end a result.                *)
CallEnds == {"malformed_arguments"} \X FieldValues

ResultEnds == {"is_error"} \X FieldValues

LEMMA CallWords ==
  /\ IsMap(CallWord, CallRecords, Seq(AllFields)) /\ Ends(CallWord, CallRecords, CallEnds)
  /\ Legible(CallWord, CallRecords, CallRecords, AllFields)
<1>1. ASSUME NEW c \in CallRecords
      PROVE  CallWord[c] \in Seq(AllFields) /\ CallWord[c] # <<>> /\ LastOf(CallWord[c]) \in CallEnds
  <2>1. CallTail(c) \in CallEnds
    BY CallShape DEF CallEnds, CallTail, FieldValues
  <2> DEFINE x == CallHead(c)
             y == CallTail(c)
             k == "arguments"
             v == c.args
  <2>2. /\ x \in Seq(AllFields) /\ y \in AllFields /\ k \in Heads /\ v \in Values
        /\ CallWord[c] = Sheathed(x, k, v, y) /\ y \in CallEnds
    BY <2>1, CallShape
  <2> HIDE DEF x, y, k, v
  <2>3. /\ Sheathed(x, k, v, y) \in Seq(AllFields) /\ Sheathed(x, k, v, y) # <<>>
        /\ LastOf(Sheathed(x, k, v, y)) = y
    BY <2>2, SheathedTyped
  <2> QED  BY <2>2, <2>3
<1>2. IsMap(CallWord, CallRecords, Seq(AllFields))
  <2>1. CallWord = [c \in CallRecords |-> CallWord[c]]
    BY DEF CallWord
  <2> QED  BY <1>1, <2>1 DEF IsMap
<1>3. Ends(CallWord, CallRecords, CallEnds)
  BY <1>1 DEF Ends, LastOf
<1>4. ASSUME NEW c \in CallRecords, NEW d \in CallRecords,
             NEW a \in Seq(AllFields), NEW b \in Seq(AllFields),
             Behind(a, CallWord[c]) = Behind(b, CallWord[d])
      PROVE  c = d
  <2>1. Alike(a, Sheathed(CallHead(c), "arguments", c.args, CallTail(c)),
              b, Sheathed(CallHead(d), "arguments", d.args, CallTail(d)))
    BY <1>4, CallShape DEF Alike
  <2>2. Alike(a, CallHead(c), b, CallHead(d)) /\ c.args = d.args /\ CallTail(c) = CallTail(d)
    <3> DEFINE x == CallHead(c)
               y == CallTail(c)
               z == CallHead(d)
               w == CallTail(d)
               k == "arguments"
               u == c.args
               v == d.args
    <3>1. /\ x \in Seq(AllFields) /\ y \in AllFields /\ k \in Heads /\ u \in Values
          /\ z \in Seq(AllFields) /\ w \in AllFields /\ v \in Values
      BY CallShape
    <3>2. Alike(a, Sheathed(x, k, u, y), b, Sheathed(z, k, v, w))
      BY <2>1
    <3> HIDE DEF x, y, z, w, k, u, v
    <3>3. Alike(a, x, b, z) /\ u = v /\ y = w
      BY <3>1, <3>2, SheathedBack
    <3> QED  BY <3>3 DEF x, y, z, w, u, v
  <2>3. <<"id", c.id>> = <<"id", d.id>> /\ <<"name", c.name>> = <<"name", d.name>>
    <3>1. Alike(a, <<<<"id", c.id>>, <<"name", c.name>>>>, b, <<<<"id", d.id>>, <<"name", d.name>>>>)
      BY <2>2 DEF CallHead
    <3> QED  BY <3>1, CallShape, TwoFieldsBack
  <2>4. c.id = d.id /\ c.name = d.name /\ c.malformed = d.malformed
    BY <2>2, <2>3 DEF CallTail
  <2> QED  BY <2>2, <2>4, CallShape
<1> QED  BY <1>2, <1>3, <1>4 DEF Legible

LEMMA ResultWords ==
  /\ IsMap(ResultWord, ResultRecords, Seq(AllFields))
  /\ Ends(ResultWord, ResultRecords, ResultEnds)
  /\ Legible(ResultWord, ResultRecords, ResultRecords, AllFields)
<1>1. ASSUME NEW r \in ResultRecords
      PROVE  ResultWord[r] \in Seq(AllFields) /\ ResultWord[r] # <<>> /\ LastOf(ResultWord[r]) \in ResultEnds
  <2>1. ResultTail(r) \in ResultEnds
    BY ResultShape DEF ResultEnds, ResultTail, FieldValues
  <2> DEFINE x == ResultHead(r)
             y == ResultTail(r)
             k == "content"
             v == r.content
  <2>2. /\ x \in Seq(AllFields) /\ y \in AllFields /\ k \in Heads /\ v \in Values
        /\ ResultWord[r] = Sheathed(x, k, v, y) /\ y \in ResultEnds
    BY <2>1, ResultShape
  <2> HIDE DEF x, y, k, v
  <2>3. /\ Sheathed(x, k, v, y) \in Seq(AllFields) /\ Sheathed(x, k, v, y) # <<>>
        /\ LastOf(Sheathed(x, k, v, y)) = y
    BY <2>2, SheathedTyped
  <2> QED  BY <2>2, <2>3
<1>2. IsMap(ResultWord, ResultRecords, Seq(AllFields))
  <2>1. ResultWord = [r \in ResultRecords |-> ResultWord[r]]
    BY DEF ResultWord
  <2> QED  BY <1>1, <2>1 DEF IsMap
<1>3. Ends(ResultWord, ResultRecords, ResultEnds)
  BY <1>1 DEF Ends, LastOf
<1>4. ASSUME NEW r \in ResultRecords, NEW q \in ResultRecords,
             NEW a \in Seq(AllFields), NEW b \in Seq(AllFields),
             Behind(a, ResultWord[r]) = Behind(b, ResultWord[q])
      PROVE  r = q
  <2>1. Alike(a, Sheathed(ResultHead(r), "content", r.content, ResultTail(r)),
              b, Sheathed(ResultHead(q), "content", q.content, ResultTail(q)))
    BY <1>4, ResultShape DEF Alike
  <2>2. Alike(a, ResultHead(r), b, ResultHead(q)) /\ r.content = q.content
          /\ ResultTail(r) = ResultTail(q)
    <3> DEFINE x == ResultHead(r)
               y == ResultTail(r)
               z == ResultHead(q)
               w == ResultTail(q)
               k == "content"
               u == r.content
               v == q.content
    <3>1. /\ x \in Seq(AllFields) /\ y \in AllFields /\ k \in Heads /\ u \in Values
          /\ z \in Seq(AllFields) /\ w \in AllFields /\ v \in Values
      BY ResultShape
    <3>2. Alike(a, Sheathed(x, k, u, y), b, Sheathed(z, k, v, w))
      BY <2>1
    <3> HIDE DEF x, y, z, w, k, u, v
    <3>3. Alike(a, x, b, z) /\ u = v /\ y = w
      BY <3>1, <3>2, SheathedBack
    <3> QED  BY <3>3 DEF x, y, z, w, u, v
  <2>3. <<"call_id", r.id>> = <<"call_id", q.id>>
    <3>1. Alike(a, <<<<"call_id", r.id>>>>, b, <<<<"call_id", q.id>>>>)
      BY <2>2 DEF ResultHead
    <3> QED  BY <3>1, ResultShape, OneFieldBack
  <2>4. r.id = q.id /\ r.isError = q.isError
    BY <2>2, <2>3 DEF ResultTail
  <2> QED  BY <2>2, <2>4, ResultShape
<1> QED  BY <1>2, <1>3, <1>4 DEF Legible

LEMMA AfterIs ==
  ASSUME NEW X, NEW R, NEW f, IsMap(f, R, Seq(X)), NEW s \in Seq(R), NEW a \in Seq(X)
  PROVE  /\ After(a, Map(f, s)) = Behind(a, FlattenSeq(Map(f, s)))
         /\ FlattenSeq(Map(f, s)) \in Seq(X) /\ After(a, Map(f, s)) \in Seq(X)
<1> DEFINE w == Map(f, s)
<1>1. w \in Seq(Seq(X))
  BY MapTyped
<1>2. After(a, w) = Behind(a, FlattenSeq(w))
  BY DEF After, Behind
<1> HIDE DEF w
<1>3. FlattenSeq(w) \in Seq(X)
  BY <1>1, FlattenTyped
<1>4. Behind(a, FlattenSeq(w)) \in Seq(X)
  BY <1>3, BehindTyped
<1> QED  BY <1>2, <1>3, <1>4 DEF w

LEMMA ClosedAfter ==
  ASSUME NEW X, NEW R, NEW f, IsMap(f, R, Seq(X)), NEW D, Ends(f, R, D),
         NEW E, D \cap E = {}, NEW s \in Seq(R), NEW a \in Seq(X), Closed(a, E)
  PROVE  Closed(After(a, Map(f, s)), E)
<1>1. CASE s = <<>>
  <2>1. Map(f, s) = <<>>
    BY <1>1 DEF Map
  <2> QED  BY <2>1, AfterNone
<1>2. CASE s # <<>>
  <2>1. PICK t \in Seq(R), r \in R : s = Append(t, r)
    BY <1>2, SequenceEmptyOrAppend
  <2>2. Map(f, s) = Append(Map(f, t), f[r])
    <3>1. t \in Seq(R) /\ <<r>> \in Seq(R) /\ s = t \o <<r>>
      BY <2>1, AppendIsConcat, OneField
    <3> DEFINE u == <<r>>
    <3>2. Map(f, u) = <<f[r]>>
      BY DEF Map
    <3>3. u \in Seq(R) /\ s = t \o u
      BY <3>1
    <3> HIDE DEF u
    <3>4. Map(f, s) = Map(f, t) \o Map(f, u)
      BY <3>3, MapConcat
    <3>5. Map(f, t) \in Seq(Seq(X))
      BY MapTyped
    <3> QED  BY <3>2, <3>4, <3>5, AppendIsConcat DEF IsMap
  <2> DEFINE w == Map(f, t)
             v == f[r]
             W == Seq(X)
  <2>3. w \in Seq(W) /\ v \in W /\ Words(W, X) /\ v # <<>> /\ LastOf(v) \notin E
    BY MapTyped DEF IsMap, Words, Ends, LastOf
  <2> HIDE DEF w, v, W
  <2>4. After(a, w) \in Seq(X) /\ After(a, Append(w, v)) = Behind(After(a, w), v)
    BY <2>3, AfterWords DEF Behind
  <2> DEFINE c == After(a, w)
  <2>5. c \in Seq(X) /\ v \in Seq(X)
    BY <2>3, <2>4 DEF Words
  <2> HIDE DEF c
  <2>6. LastOf(Behind(c, v)) = LastOf(v)
    BY <2>3, <2>5, BehindLast
  <2>7. LastOf(After(a, Append(w, v))) \notin E
    BY <2>3, <2>4, <2>6 DEF c
  <2> QED  BY <2>2, <2>7 DEF Closed, LastOf, w, v
<1> QED  BY <1>1, <1>2

RoleField(m) == <<"role", m.role>>

(* A message up to its results.                                            *)
Called(m) == After(<<RoleField(m)>>, Map(CallWord, m.calls))

LEMMA MessageShape ==
  ASSUME NEW m \in MessageRecords
  PROVE  /\ m.calls \in Seq(CallRecords) /\ m.results \in Seq(ResultRecords)
         /\ m = [role |-> m.role, calls |-> m.calls, results |-> m.results]
         /\ RoleField(m) \in AllFields
         /\ MessageWord[m] = After(Called(m), Map(ResultWord, m.results))
<1>1. /\ m.role \in {"user", "assistant", "tool"}
      /\ m.calls \in Seq(CallRecords) /\ m.results \in Seq(ResultRecords)
      /\ m = [role |-> m.role, calls |-> m.calls, results |-> m.results]
  BY DEF MessageRecords
<1>2. RoleField(m) \in AllFields
  BY <1>1 DEF AllFields, FieldKeys, FieldValues, RoleField
<1>3. MessageWord[m] = MessageFields(m)
  BY DEF MessageWord
<1>4. [i \in DOMAIN m.calls |-> CallFields(m.calls[i])] = Map(CallWord, m.calls)
  <2>1. \A i \in DOMAIN m.calls : m.calls[i] \in CallRecords
    BY <1>1, LenProperties
  <2> QED  BY <2>1 DEF Map, CallWord
<1>5. [i \in DOMAIN m.results |-> ResultFields(m.results[i])] = Map(ResultWord, m.results)
  <2>1. \A i \in DOMAIN m.results : m.results[i] \in ResultRecords
    BY <1>1, LenProperties
  <2> QED  BY <2>1 DEF Map, ResultWord
<1>6. MessageWord[m] = After(Called(m), Map(ResultWord, m.results))
  BY <1>3, <1>4, <1>5 DEF MessageFields, After, Called, RoleField
<1> QED  BY <1>1, <1>2, <1>6

LEMMA CalledBehind ==
  ASSUME NEW m \in MessageRecords, NEW a \in Seq(AllFields)
  PROVE  /\ Called(m) \in Seq(AllFields) /\ MessageWord[m] \in Seq(AllFields)
         /\ Behind(a, MessageWord[m]) = After(Behind(a, Called(m)), Map(ResultWord, m.results))
         /\ Behind(a, Called(m)) = After(Behind(a, <<RoleField(m)>>), Map(CallWord, m.calls))
<1> DEFINE x == <<RoleField(m)>>
           p == FlattenSeq(Map(CallWord, m.calls))
           q == FlattenSeq(Map(ResultWord, m.results))
           c == Called(m)
<1>1. x \in Seq(AllFields)
  BY MessageShape, OneField
<1> HIDE DEF x
<1>2. /\ m.calls \in Seq(CallRecords) /\ m.results \in Seq(ResultRecords)
      /\ c = After(x, Map(CallWord, m.calls))
      /\ MessageWord[m] = After(c, Map(ResultWord, m.results))
  BY MessageShape DEF Called, x
<1>3. c = Behind(x, p) /\ p \in Seq(AllFields) /\ c \in Seq(AllFields)
  <2> HIDE DEF c
  <2> QED  BY <1>1, <1>2, CallWords, AfterIs
<1>4. MessageWord[m] = Behind(c, q) /\ q \in Seq(AllFields) /\ MessageWord[m] \in Seq(AllFields)
  <2> HIDE DEF c
  <2> QED  BY <1>2, <1>3, ResultWords, AfterIs
<1> DEFINE d == Behind(a, c)
           y == Behind(a, x)
<1>5. d \in Seq(AllFields) /\ y \in Seq(AllFields)
  <2> HIDE DEF c
  <2> QED  BY <1>1, <1>3, BehindTyped
<1>6. Behind(a, Behind(c, q)) = Behind(d, q)
  <2> HIDE DEF c, q
  <2> QED  BY <1>3, <1>4, BehindBehind
<1>7. Behind(a, Behind(x, p)) = Behind(y, p)
  <2> HIDE DEF p
  <2> QED  BY <1>1, <1>3, BehindBehind
<1>8. After(d, Map(ResultWord, m.results)) = Behind(d, q)
  <2> HIDE DEF d
  <2> QED  BY <1>2, <1>5, ResultWords, AfterIs
<1>9. After(y, Map(CallWord, m.calls)) = Behind(y, p)
  <2> HIDE DEF y
  <2> QED  BY <1>2, <1>5, CallWords, AfterIs
<1> QED  BY <1>3, <1>4, <1>6, <1>7, <1>8, <1>9 DEF x

LEMMA MessageWords ==
  /\ IsMap(MessageWord, MessageRecords, Seq(AllFields))
  /\ Ends(MessageWord, MessageRecords, AllFields)
  /\ Legible(MessageWord, MessageRecords, MessageRecords, AllFields)
<1>0. <<>> \in Seq(AllFields)
  BY EmptySeq
<1>1. IsMap(MessageWord, MessageRecords, Seq(AllFields))
  <2>1. MessageWord = [m \in MessageRecords |-> MessageWord[m]]
    BY DEF MessageWord
  <2> QED  BY <1>0, <2>1, CalledBehind DEF IsMap
(* Where the calls and where the results of a message begin.               *)
<1>2. ASSUME NEW m \in MessageRecords, NEW a \in Seq(AllFields)
      PROVE  /\ Behind(a, <<RoleField(m)>>) \in Seq(AllFields)
             /\ Behind(a, <<RoleField(m)>>) # <<>>
             /\ Closed(Behind(a, <<RoleField(m)>>), CallEnds)
             /\ Behind(a, Called(m)) \in Seq(AllFields)
             /\ Closed(Behind(a, Called(m)), ResultEnds)
  <2> DEFINE x == <<RoleField(m)>>
             y == Behind(a, x)
  <2>1. x \in Seq(AllFields) /\ x # <<>> /\ LastOf(x) = RoleField(m)
    BY MessageShape, OneField DEF LastOf
  <2> HIDE DEF x
  <2>2. y \in Seq(AllFields)
    BY <2>1, BehindTyped
  <2>3. LastOf(y) = RoleField(m) /\ y # <<>>
    BY <2>1, BehindLast
  <2>4. RoleField(m) \notin CallEnds /\ RoleField(m) \notin ResultEnds
    BY DEF RoleField, CallEnds, ResultEnds
  <2> HIDE DEF y
  <2>5. Closed(y, CallEnds) /\ Closed(y, ResultEnds)
    BY <2>3, <2>4 DEF Closed, LastOf
  <2>6. CallEnds \cap ResultEnds = {}
    BY DEF CallEnds, ResultEnds
  <2>7. Behind(a, Called(m)) = After(y, Map(CallWord, m.calls)) /\ m.calls \in Seq(CallRecords)
    BY CalledBehind, MessageShape DEF y, x
  <2>8. Closed(After(y, Map(CallWord, m.calls)), ResultEnds)
    BY <2>2, <2>5, <2>6, <2>7, CallWords, ClosedAfter
  <2>9. After(y, Map(CallWord, m.calls)) \in Seq(AllFields)
    BY <2>2, <2>7, CallWords, AfterIs
  <2> QED  BY <2>2, <2>3, <2>5, <2>7, <2>8, <2>9 DEF y, x
<1>3. Legible(MessageWord, MessageRecords, MessageRecords, AllFields)
  <2> SUFFICES ASSUME NEW m \in MessageRecords, NEW n \in MessageRecords,
                      NEW a \in Seq(AllFields), NEW b \in Seq(AllFields),
                      Behind(a, MessageWord[m]) = Behind(b, MessageWord[n])
               PROVE  m = n
    BY DEF Legible
  <2> DEFINE c == Behind(a, Called(m))
             d == Behind(b, Called(n))
             x == Behind(a, <<RoleField(m)>>)
             y == Behind(b, <<RoleField(n)>>)
  <2>1. /\ c \in Seq(AllFields) /\ Closed(c, ResultEnds)
        /\ d \in Seq(AllFields) /\ Closed(d, ResultEnds)
        /\ x \in Seq(AllFields) /\ Closed(x, CallEnds)
        /\ y \in Seq(AllFields) /\ Closed(y, CallEnds)
    BY <1>2
  <2>2. ReadAlike(c, d, ResultWord, m.results, n.results)
    BY CalledBehind DEF ReadAlike
  <2>3. c = d => ReadAlike(x, y, CallWord, m.calls, n.calls)
    BY CalledBehind DEF ReadAlike
  <2>4. /\ m.calls \in Seq(CallRecords) /\ m.results \in Seq(ResultRecords)
        /\ n.calls \in Seq(CallRecords) /\ n.results \in Seq(ResultRecords)
    BY MessageShape
  <2> HIDE DEF c, d, x, y
  <2>5. c = d /\ m.results = n.results
    BY <2>1, <2>2, <2>4, ResultWords, ReadMap
  <2>6. x = y /\ m.calls = n.calls
    BY <2>1, <2>3, <2>4, <2>5, CallWords, ReadMap
  <2>7. RoleField(m) = RoleField(n)
    <3>1. Alike(a, <<RoleField(m)>>, b, <<RoleField(n)>>)
      BY <2>6 DEF x, y, Alike
    <3> QED  BY <3>1, MessageShape, OneFieldBack
  <2>8. m.role = n.role
    BY <2>7 DEF RoleField
  <2> QED  BY <2>5, <2>6, <2>8, MessageShape
<1>4. Ends(MessageWord, MessageRecords, AllFields)
  <2> SUFFICES ASSUME NEW m \in MessageRecords
               PROVE  MessageWord[m] # <<>> /\ MessageWord[m][Len(MessageWord[m])] \in AllFields
    BY DEF Ends
  <2>1. MessageWord[m] \in Seq(AllFields)
    BY <1>1 DEF IsMap
  <2>2. MessageWord[m] # <<>>
    <3>1. m.calls \in Seq(CallRecords) /\ m.results \in Seq(ResultRecords)
      BY MessageShape
    <3> DEFINE x == <<RoleField(m)>>
               p == FlattenSeq(Map(CallWord, m.calls))
               q == FlattenSeq(Map(ResultWord, m.results))
    <3>2. MessageWord[m] = (x \o p) \o q
      BY MessageShape DEF Called, After
    <3>3. x \in Seq(AllFields) /\ x # <<>>
      BY MessageShape, OneField
    <3>4. p \in Seq(AllFields) /\ q \in Seq(AllFields)
      BY <1>0, <3>1, CallWords, ResultWords, AfterIs
    <3> HIDE DEF x, p, q
    <3>5. Len(x) \in Nat \ {0} /\ Len(p) \in Nat /\ Len(q) \in Nat
      BY <3>3, <3>4, LenProperties, EmptySeq
    <3>6. x \o p \in Seq(AllFields) /\ Len(x \o p) = Len(x) + Len(p)
      BY <3>3, <3>4, ConcatProperties
    <3> DEFINE z == x \o p
    <3>7. z \in Seq(AllFields) /\ Len(z) = Len(x) + Len(p)
      BY <3>6
    <3> HIDE DEF z
    <3>8. Len(z \o q) = Len(z) + Len(q)
      BY <3>4, <3>7, ConcatProperties
    <3>9. z \o q # <<>>
      BY <3>5, <3>7, <3>8, EmptySeq
    <3> QED  BY <3>2, <3>9 DEF z
  <2> QED  BY <2>1, <2>2, EmptySeq, LenProperties
<1> QED  BY <1>1, <1>3, <1>4

LEMMA FieldsIs ==
  ASSUME NEW conv \in Seq(MessageRecords)
  PROVE  Fields(conv) = FlattenSeq(Map(MessageWord, conv)) /\ Fields(conv) \in Seq(AllFields)
<1>1. \A i \in DOMAIN conv : conv[i] \in MessageRecords
  BY LenProperties
<1>2. [i \in DOMAIN conv |-> MessageFields(conv[i])] = Map(MessageWord, conv)
  BY <1>1 DEF Map, MessageWord
<1>3. <<>> \in Seq(AllFields)
  BY EmptySeq
<1> QED  BY <1>2, <1>3, MessageWords, AfterIs DEF Fields

(* The fields of a request tell the whole conversation: nothing of it is   *)
(* left out, and no two ways of cutting the fields up agree.               *)
THEOREM FieldsTell ==
  ASSUME NEW conv \in Seq(MessageRecords), NEW other \in Seq(MessageRecords),
         Fields(conv) = Fields(other)
  PROVE  conv = other
<1> DEFINE a == <<>>
<1>1. a \in Seq(AllFields) /\ Closed(a, AllFields)
  BY EmptySeq DEF Closed
<1>2. ReadAlike(a, a, MessageWord, conv, other)
  <2>1. After(a, Map(MessageWord, conv)) = Fields(conv)
    BY FieldsIs, ConcatEmptySeq DEF After
  <2>2. After(a, Map(MessageWord, other)) = Fields(other)
    BY FieldsIs, ConcatEmptySeq DEF After
  <2> QED  BY <2>1, <2>2 DEF ReadAlike
<1> HIDE DEF a
<1> QED  BY <1>1, <1>2, MessageWords, ReadMap

-----------------------------------------------------------------------------
(* Other ids for the same conversation.                                    *)

IsRenaming(rho) == rho \in [Ids -> Ids]

RenameField(rho) ==
  [x \in AllFields |->
     IF x[1] \in CallIdKeys /\ x[2] \in Ids THEN <<x[1], rho[x[2]]>> ELSE x]

RenameCall(rho) == [c \in CallRecords |-> [c EXCEPT !.id = rho[c.id]]]

RenameResult(rho) == [r \in ResultRecords |-> [r EXCEPT !.id = rho[r.id]]]

RenameMessage(rho) ==
  [m \in MessageRecords |->
     [role |-> m.role, calls |-> Map(RenameCall(rho), m.calls),
      results |-> Map(RenameResult(rho), m.results)]]

Rename(rho, conv) == Map(RenameMessage(rho), conv)

LEMMA MapBehind ==
  ASSUME NEW X, NEW Y, NEW h, IsMap(h, X, Y), NEW u \in Seq(X), NEW v \in Seq(X)
  PROVE  Map(h, Behind(u, v)) = Behind(Map(h, u), Map(h, v))
BY MapConcat DEF Behind

LEMMA RenameTyped ==
  ASSUME NEW rho, IsRenaming(rho)
  PROVE  /\ IsMap(RenameField(rho), AllFields, AllFields)
         /\ IsMap(RenameCall(rho), CallRecords, CallRecords)
         /\ IsMap(RenameResult(rho), ResultRecords, ResultRecords)
         /\ IsMap(RenameMessage(rho), MessageRecords, MessageRecords)
<1>1. IsMap(RenameField(rho), AllFields, AllFields)
  <2>1. ASSUME NEW x \in AllFields, x[2] \in Ids
        PROVE  <<x[1], rho[x[2]]>> \in AllFields
    <3>1. x[1] \in FieldKeys /\ rho[x[2]] \in Ids
      BY <2>1 DEF AllFields, IsRenaming
    <3> QED  BY <3>1 DEF AllFields, FieldValues
  <2> QED  BY <2>1 DEF IsMap, RenameField
<1>2. IsMap(RenameCall(rho), CallRecords, CallRecords)
  BY DEF IsMap, RenameCall, CallRecords, IsRenaming
<1>3. IsMap(RenameResult(rho), ResultRecords, ResultRecords)
  BY DEF IsMap, RenameResult, ResultRecords, IsRenaming
<1>4. IsMap(RenameMessage(rho), MessageRecords, MessageRecords)
  <2>1. ASSUME NEW m \in MessageRecords
        PROVE  RenameMessage(rho)[m] \in MessageRecords
    <3>1. m.calls \in Seq(CallRecords) /\ m.results \in Seq(ResultRecords)
            /\ m.role \in {"user", "assistant", "tool"}
      BY DEF MessageRecords
    <3>2. Map(RenameCall(rho), m.calls) \in Seq(CallRecords)
      BY <1>2, <3>1, MapTyped
    <3>3. Map(RenameResult(rho), m.results) \in Seq(ResultRecords)
      BY <1>3, <3>1, MapTyped
    <3> QED  BY <3>1, <3>2, <3>3 DEF RenameMessage, MessageRecords
  <2>2. RenameMessage(rho) = [m \in MessageRecords |-> RenameMessage(rho)[m]]
    BY DEF RenameMessage
  <2> QED  BY <2>1, <2>2 DEF IsMap
<1> QED  BY <1>1, <1>2, <1>3, <1>4

(* No data holds an id, so that what the tools were given and what they    *)
(* said stays as it is.                                                    *)
LEMMA DataStays ==
  ASSUME NEW rho, IsRenaming(rho), NEW w \in Seq(DataFields)
  PROVE  Map(RenameField(rho), w) = w
<1>1. ASSUME NEW x \in DataFields
      PROVE  RenameField(rho)[x] = x
  <2>1. x \in AllFields
    BY DEF DataFields, AllFields, FieldKeys, FieldValues
  <2>2. x[2] \notin Ids
    BY TranscriptAssumption DEF DataFields, Ids
  <2> QED  BY <2>1, <2>2 DEF RenameField
<1>2. /\ Len(w) \in Nat /\ DOMAIN w = 1 .. Len(w) /\ w = [j \in 1 .. Len(w) |-> w[j]]
      /\ \A j \in 1 .. Len(w) : w[j] \in DataFields
  BY LenProperties
<1>3. Map(RenameField(rho), w) = [j \in 1 .. Len(w) |-> w[j]]
  <2> DEFINE h == RenameField(rho)
  <2>1. \A j \in 1 .. Len(w) : h[w[j]] = w[j]
    BY <1>1, <1>2
  <2> HIDE DEF h
  <2>2. Map(h, w) = [j \in 1 .. Len(w) |-> w[j]]
    BY <1>2, <2>1 DEF Map
  <2> QED  BY <2>2 DEF h
<1> QED  BY <1>2, <1>3

LEMMA RenameSheathed ==
  ASSUME NEW rho, IsRenaming(rho), NEW x \in Seq(AllFields), NEW z \in Seq(AllFields),
         Map(RenameField(rho), x) = z,
         NEW k \in Heads, NEW v \in Values, NEW d \in AllFields, RenameField(rho)[d] = d
  PROVE  Map(RenameField(rho), Sheathed(x, k, v, d)) = Sheathed(z, k, v, d)
<1> DEFINE h == RenameField(rho)
           p == ValueWord[<<k, v>>]
           y == <<d>>
<1>1. IsMap(h, AllFields, AllFields)
  BY RenameTyped
<1>2. p \in Seq(DataFields) /\ p \in Seq(AllFields)
  BY ValueWordTyped, DataWords DEF IsMap
<1>3. y \in Seq(AllFields)
  BY OneField
<1>4. Map(h, p) = p
  <2> HIDE DEF p
  <2> QED  BY <1>2, DataStays
<1>5. Map(h, y) = y
  BY DEF Map
<1> HIDE DEF h, p, y
<1>6. Behind(x, p) \in Seq(AllFields)
  BY <1>2, BehindTyped
<1> DEFINE c == Behind(x, p)
<1>7. c \in Seq(AllFields)
  BY <1>6
<1>8. Map(h, c) = Behind(z, p)
  <2>1. Map(h, x) = z
    BY DEF h
  <2>2. Map(h, Behind(x, p)) = Behind(Map(h, x), Map(h, p))
    BY <1>1, <1>2, MapBehind
  <2> QED  BY <1>4, <2>1, <2>2
<1> HIDE DEF c
<1>9. Map(h, Behind(c, y)) = Behind(Map(h, c), Map(h, y))
  BY <1>1, <1>3, <1>7, MapBehind
<1> QED  BY <1>5, <1>8, <1>9 DEF c, h, p, y, Sheathed

LEMMA RenamesCalls ==
  ASSUME NEW rho, IsRenaming(rho)
  PROVE  Renames(RenameField(rho), CallWord, RenameCall(rho), CallRecords)
<1> SUFFICES ASSUME NEW c \in CallRecords
             PROVE  Map(RenameField(rho), CallWord[c]) = CallWord[RenameCall(rho)[c]]
  BY DEF Renames
<1> DEFINE d == RenameCall(rho)[c]
           h == RenameField(rho)
<1>1. d \in CallRecords
  BY RenameTyped DEF IsMap
<1>2. d.id = rho[c.id] /\ d.name = c.name /\ d.args = c.args /\ d.malformed = c.malformed
  BY CallShape DEF RenameCall, CallRecords
<1>3. h[<<"id", c.id>>] = <<"id", d.id>> /\ h[<<"name", c.name>>] = <<"name", c.name>>
  BY <1>2, CallShape DEF RenameField, CallIdKeys
<1>4. h[CallTail(c)] = CallTail(c) /\ CallTail(d) = CallTail(c)
  BY <1>2, CallShape DEF RenameField, CallIdKeys, CallTail
<1> HIDE DEF d, h
<1>5. Map(h, CallHead(c)) = CallHead(d)
  BY <1>2, <1>3 DEF Map, CallHead
<1> DEFINE x == CallHead(c)
           z == CallHead(d)
           k == "arguments"
           v == c.args
           t == CallTail(c)
<1>6. /\ x \in Seq(AllFields) /\ z \in Seq(AllFields) /\ Map(h, x) = z /\ h[t] = t
      /\ k \in Heads /\ v \in Values /\ t \in AllFields
      /\ CallWord[c] = Sheathed(x, k, v, t) /\ CallWord[d] = Sheathed(z, k, v, t)
  BY <1>1, <1>2, <1>4, <1>5, CallShape
<1> HIDE DEF x, z, k, v, t
<1>7. Map(h, Sheathed(x, k, v, t)) = Sheathed(z, k, v, t)
  BY <1>6, RenameSheathed DEF h
<1> QED  BY <1>6, <1>7 DEF d, h

LEMMA RenamesResults ==
  ASSUME NEW rho, IsRenaming(rho)
  PROVE  Renames(RenameField(rho), ResultWord, RenameResult(rho), ResultRecords)
<1> SUFFICES ASSUME NEW c \in ResultRecords
             PROVE  Map(RenameField(rho), ResultWord[c]) = ResultWord[RenameResult(rho)[c]]
  BY DEF Renames
<1> DEFINE d == RenameResult(rho)[c]
           h == RenameField(rho)
<1>1. d \in ResultRecords
  BY RenameTyped DEF IsMap
<1>2. d.id = rho[c.id] /\ d.content = c.content /\ d.isError = c.isError
  BY ResultShape DEF RenameResult, ResultRecords
<1>3. h[<<"call_id", c.id>>] = <<"call_id", d.id>>
  BY <1>2, ResultShape DEF RenameField, CallIdKeys
<1>4. h[ResultTail(c)] = ResultTail(c) /\ ResultTail(d) = ResultTail(c)
  BY <1>2, ResultShape DEF RenameField, CallIdKeys, ResultTail
<1> HIDE DEF d, h
<1>5. Map(h, ResultHead(c)) = ResultHead(d)
  BY <1>2, <1>3 DEF Map, ResultHead
<1> DEFINE x == ResultHead(c)
           z == ResultHead(d)
           k == "content"
           v == c.content
           t == ResultTail(c)
<1>6. /\ x \in Seq(AllFields) /\ z \in Seq(AllFields) /\ Map(h, x) = z /\ h[t] = t
      /\ k \in Heads /\ v \in Values /\ t \in AllFields
      /\ ResultWord[c] = Sheathed(x, k, v, t) /\ ResultWord[d] = Sheathed(z, k, v, t)
  BY <1>1, <1>2, <1>4, <1>5, ResultShape
<1> HIDE DEF x, z, k, v, t
<1>7. Map(h, Sheathed(x, k, v, t)) = Sheathed(z, k, v, t)
  BY <1>6, RenameSheathed DEF h
<1> QED  BY <1>6, <1>7 DEF d, h

LEMMA RenamesMessages ==
  ASSUME NEW rho, IsRenaming(rho)
  PROVE  Renames(RenameField(rho), MessageWord, RenameMessage(rho), MessageRecords)
<1> SUFFICES ASSUME NEW m \in MessageRecords
             PROVE  Map(RenameField(rho), MessageWord[m]) = MessageWord[RenameMessage(rho)[m]]
  BY DEF Renames
<1> DEFINE n == RenameMessage(rho)[m]
           h == RenameField(rho)
           x == <<RoleField(m)>>
           p == FlattenSeq(Map(CallWord, m.calls))
           q == FlattenSeq(Map(ResultWord, m.results))
           s == FlattenSeq(Map(CallWord, n.calls))
           t == FlattenSeq(Map(ResultWord, n.results))
<1>1. /\ n \in MessageRecords /\ n.role = m.role
      /\ n.calls = Map(RenameCall(rho), m.calls) /\ n.results = Map(RenameResult(rho), m.results)
  <2>1. n \in MessageRecords
    BY RenameTyped DEF IsMap
  <2> QED  BY <2>1 DEF RenameMessage
<1> HIDE DEF n
<1>2. IsMap(h, AllFields, AllFields)
  BY RenameTyped
<1>3. Map(h, x) = x /\ x \in Seq(AllFields)
  <2>1. h[RoleField(m)] = RoleField(m)
    BY MessageShape DEF RenameField, CallIdKeys, RoleField
  <2>2. Map(h, x) = x
    <3> DEFINE y == RoleField(m)
    <3>1. h[y] = y
      BY <2>1
    <3> HIDE DEF h, y
    <3>2. Map(h, <<y>>) = <<y>>
      BY <3>1 DEF Map
    <3> QED  BY <3>2 DEF y
  <2>3. x \in Seq(AllFields)
    BY MessageShape, OneField
  <2> QED  BY <2>2, <2>3
<1>4. m.calls \in Seq(CallRecords) /\ m.results \in Seq(ResultRecords)
  BY MessageShape
<1>5. Map(h, p) = s
  <2> HIDE DEF h
  <2>1. Renames(h, CallWord, RenameCall(rho), CallRecords)
    BY RenamesCalls DEF h
  <2> QED  BY <1>1, <1>2, <1>4, <2>1, CallWords, RenameTyped, RenameWords
<1>6. Map(h, q) = t
  <2> HIDE DEF h
  <2>1. Renames(h, ResultWord, RenameResult(rho), ResultRecords)
    BY RenamesResults DEF h
  <2> QED  BY <1>1, <1>2, <1>4, <2>1, ResultWords, RenameTyped, RenameWords
<1>7. p \in Seq(AllFields) /\ q \in Seq(AllFields)
  BY <1>3, <1>4, CallWords, ResultWords, AfterIs
<1>8. MessageWord[m] = Behind(Behind(x, p), q)
  BY MessageShape DEF Called, After, Behind
<1>9. MessageWord[n] = Behind(Behind(x, s), t)
  <2>1. RoleField(n) = RoleField(m)
    BY <1>1 DEF RoleField
  <2> QED  BY <1>1, <2>1, MessageShape DEF Called, After, Behind
<1> HIDE DEF h, x, p, q, s, t
<1>10. Behind(x, p) \in Seq(AllFields)
  BY <1>3, <1>7, BehindTyped
<1>11. Map(h, Behind(x, p)) = Behind(x, s)
  <2>1. Map(h, Behind(x, p)) = Behind(Map(h, x), Map(h, p))
    BY <1>2, <1>3, <1>7, MapBehind
  <2> QED  BY <1>3, <1>5, <2>1
<1> DEFINE c == Behind(x, p)
<1>12. c \in Seq(AllFields) /\ Map(h, c) = Behind(x, s) /\ MessageWord[m] = Behind(c, q)
  BY <1>8, <1>10, <1>11
<1> HIDE DEF c
<1>13. Map(h, Behind(c, q)) = Behind(Map(h, c), Map(h, q))
  BY <1>2, <1>7, <1>12, MapBehind
<1> QED  BY <1>6, <1>9, <1>12, <1>13 DEF h, n

LEMMA RenameFields ==
  ASSUME NEW rho, IsRenaming(rho), NEW conv \in Seq(MessageRecords)
  PROVE  /\ Rename(rho, conv) \in Seq(MessageRecords)
         /\ Fields(Rename(rho, conv)) = Map(RenameField(rho), Fields(conv))
<1> DEFINE h == RenameField(rho)
           g == RenameMessage(rho)
<1>1. IsMap(h, AllFields, AllFields) /\ IsMap(g, MessageRecords, MessageRecords)
  BY RenameTyped
<1>2. Renames(h, MessageWord, g, MessageRecords)
  BY RenamesMessages
<1>3. Rename(rho, conv) = Map(g, conv)
  BY DEF Rename
<1> HIDE DEF h, g
<1>4. Map(g, conv) \in Seq(MessageRecords)
  BY <1>1, MapTyped
<1>5. Map(h, FlattenSeq(Map(MessageWord, conv))) = FlattenSeq(Map(MessageWord, Map(g, conv)))
  BY <1>1, <1>2, MessageWords, RenameWords
<1>6. Fields(Rename(rho, conv)) = FlattenSeq(Map(MessageWord, Map(g, conv)))
  BY <1>3, <1>4, FieldsIs
<1>7. Fields(conv) = FlattenSeq(Map(MessageWord, conv))
  BY FieldsIs
<1> QED  BY <1>3, <1>4, <1>5, <1>6, <1>7 DEF h

-----------------------------------------------------------------------------
(* The key.  A request over any keys and values.                           *)
Requests(K, V) == Seq(K \X V)

(* The marks of an object are not placeholders.                            *)
MarksApart == \A n \in Nat : <<"call", n>> \notin {"{", "}"}

LEMMA Shape ==
  ASSUME NEW K, NEW V, NEW req \in Requests(K, V)
  PROVE  /\ Len(req) \in Nat
         /\ DOMAIN req = 1 .. Len(req)
         /\ DOMAIN req \subseteq Nat
         /\ IdPositions(req) \subseteq DOMAIN req
         /\ \A i \in DOMAIN req : req[i] \in K \X V
<1>1. ASSUME NEW S, NEW s \in Seq(S)
      PROVE  /\ Len(s) \in Nat /\ DOMAIN s = 1 .. Len(s)
             /\ \A i \in DOMAIN s : s[i] \in S
  BY <1>1
<1>2. Len(req) \in Nat /\ DOMAIN req = 1 .. Len(req) /\ \A i \in DOMAIN req : req[i] \in K \X V
  BY <1>1 DEF Requests
<1>3. 1 .. Len(req) \subseteq Nat
  BY <1>2
<1>4. IdPositions(req) \subseteq DOMAIN req
  BY DEF IdPositions
<1> QED
  BY <1>2, <1>3, <1>4

(* A set of positions has a first one.                                     *)
LEMMA Least ==
  ASSUME NEW n \in Nat, NEW T, T \subseteq 1 .. n, T # {}
  PROVE  \E x \in T : \A y \in T : x <= y
<1> DEFINE Below(x) == {y \in T : y < x}
           R == StrictSubsetOrdering(T)
<1>1. IsFiniteSet(T)
  <2>1. IsFiniteSet(1 .. n)
    BY FS_Interval
  <2> QED
    BY <2>1, FS_Subset
<1>2. \A x \in T : Below(x) \in FiniteSubsetsOf(T)
  BY <1>1, FS_Subset DEF FiniteSubsetsOf
<1>3. PICK b \in {Below(x) : x \in T} : \A c \in {Below(x) : x \in T} : ~(<<c, b>> \in R)
  <2>1. IsWellFoundedOn(R, FiniteSubsetsOf(T))
    BY FS_StrictSubsetOrderingWellFounded
  <2>2. {Below(x) : x \in T} \subseteq FiniteSubsetsOf(T) /\ {Below(x) : x \in T} # {}
    BY <1>2
  <2> QED
    BY <2>1, <2>2, WFMin
<1>4. PICK x \in T : b = Below(x)
  OBVIOUS
<1>5. ASSUME NEW y \in T, y < x
      PROVE  FALSE
  <2>1. y \in Below(x) /\ y \notin Below(y)
    BY <1>5
  <2>2. Below(y) \subseteq Below(x)
    <3>1. \A z \in T : z < y => z < x
      <4>1. x \in Int /\ y \in Int /\ \A z \in T : z \in Int
        OBVIOUS
      <4> QED
        BY <1>5, <4>1
    <3> QED
      BY <3>1
  <2>3. <<Below(y), Below(x)>> \in R
    BY <2>1, <2>2 DEF StrictSubsetOrdering
  <2> QED
    BY <1>3, <1>4, <2>3
<1>6. \A y \in T : x <= y
  BY <1>5
<1> QED
  BY <1>6

-----------------------------------------------------------------------------

Positions(req, v) == {i \in IdPositions(req) : req[i][2] = v}

(* What was seen before v is finite.                                       *)
LEMMA SeenFinite ==
  ASSUME NEW K, NEW V, NEW req \in Requests(K, V), NEW v
  PROVE  /\ IsFiniteSet(SeenBefore(req, v))
         /\ Cardinality(SeenBefore(req, v)) \in Nat
<1> DEFINE S == {k \in IdPositions(req) :
                   \A m \in IdPositions(req) : req[m][2] = v => k < m}
           f == [k \in S |-> req[k][2]]
<1>1. Len(req) \in Nat /\ S \subseteq 1 .. Len(req)
  BY Shape
<1>2. IsFiniteSet(S)
  <2>1. IsFiniteSet(1 .. Len(req))
    BY <1>1, FS_Interval
  <2> QED
    BY <1>1, <2>1, FS_Subset
<1>3. f \in Surjection(S, SeenBefore(req, v))
  BY Fun_IsSurj DEF SeenBefore
<1> QED
  BY <1>2, <1>3, FS_Surjection, FS_CardinalityType

(* Different values are mapped to different placeholders, since one of     *)
(* them appears first and is among what was seen before the other.         *)
LEMMA SeenGrows ==
  ASSUME NEW K, NEW V, NEW req \in Requests(K, V),
         NEW i \in IdPositions(req), NEW j \in IdPositions(req),
         \A m \in Positions(req, req[j][2]) : i < m,
         \A m \in Positions(req, req[i][2]) : i <= m
  PROVE  Placeholder(req, i) < Placeholder(req, j)
<1> DEFINE before == SeenBefore(req, req[i][2])
           later == SeenBefore(req, req[j][2])
<1>0. IdPositions(req) \subseteq Nat
  BY Shape
<1>1. before \subseteq later
  <2> SUFFICES ASSUME NEW k \in IdPositions(req),
                      \A m \in IdPositions(req) : req[m][2] = req[i][2] => k < m
               PROVE  req[k][2] \in later
    BY DEF SeenBefore
  <2>1. k < i
    OBVIOUS
  <2>2. \A m \in IdPositions(req) : req[m][2] = req[j][2] => k < m
    BY <2>1, <1>0 DEF Positions
  <2> QED
    BY <2>2 DEF SeenBefore
<1>2. req[i][2] \in later
  BY DEF SeenBefore, Positions
<1>3. req[i][2] \notin before
  <2> SUFFICES ASSUME NEW k \in IdPositions(req), req[k][2] = req[i][2],
                      \A m \in IdPositions(req) : req[m][2] = req[i][2] => k < m
               PROVE  FALSE
    BY DEF SeenBefore
  <2> QED
    BY <1>0
<1>4. Cardinality(before) <= Cardinality(later) /\ Cardinality(before) # Cardinality(later)
  BY <1>1, <1>2, <1>3, SeenFinite, FS_Subset
<1>5. Cardinality(before) \in Nat /\ Cardinality(later) \in Nat
  BY SeenFinite
<1> QED
  BY <1>4, <1>5 DEF Placeholder

LEMMA PlaceholdersApart ==
  ASSUME NEW K, NEW V, NEW req \in Requests(K, V),
         NEW i \in IdPositions(req), NEW j \in IdPositions(req)
  PROVE  Placeholder(req, i) = Placeholder(req, j) <=> req[i][2] = req[j][2]
<1>1. CASE req[i][2] = req[j][2]
  BY <1>1 DEF Placeholder
<1>2. CASE req[i][2] # req[j][2]
  <2>0. IdPositions(req) \subseteq Nat
    BY Shape
  <2>1. PICK a \in Positions(req, req[i][2]) : \A m \in Positions(req, req[i][2]) : a <= m
    <3>1. Positions(req, req[i][2]) \subseteq 1 .. Len(req)
      BY Shape DEF Positions
    <3>2. i \in Positions(req, req[i][2])
      BY DEF Positions
    <3>3. Len(req) \in Nat
      BY Shape
    <3> QED
      BY <3>1, <3>2, <3>3, Least
  <2>2. PICK b \in Positions(req, req[j][2]) : \A m \in Positions(req, req[j][2]) : b <= m
    <3>1. Positions(req, req[j][2]) \subseteq 1 .. Len(req)
      BY Shape DEF Positions
    <3>2. j \in Positions(req, req[j][2])
      BY DEF Positions
    <3>3. Len(req) \in Nat
      BY Shape
    <3> QED
      BY <3>1, <3>2, <3>3, Least
  <2>3. /\ a \in IdPositions(req) /\ req[a][2] = req[i][2]
        /\ b \in IdPositions(req) /\ req[b][2] = req[j][2]
    BY DEF Positions
  <2>4. /\ Placeholder(req, a) = Placeholder(req, i)
        /\ Placeholder(req, b) = Placeholder(req, j)
    BY <2>3 DEF Placeholder
  <2>5. Placeholder(req, a) \in Nat /\ Placeholder(req, b) \in Nat
    BY SeenFinite DEF Placeholder
  <2>6. a \in Nat /\ b \in Nat /\ a # b
    BY <1>2, <2>0, <2>3
  <2>7. CASE a < b
    <3>1. \A m \in Positions(req, req[b][2]) : a < m
      BY <2>0, <2>2, <2>3, <2>6, <2>7 DEF Positions
    <3>2. Placeholder(req, a) < Placeholder(req, b)
      BY <2>1, <2>3, <3>1, SeenGrows
    <3> QED
      BY <1>2, <2>4, <2>5, <3>2
  <2>8. CASE b < a
    <3>1. \A m \in Positions(req, req[a][2]) : b < m
      BY <2>0, <2>1, <2>3, <2>6, <2>8 DEF Positions
    <3>2. Placeholder(req, b) < Placeholder(req, a)
      BY <2>2, <2>3, <3>1, SeenGrows
    <3> QED
      BY <1>2, <2>4, <2>5, <3>2
  <2> QED
    BY <2>6, <2>7, <2>8
<1> QED
  BY <1>1, <1>2

-----------------------------------------------------------------------------
(* Requests that are the same up to ids have the same placeholders.        *)

LEMMA SamePlaceholders ==
  ASSUME NEW K, NEW V, NEW req \in Requests(K, V), NEW other \in Requests(K, V),
         SameUpToIds(req, other), NEW i \in IdPositions(req)
  PROVE  Placeholder(req, i) = Placeholder(other, i)
<1> DEFINE Seen == SeenBefore(req, req[i][2])
           SeenOther == SeenBefore(other, other[i][2])
           Place(x) == CHOOSE k \in IdPositions(req) : req[k][2] = x
           f == [x \in Seen |-> other[Place(x)][2]]
<1>1. IdPositions(other) = IdPositions(req)
  BY DEF SameUpToIds
<1>2. \A k, m \in IdPositions(req) : req[k][2] = req[m][2] <=> other[k][2] = other[m][2]
  BY DEF SameUpToIds
<1>3. \A k \in IdPositions(req) : Place(req[k][2]) \in IdPositions(req)
                                    /\ req[Place(req[k][2])][2] = req[k][2]
  OBVIOUS
<1>4. \A k \in IdPositions(req) : other[Place(req[k][2])][2] = other[k][2]
  BY <1>2, <1>3
<1>5. \A k \in IdPositions(req) :
        (\A m \in IdPositions(req) : req[m][2] = req[i][2] => k < m)
          <=> (\A m \in IdPositions(other) : other[m][2] = other[i][2] => k < m)
  BY <1>1, <1>2
<1>6. \A x \in Seen : \E k \in IdPositions(req) :
        /\ x = req[k][2]
        /\ \A m \in IdPositions(req) : req[m][2] = req[i][2] => k < m
  BY DEF SeenBefore
<1>7. \A k \in IdPositions(req) :
        (\A m \in IdPositions(req) : req[m][2] = req[i][2] => k < m)
          => /\ req[k][2] \in Seen
             /\ other[k][2] \in SeenOther
             /\ f[req[k][2]] = other[k][2]
  <2> SUFFICES ASSUME NEW k \in IdPositions(req),
                      \A m \in IdPositions(req) : req[m][2] = req[i][2] => k < m
               PROVE  /\ req[k][2] \in Seen
                      /\ other[k][2] \in SeenOther
                      /\ f[req[k][2]] = other[k][2]
    OBVIOUS
  <2>1. req[k][2] \in Seen
    BY DEF SeenBefore
  <2>2. other[k][2] \in SeenOther
    BY <1>1, <1>5 DEF SeenBefore
  <2>3. f[req[k][2]] = other[Place(req[k][2])][2]
    BY <2>1
  <2> QED
    BY <1>4, <2>1, <2>2, <2>3
<1>8. f \in Bijection(Seen, SeenOther)
  <2> HIDE DEF f, Seen, SeenOther
  <2>1. DOMAIN f = Seen /\ f = [x \in Seen |-> f[x]]
    BY DEF f
  <2>2. f \in [Seen -> SeenOther]
    BY <1>6, <1>7, <2>1
  <2>3. \A x, y \in Seen : f[x] = f[y] => x = y
    BY <1>2, <1>6, <1>7
  <2>4. \A y \in SeenOther : \E x \in Seen : f[x] = y
    <3>1. \A y \in SeenOther : \E k \in IdPositions(req) :
            /\ y = other[k][2]
            /\ \A m \in IdPositions(req) : req[m][2] = req[i][2] => k < m
      BY <1>1, <1>5 DEF SeenOther, SeenBefore
    <3> QED
      BY <1>7, <3>1
  <2> QED
    BY <2>2, <2>3, <2>4, Fun_IsBij
<1>9. ExistsBijection(Seen, SeenOther)
  BY <1>8 DEF ExistsBijection
<1> QED
  BY <1>9, SeenFinite, FS_Bijection DEF Placeholder

(* Stability: requests that are the same up to the ids a provider minted   *)
(* have the same key, whatever their length and their ids.                 *)
THEOREM KeyIgnoresIds ==
  ASSUME NEW K, NEW V, NEW req \in Requests(K, V), NEW other \in Requests(K, V),
         SameUpToIds(req, other)
  PROVE  normalise_call_ids(req) = normalise_call_ids(other)
<1>1. DOMAIN req = DOMAIN other
  BY Shape DEF SameUpToIds
<1>2. IdPositions(other) = IdPositions(req)
  BY DEF SameUpToIds
<1>3. ASSUME NEW i \in DOMAIN req, i \in IdPositions(req)
      PROVE  <<req[i][1], <<"call", Placeholder(req, i)>>>>
               = <<other[i][1], <<"call", Placeholder(other, i)>>>>
  BY <1>3, SamePlaceholders DEF SameUpToIds
<1>4. ASSUME NEW i \in DOMAIN req, i \notin IdPositions(req)
      PROVE  req[i] = other[i]
  <2>1. req[i] \in K \X V /\ other[i] \in K \X V
    BY <1>1, <1>4, Shape
  <2>2. req[i][1] = other[i][1] /\ req[i][2] = other[i][2]
    BY <1>4 DEF SameUpToIds
  <2> QED
    BY <2>1, <2>2
<1> QED
  BY <1>1, <1>2, <1>3, <1>4 DEF normalise_call_ids

(* Sensitivity: requests with the same key are the same up to their ids:   *)
(* nothing is forgotten of the other fields, nor of which ids are equal.   *)
THEOREM KeyTellsTheRest ==
  ASSUME NEW K, NEW V, NEW req \in Requests(K, V), NEW other \in Requests(K, V),
         MarksApart, normalise_call_ids(req) = normalise_call_ids(other)
  PROVE  SameUpToIds(req, other)
<1> DEFINE n == normalise_call_ids(req)
           o == normalise_call_ids(other)
<1>1. Len(req) = Len(other) /\ DOMAIN req = DOMAIN other
  <2>1. DOMAIN n = DOMAIN req /\ DOMAIN o = DOMAIN other
    BY DEF normalise_call_ids
  <2>2. 1 .. Len(req) = 1 .. Len(other) /\ Len(req) \in Nat /\ Len(other) \in Nat
    BY <2>1, Shape
  <2> QED
    BY <2>2, Shape
<1>2. ASSUME NEW i \in IdPositions(req)
      PROVE  n[i] = <<req[i][1], <<"call", Placeholder(req, i)>>>>
  BY DEF normalise_call_ids, IdPositions
<1>3. ASSUME NEW i \in IdPositions(other)
      PROVE  o[i] = <<other[i][1], <<"call", Placeholder(other, i)>>>>
  BY DEF normalise_call_ids, IdPositions
<1>4. ASSUME NEW i \in DOMAIN req, i \notin IdPositions(req)
      PROVE  n[i] = req[i]
  BY <1>4 DEF normalise_call_ids
<1>5. ASSUME NEW i \in DOMAIN other, i \notin IdPositions(other)
      PROVE  o[i] = other[i]
  BY <1>5 DEF normalise_call_ids
<1>6. \A i \in DOMAIN req : Placeholder(req, i) \in Nat /\ Placeholder(other, i) \in Nat
  BY SeenFinite DEF Placeholder
<1>7. \A i \in DOMAIN req : req[i][1] = other[i][1]
  <2> SUFFICES ASSUME NEW i \in DOMAIN req PROVE req[i][1] = other[i][1]
    OBVIOUS
  <2>1. n[i][1] = req[i][1]
    BY <1>2, <1>4
  <2>2. o[i][1] = other[i][1]
    BY <1>1, <1>3, <1>5
  <2> QED
    BY <2>1, <2>2
<1>8. IdPositions(req) = IdPositions(other)
  <2>1. ASSUME NEW i \in IdPositions(req), i \notin IdPositions(other)
        PROVE  FALSE
    <3>1. i \in DOMAIN req /\ i \in DOMAIN other
      BY <1>1 DEF IdPositions
    <3>2. other[i][2] = <<"call", Placeholder(req, i)>>
      BY <1>2, <1>5, <2>1, <3>1
    <3>3. other[i][2] \in {"{", "}"}
      BY <1>7, <2>1, <3>1 DEF IdPositions
    <3> QED
      BY <1>6, <3>1, <3>2, <3>3 DEF MarksApart
  <2>2. ASSUME NEW i \in IdPositions(other), i \notin IdPositions(req)
        PROVE  FALSE
    <3>1. i \in DOMAIN req /\ i \in DOMAIN other
      BY <1>1 DEF IdPositions
    <3>2. req[i][2] = <<"call", Placeholder(other, i)>>
      BY <1>3, <1>4, <2>2, <3>1
    <3>3. req[i][2] \in {"{", "}"}
      BY <1>7, <2>2, <3>1 DEF IdPositions
    <3> QED
      BY <1>6, <3>1, <3>2, <3>3 DEF MarksApart
  <2> QED
    BY <2>1, <2>2
<1>9. \A i \in DOMAIN req : i \notin IdPositions(req) => req[i][2] = other[i][2]
  BY <1>1, <1>4, <1>5, <1>8
<1>10. \A i \in IdPositions(req) : Placeholder(req, i) = Placeholder(other, i)
  BY <1>2, <1>3, <1>8
<1>11. \A i, j \in IdPositions(req) : req[i][2] = req[j][2] <=> other[i][2] = other[j][2]
  BY <1>8, <1>10, PlaceholdersApart
<1> QED
  BY <1>1, <1>7, <1>8, <1>9, <1>11 DEF SameUpToIds

-----------------------------------------------------------------------------
(* What is among the fields of a conversation.                             *)

SheathedHas(x, k, v, d, y) == Has(x, y) \/ Has(ValueWord[<<k, v>>], y) \/ y = d

LEMMA BehindHas ==
  ASSUME NEW X, NEW u \in Seq(X), NEW v \in Seq(X), NEW y
  PROVE  Has(Behind(u, v), y) <=> Has(u, y) \/ Has(v, y)
BY ConcatHas DEF Behind

LEMMA OneHas ==
  ASSUME NEW x, NEW y
  PROVE  Has(<<x>>, y) <=> y = x
BY DEF Has

LEMMA HasSheathed ==
  ASSUME NEW x \in Seq(AllFields), NEW k \in Heads, NEW v \in Values, NEW d \in AllFields, NEW y
  PROVE  Has(Sheathed(x, k, v, d), y) <=> SheathedHas(x, k, v, d, y)
<1> DEFINE p == ValueWord[<<k, v>>]
           z == <<d>>
<1>1. p \in Seq(AllFields) /\ z \in Seq(AllFields) /\ (Has(z, y) <=> y = d)
  BY ValueLast, OneField, OneHas
<1> HIDE DEF p, z
<1>2. Behind(x, p) \in Seq(AllFields)
  BY <1>1, BehindTyped
<1>3. Has(Behind(Behind(x, p), z), y) <=> Has(Behind(x, p), y) \/ Has(z, y)
  <2> DEFINE c == Behind(x, p)
  <2>1. c \in Seq(AllFields)
    BY <1>2
  <2> HIDE DEF c
  <2>2. Has(Behind(c, z), y) <=> Has(c, y) \/ Has(z, y)
    BY <1>1, <2>1, BehindHas
  <2> QED  BY <2>2 DEF c
<1>4. Has(Behind(x, p), y) <=> Has(x, y) \/ Has(p, y)
  BY <1>1, BehindHas
<1> QED  BY <1>1, <1>3, <1>4 DEF Sheathed, SheathedHas, p, z

CallHas(c, y) ==
  \/ y = <<"id", c.id>> \/ y = <<"name", c.name>> \/ y = CallTail(c)
  \/ Has(ValueWord[<<"arguments", c.args>>], y)

ResultHas(r, y) ==
  \/ y = <<"call_id", r.id>> \/ y = ResultTail(r)
  \/ Has(ValueWord[<<"content", r.content>>], y)

MessageHas(m, y) ==
  \/ y = RoleField(m)
  \/ \E j \in DOMAIN m.calls : CallHas(m.calls[j], y)
  \/ \E j \in DOMAIN m.results : ResultHas(m.results[j], y)

LEMMA HasCall ==
  ASSUME NEW c \in CallRecords, NEW y
  PROVE  Has(CallWord[c], y) <=> CallHas(c, y)
<1>1. Has(CallHead(c), y) <=> y = <<"id", c.id>> \/ y = <<"name", c.name>>
  <2> DEFINE a == <<"id", c.id>>
             b == <<"name", c.name>>
  <2>1. CallHead(c) = <<a, b>>
    BY DEF CallHead
  <2> HIDE DEF a, b
  <2>2. Has(<<a, b>>, y) <=> y = a \/ y = b
    BY DEF Has
  <2> QED  BY <2>1, <2>2 DEF a, b
<1>2. Has(Sheathed(CallHead(c), "arguments", c.args, CallTail(c)), y)
        <=> SheathedHas(CallHead(c), "arguments", c.args, CallTail(c), y)
  BY CallShape, HasSheathed
<1> QED  BY <1>1, <1>2, CallShape DEF SheathedHas, CallHas

LEMMA HasResult ==
  ASSUME NEW r \in ResultRecords, NEW y
  PROVE  Has(ResultWord[r], y) <=> ResultHas(r, y)
<1>1. Has(ResultHead(r), y) <=> y = <<"call_id", r.id>>
  BY OneHas DEF ResultHead
<1>2. Has(Sheathed(ResultHead(r), "content", r.content, ResultTail(r)), y)
        <=> SheathedHas(ResultHead(r), "content", r.content, ResultTail(r), y)
  BY ResultShape, HasSheathed
<1> QED  BY <1>1, <1>2, ResultShape DEF SheathedHas, ResultHas

LEMMA WordsHave ==
  ASSUME NEW X, NEW R, NEW f, IsMap(f, R, Seq(X)), NEW s \in Seq(R), NEW y
  PROVE  Has(FlattenSeq(Map(f, s)), y) <=> \E j \in DOMAIN s : Has(f[s[j]], y)
<1> DEFINE w == Map(f, s)
<1>1. w \in Seq(Seq(X)) /\ DOMAIN w = DOMAIN s /\ \A j \in DOMAIN s : w[j] = f[s[j]]
  <2>1. DOMAIN s = 1 .. Len(s)
    BY LenProperties
  <2> DEFINE Y == Seq(X)
  <2>2. IsMap(f, R, Y)
    OBVIOUS
  <2> HIDE DEF Y
  <2>3. w \in Seq(Y) /\ DOMAIN w = DOMAIN s /\ \A j \in 1 .. Len(s) : w[j] = f[s[j]]
    BY <2>2, MapTyped
  <2> QED  BY <2>1, <2>3 DEF Y
<1> HIDE DEF w
<1>2. Has(FlattenSeq(w), y) <=> \E j \in DOMAIN w : Has(w[j], y)
  BY <1>1, FlattenHas
<1> QED  BY <1>1, <1>2 DEF w

LEMMA HasMessage ==
  ASSUME NEW m \in MessageRecords, NEW y
  PROVE  Has(MessageWord[m], y) <=> MessageHas(m, y)
<1> DEFINE x == <<RoleField(m)>>
           p == FlattenSeq(Map(CallWord, m.calls))
           q == FlattenSeq(Map(ResultWord, m.results))
<1>1. /\ m.calls \in Seq(CallRecords) /\ m.results \in Seq(ResultRecords)
      /\ x \in Seq(AllFields) /\ MessageWord[m] = Behind(Behind(x, p), q)
  BY MessageShape, OneField DEF Called, After, Behind
<1>2. p \in Seq(AllFields) /\ q \in Seq(AllFields)
  BY <1>1, CallWords, ResultWords, AfterIs
<1>3. /\ Has(x, y) <=> y = RoleField(m)
      /\ Has(p, y) <=> \E j \in DOMAIN m.calls : CallHas(m.calls[j], y)
      /\ Has(q, y) <=> \E j \in DOMAIN m.results : ResultHas(m.results[j], y)
  <2>1. Has(x, y) <=> y = RoleField(m)
    BY OneHas
  <2>2. Has(p, y) <=> \E j \in DOMAIN m.calls : Has(CallWord[m.calls[j]], y)
    BY <1>1, CallWords, WordsHave
  <2>3. \A j \in DOMAIN m.calls : m.calls[j] \in CallRecords
    BY <1>1, LenProperties
  <2>4. Has(q, y) <=> \E j \in DOMAIN m.results : Has(ResultWord[m.results[j]], y)
    BY <1>1, ResultWords, WordsHave
  <2>5. \A j \in DOMAIN m.results : m.results[j] \in ResultRecords
    BY <1>1, LenProperties
  <2> HIDE DEF x, p, q
  <2>6. Has(p, y) <=> \E j \in DOMAIN m.calls : CallHas(m.calls[j], y)
    BY <2>2, <2>3, HasCall
  <2>7. Has(q, y) <=> \E j \in DOMAIN m.results : ResultHas(m.results[j], y)
    BY <2>4, <2>5, HasResult
  <2> QED  BY <2>1, <2>6, <2>7
<1> HIDE DEF x, p, q
<1>4. Behind(x, p) \in Seq(AllFields)
  BY <1>1, <1>2, BehindTyped
<1> DEFINE c == Behind(x, p)
<1>5. Has(c, y) <=> Has(x, y) \/ Has(p, y)
  BY <1>1, <1>2, BehindHas
<1>6. c \in Seq(AllFields) /\ MessageWord[m] = Behind(c, q)
  BY <1>1, <1>4
<1> HIDE DEF c
<1>7. Has(Behind(c, q), y) <=> Has(c, y) \/ Has(q, y)
  BY <1>2, <1>6, BehindHas
<1> QED  BY <1>3, <1>5, <1>6, <1>7 DEF MessageHas

LEMMA FieldsHave ==
  ASSUME NEW conv \in Seq(MessageRecords), NEW y
  PROVE  Has(Fields(conv), y) <=> \E i \in DOMAIN conv : MessageHas(conv[i], y)
<1>1. \A i \in DOMAIN conv : conv[i] \in MessageRecords
  BY LenProperties
<1>2. Has(FlattenSeq(Map(MessageWord, conv)), y) <=> \E i \in DOMAIN conv : Has(MessageWord[conv[i]], y)
  BY MessageWords, WordsHave
<1> QED  BY <1>1, <1>2, HasMessage, FieldsIs

(* Neither an argument, nor an object that a tool returns, has a key that  *)
(* a provider uses for the ids of calls.                                   *)
NoOwnIds == Keys \cap CallIdKeys = {}

LEMMA OnlyIdsUnderIdKeys ==
  ASSUME NoOwnIds, NEW conv \in Seq(MessageRecords), NEW y, Has(Fields(conv), y),
         y[1] \in CallIdKeys
  PROVE  y[2] \in Ids
<1>1. PICK i \in DOMAIN conv : MessageHas(conv[i], y)
  BY FieldsHave
<1> DEFINE m == conv[i]
<1>2. m \in MessageRecords
  BY LenProperties
<1> HIDE DEF m
<1>3. ASSUME NEW k \in Heads, NEW v \in Values, Has(ValueWord[<<k, v>>], y)
      PROVE  FALSE
  <2>1. ValueWord[<<k, v>>] \in Seq(DataFields)
    BY ValueWordGives DEF Gives
  <2>2. y \in DataFields
    BY <1>3, <2>1, LenProperties DEF Has
  <2>3. y[1] \in Heads
    BY <2>2 DEF DataFields
  <2> QED  BY <2>3 DEF NoOwnIds, Heads, CallIdKeys
<1>4. m.calls \in Seq(CallRecords) /\ m.results \in Seq(ResultRecords)
  BY <1>2, MessageShape
<1>5. CASE y = RoleField(m)
  BY <1>5 DEF RoleField, CallIdKeys
<1>6. CASE \E j \in DOMAIN m.calls : CallHas(m.calls[j], y)
  <2>1. PICK j \in DOMAIN m.calls : CallHas(m.calls[j], y)
    BY <1>6
  <2> DEFINE c == m.calls[j]
  <2>2. c \in CallRecords
    BY <1>4, LenProperties
  <2>3. ~Has(ValueWord[<<"arguments", c.args>>], y)
    BY <1>3, <2>2, CallShape
  <2>4. y = <<"id", c.id>>
    BY <2>1, <2>3 DEF CallHas, CallTail, CallIdKeys
  <2> QED  BY <2>2, <2>4, CallShape
<1>7. CASE \E j \in DOMAIN m.results : ResultHas(m.results[j], y)
  <2>1. PICK j \in DOMAIN m.results : ResultHas(m.results[j], y)
    BY <1>7
  <2> DEFINE c == m.results[j]
  <2>2. c \in ResultRecords
    BY <1>4, LenProperties
  <2>3. ~Has(ValueWord[<<"content", c.content>>], y)
    BY <1>3, <2>2, ResultShape
  <2>4. y = <<"call_id", c.id>>
    BY <2>1, <2>3 DEF ResultHas, ResultTail, CallIdKeys
  <2> QED  BY <2>2, <2>4, ResultShape
<1> QED  BY <1>1, <1>5, <1>6, <1>7 DEF MessageHas, m

(* The ids of a conversation.                                              *)
IdsOf(conv) == {x \in Ids : \E k \in CallIdKeys : Has(Fields(conv), <<k, x>>)}

CalledAs(conv, x) == \E i \in DOMAIN conv : \E j \in DOMAIN conv[i].calls : conv[i].calls[j].id = x

AnsweredAs(conv, x) ==
  \E i \in DOMAIN conv : \E j \in DOMAIN conv[i].results : conv[i].results[j].id = x

LEMMA IdsOfWhich ==
  ASSUME NEW conv \in Seq(MessageRecords), NEW x
  PROVE  x \in IdsOf(conv) <=> CalledAs(conv, x) \/ AnsweredAs(conv, x)
<1>0. ASSUME NEW i \in DOMAIN conv
      PROVE  /\ conv[i] \in MessageRecords
             /\ \A j \in DOMAIN conv[i].calls : conv[i].calls[j] \in CallRecords
             /\ \A j \in DOMAIN conv[i].results : conv[i].results[j] \in ResultRecords
  <2> DEFINE m == conv[i]
  <2>1. m \in MessageRecords
    BY LenProperties
  <2> HIDE DEF m
  <2>2. m.calls \in Seq(CallRecords) /\ m.results \in Seq(ResultRecords)
    BY <2>1, MessageShape
  <2>3. /\ \A j \in DOMAIN m.calls : m.calls[j] \in CallRecords
        /\ \A j \in DOMAIN m.results : m.results[j] \in ResultRecords
    BY <2>2, LenProperties
  <2> QED  BY <2>1, <2>3 DEF m
<1>1. ASSUME CalledAs(conv, x)  PROVE x \in IdsOf(conv)
  <2>1. PICK i \in DOMAIN conv : \E j \in DOMAIN conv[i].calls : conv[i].calls[j].id = x
    BY <1>1 DEF CalledAs
  <2>2. PICK j \in DOMAIN conv[i].calls : conv[i].calls[j].id = x
    BY <2>1
  <2>3. x \in Ids
    BY <1>0, <2>2, CallShape
  <2>4. CallHas(conv[i].calls[j], <<"id", x>>)
    BY <2>2 DEF CallHas
  <2>5. Has(Fields(conv), <<"id", x>>)
    BY <2>4, FieldsHave DEF MessageHas
  <2> QED  BY <2>3, <2>5 DEF IdsOf, CallIdKeys
<1>2. ASSUME AnsweredAs(conv, x)  PROVE x \in IdsOf(conv)
  <2>1. PICK i \in DOMAIN conv : \E j \in DOMAIN conv[i].results : conv[i].results[j].id = x
    BY <1>2 DEF AnsweredAs
  <2>2. PICK j \in DOMAIN conv[i].results : conv[i].results[j].id = x
    BY <2>1
  <2>3. x \in Ids
    BY <1>0, <2>2, ResultShape
  <2>4. ResultHas(conv[i].results[j], <<"call_id", x>>)
    BY <2>2 DEF ResultHas
  <2>5. Has(Fields(conv), <<"call_id", x>>)
    BY <2>4, FieldsHave DEF MessageHas
  <2> QED  BY <2>3, <2>5 DEF IdsOf, CallIdKeys
<1>3. ASSUME x \in IdsOf(conv)  PROVE CalledAs(conv, x) \/ AnsweredAs(conv, x)
  <2>1. PICK k \in CallIdKeys : Has(Fields(conv), <<k, x>>)
    BY <1>3 DEF IdsOf
  <2> DEFINE y == <<k, x>>
  <2>2. PICK i \in DOMAIN conv : MessageHas(conv[i], y)
    BY <2>1, FieldsHave
  <2>3. x \in Ids /\ x \notin Atoms \cup Marks
    BY <1>3, TranscriptAssumption DEF IdsOf, Ids
  <2>4. ASSUME NEW l \in Heads, NEW v \in Values, Has(ValueWord[<<l, v>>], y)
        PROVE  FALSE
    <3>1. ValueWord[<<l, v>>] \in Seq(DataFields)
      BY ValueWordGives DEF Gives
    <3>2. y \in DataFields
      BY <2>4, <3>1, LenProperties DEF Has
    <3> QED  BY <2>3, <3>2 DEF DataFields
  <2>5. k \in CallIdKeys /\ k # "role" /\ k # "name" /\ k # "malformed_arguments" /\ k # "is_error"
    BY DEF CallIdKeys
  <2>6. y # RoleField(conv[i])
    BY <2>5 DEF RoleField
  <2>7. ASSUME NEW j \in DOMAIN conv[i].calls, CallHas(conv[i].calls[j], y)
        PROVE  CalledAs(conv, x)
    <3> DEFINE c == conv[i].calls[j]
    <3>1. c \in CallRecords
      BY <1>0
    <3>2. ~Has(ValueWord[<<"arguments", c.args>>], y)
      BY <2>4, <3>1, CallShape
    <3>3. y = <<"id", c.id>>
      BY <2>5, <2>7, <3>2 DEF CallHas, CallTail
    <3> QED  BY <3>3 DEF CalledAs
  <2>8. ASSUME NEW j \in DOMAIN conv[i].results, ResultHas(conv[i].results[j], y)
        PROVE  AnsweredAs(conv, x)
    <3> DEFINE c == conv[i].results[j]
    <3>1. c \in ResultRecords
      BY <1>0
    <3>2. ~Has(ValueWord[<<"content", c.content>>], y)
      BY <2>4, <3>1, ResultShape
    <3>3. y = <<"call_id", c.id>>
      BY <2>5, <2>8, <3>2 DEF ResultHas, ResultTail
    <3> QED  BY <3>3 DEF AnsweredAs
  <2> QED  BY <2>2, <2>6, <2>7, <2>8 DEF MessageHas
<1> QED  BY <1>1, <1>2, <1>3

OneToOne(rho, S) == \A x, y \in S : rho[x] = rho[y] => x = y

LEMMA FieldIs ==
  ASSUME NEW conv \in Seq(MessageRecords), NEW i \in DOMAIN Fields(conv)
  PROVE  /\ Fields(conv)[i] \in AllFields /\ Has(Fields(conv), Fields(conv)[i])
         /\ Fields(conv)[i] = <<Fields(conv)[i][1], Fields(conv)[i][2]>>
         /\ Fields(conv)[i][1] \in CallIdKeys /\ Fields(conv)[i][2] \in Ids
              => Fields(conv)[i][2] \in IdsOf(conv)
         /\ Fields(conv)[i][1] \in CallIdKeys /\ NoOwnIds => Fields(conv)[i][2] \in Ids
<1> DEFINE w == Fields(conv)
           x == w[i]
<1>1. w \in Seq(AllFields)
  BY FieldsIs
<1>2. x \in AllFields /\ Has(w, x)
  <2>1. i \in DOMAIN w
    OBVIOUS
  <2> HIDE DEF w
  <2>2. w[i] \in AllFields
    BY <1>1, <2>1, LenProperties
  <2>3. Has(w, w[i])
    BY <2>1 DEF Has
  <2> QED  BY <2>2, <2>3
<1>3. x = <<x[1], x[2]>>
  BY <1>2 DEF AllFields
<1>4. ASSUME x[1] \in CallIdKeys, x[2] \in Ids  PROVE x[2] \in IdsOf(conv)
  <2> HIDE DEF x
  <2>1. Has(w, <<x[1], x[2]>>)
    BY <1>2, <1>3
  <2> QED  BY <1>4, <2>1 DEF IdsOf
<1>5. ASSUME x[1] \in CallIdKeys, NoOwnIds  PROVE x[2] \in Ids
  <2> HIDE DEF x
  <2> QED  BY <1>2, <1>5, OnlyIdsUnderIdKeys
<1> QED  BY <1>2, <1>3, <1>4, <1>5

LEMMA RenamedField ==
  ASSUME NEW rho, IsRenaming(rho), NEW conv \in Seq(MessageRecords)
  PROVE  /\ Len(Fields(Rename(rho, conv))) = Len(Fields(conv))
         /\ DOMAIN Fields(Rename(rho, conv)) = DOMAIN Fields(conv)
         /\ \A i \in DOMAIN Fields(conv) :
              Fields(Rename(rho, conv))[i] = RenameField(rho)[Fields(conv)[i]]
<1> DEFINE req == Fields(conv)
           h == RenameField(rho)
<1>1. req \in Seq(AllFields) /\ Fields(Rename(rho, conv)) = Map(h, req) /\ IsMap(h, AllFields, AllFields)
  BY FieldsIs, RenameFields, RenameTyped
<1> HIDE DEF req, h
<1>2. /\ Len(Map(h, req)) = Len(req) /\ DOMAIN Map(h, req) = DOMAIN req
      /\ \A j \in DOMAIN req : Map(h, req)[j] = h[req[j]]
  <2>1. Len(Map(h, req)) = Len(req) /\ DOMAIN Map(h, req) = DOMAIN req
    BY <1>1, MapTyped
  <2> QED  BY <2>1 DEF Map
<1> QED  BY <1>1, <1>2 DEF req, h

(* A renaming that keeps ids apart changes nothing of a request but ids.   *)
LEMMA RenamedIsSame ==
  ASSUME NEW rho, IsRenaming(rho), NEW conv \in Seq(MessageRecords),
         OneToOne(rho, IdsOf(conv))
  PROVE  SameUpToIds(Fields(conv), Fields(Rename(rho, conv)))
<1> DEFINE req == Fields(conv)
           other == Fields(Rename(rho, conv))
<1>1. /\ Len(other) = Len(req) /\ DOMAIN other = DOMAIN req
      /\ \A i \in DOMAIN req : other[i] = RenameField(rho)[req[i]]
  BY RenamedField
<1>2. \A i \in DOMAIN req :
        /\ req[i] \in AllFields /\ req[i] = <<req[i][1], req[i][2]>>
        /\ req[i][1] \in CallIdKeys /\ req[i][2] \in Ids => req[i][2] \in IdsOf(conv)
  BY FieldIs
<1> HIDE DEF req, other
<1>3. Ids \cap Marks = {}
  BY TranscriptAssumption DEF Ids
<1>4. ASSUME NEW i \in DOMAIN req
      PROVE  /\ other[i][1] = req[i][1]
             /\ (req[i][1] \in CallIdKeys /\ req[i][2] \in Ids) =>
                  (req[i][2] \in IdsOf(conv) /\ other[i][2] = rho[req[i][2]] /\ other[i][2] \in Ids)
             /\ ~(req[i][1] \in CallIdKeys /\ req[i][2] \in Ids) => other[i][2] = req[i][2]
  <2>1. other[i] = IF req[i][1] \in CallIdKeys /\ req[i][2] \in Ids
                     THEN <<req[i][1], rho[req[i][2]]>> ELSE req[i]
    BY <1>1, <1>2 DEF RenameField
  <2>2. req[i][2] \in Ids => rho[req[i][2]] \in Ids
    BY DEF IsRenaming
  <2> QED  BY <1>2, <2>1, <2>2
<1>5. IdPositions(req) = IdPositions(other)
  <2>1. \A i \in DOMAIN req : req[i][2] \in Marks <=> other[i][2] \in Marks
    BY <1>3, <1>4
  <2> QED  BY <1>1, <1>4, <2>1 DEF IdPositions, Marks
<1>6. ASSUME NEW i \in DOMAIN req, i \notin IdPositions(req)  PROVE req[i][2] = other[i][2]
  BY <1>3, <1>4, <1>6 DEF IdPositions, Marks
<1>7. ASSUME NEW i \in IdPositions(req), NEW j \in IdPositions(req)
      PROVE  req[i][2] = req[j][2] <=> other[i][2] = other[j][2]
  <2>1. /\ i \in DOMAIN req /\ req[i][1] \in CallIdKeys
        /\ j \in DOMAIN req /\ req[j][1] \in CallIdKeys
    BY DEF IdPositions
  <2>2. CASE req[i][2] \in Ids /\ req[j][2] \in Ids
    BY <1>4, <2>1, <2>2 DEF OneToOne
  <2>3. CASE ~(req[i][2] \in Ids /\ req[j][2] \in Ids)
    BY <1>4, <2>1, <2>3
  <2> QED  BY <2>2, <2>3
<1>8. \A i \in DOMAIN req : req[i][1] = other[i][1] /\ (i \notin IdPositions(req) => req[i][2] = other[i][2])
  BY <1>4, <1>6
<1>9. SameUpToIds(req, other)
  BY <1>1, <1>5, <1>7, <1>8 DEF SameUpToIds
<1> QED  BY <1>9 DEF req, other

(* Requests that are the same up to ids are of conversations that are.     *)
LEMMA SameIsRenamed ==
  ASSUME NoOwnIds, NEW conv \in Seq(MessageRecords), NEW given \in Seq(MessageRecords),
         SameUpToIds(Fields(conv), Fields(given))
  PROVE  \E rho : IsRenaming(rho) /\ OneToOne(rho, IdsOf(conv)) /\ given = Rename(rho, conv)
<1> DEFINE req == Fields(conv)
           other == Fields(given)
           Place(v) == CHOOSE k \in IdPositions(req) : req[k][2] = v
           occ == {req[i][2] : i \in IdPositions(req)}
           rho == [v \in Ids |-> IF v \in occ THEN other[Place(v)][2] ELSE v]
<1>1. SameUpToIds(req, other)
  OBVIOUS
<1>2. \A i \in DOMAIN req :
        /\ req[i] \in AllFields /\ req[i] = <<req[i][1], req[i][2]>>
        /\ req[i][1] \in CallIdKeys => req[i][2] \in Ids
  BY FieldIs
<1>3. \A i \in DOMAIN other :
        /\ other[i] \in AllFields /\ other[i] = <<other[i][1], other[i][2]>>
        /\ other[i][1] \in CallIdKeys => other[i][2] \in Ids
  BY FieldIs
<1>4. req \in Seq(AllFields) /\ other \in Seq(AllFields)
  BY FieldsIs
<1>5. \A x \in IdsOf(conv) : x \in Ids /\ \E i \in DOMAIN req : req[i][1] \in CallIdKeys /\ req[i][2] = x
  <2> SUFFICES ASSUME NEW x \in IdsOf(conv)
               PROVE  x \in Ids /\ \E i \in DOMAIN req : req[i][1] \in CallIdKeys /\ req[i][2] = x
    OBVIOUS
  <2>1. x \in Ids /\ \E k \in CallIdKeys : Has(req, <<k, x>>)
    BY DEF IdsOf
  <2>2. PICK k \in CallIdKeys : Has(req, <<k, x>>)
    BY <2>1
  <2>3. PICK i \in DOMAIN req : req[i] = <<k, x>>
    BY <2>2 DEF Has
  <2> QED  BY <2>1, <2>3
<1> HIDE DEF req, other
<1>6. Ids \cap Marks = {}
  BY TranscriptAssumption DEF Ids
<1>7. /\ Len(req) = Len(other) /\ IdPositions(req) = IdPositions(other)
      /\ \A i \in DOMAIN req : req[i][1] = other[i][1] /\ (i \notin IdPositions(req) => req[i][2] = other[i][2])
      /\ \A i, j \in IdPositions(req) : req[i][2] = req[j][2] <=> other[i][2] = other[j][2]
  BY <1>1 DEF SameUpToIds
<1>8. DOMAIN req = 1 .. Len(req) /\ DOMAIN other = DOMAIN req
  BY <1>4, <1>7, LenProperties
<1>9. \A i \in DOMAIN req : i \in IdPositions(req) <=> req[i][1] \in CallIdKeys
  BY <1>2, <1>6 DEF IdPositions, Marks
<1>10. \A i \in IdPositions(req) : i \in DOMAIN req /\ req[i][2] \in Ids /\ other[i][2] \in Ids
  <2>1. \A i \in IdPositions(req) : i \in DOMAIN req
    BY DEF IdPositions
  <2> QED  BY <1>2, <1>3, <1>7, <1>8, <1>9, <2>1
<1>11. \A i \in IdPositions(req) : rho[req[i][2]] = other[i][2]
  <2> SUFFICES ASSUME NEW i \in IdPositions(req)  PROVE rho[req[i][2]] = other[i][2]
    OBVIOUS
  <2> DEFINE k == Place(req[i][2])
  <2>1. k \in IdPositions(req) /\ req[k][2] = req[i][2]
    OBVIOUS
  <2>2. rho[req[i][2]] = other[k][2]
    BY <1>10
  <2> QED  BY <1>7, <2>1, <2>2
<1>12. IsRenaming(rho)
  <2> SUFFICES ASSUME NEW v \in Ids  PROVE rho[v] \in Ids
    BY DEF IsRenaming
  <2>1. CASE v \in occ
    <3>1. PICK i \in IdPositions(req) : v = req[i][2]
      BY <2>1
    <3> HIDE DEF rho
    <3> QED  BY <1>10, <1>11, <3>1
  <2>2. CASE v \notin occ
    BY <2>2
  <2> QED  BY <2>1, <2>2
<1>13. OneToOne(rho, IdsOf(conv))
  <2> SUFFICES ASSUME NEW x \in IdsOf(conv), NEW y \in IdsOf(conv), rho[x] = rho[y]
               PROVE  x = y
    BY DEF OneToOne
  <2> HIDE DEF rho
  <2>1. PICK i \in IdPositions(req) : req[i][2] = x
    BY <1>5, <1>9
  <2>2. PICK j \in IdPositions(req) : req[j][2] = y
    BY <1>5, <1>9
  <2> QED  BY <1>7, <1>11, <2>1, <2>2
<1> HIDE DEF rho
<1>14. \A i \in DOMAIN req : other[i] = RenameField(rho)[req[i]]
  <2> SUFFICES ASSUME NEW i \in DOMAIN req  PROVE other[i] = RenameField(rho)[req[i]]
    OBVIOUS
  <2>1. RenameField(rho)[req[i]] = IF req[i][1] \in CallIdKeys /\ req[i][2] \in Ids
                                     THEN <<req[i][1], rho[req[i][2]]>> ELSE req[i]
    BY <1>2 DEF RenameField
  <2>2. CASE i \in IdPositions(req)
    BY <1>3, <1>7, <1>8, <1>9, <1>10, <1>11, <2>1, <2>2
  <2>3. CASE i \notin IdPositions(req)
    <3>1. other[i][1] = req[i][1] /\ other[i][2] = req[i][2]
      BY <1>7, <2>3
    <3>2. other[i] = <<other[i][1], other[i][2]>> /\ req[i] = <<req[i][1], req[i][2]>>
      BY <1>2, <1>3, <1>8
    <3>3. other[i] = req[i]
      BY <3>1, <3>2
    <3>4. RenameField(rho)[req[i]] = req[i]
      BY <1>9, <2>1, <2>3
    <3> QED  BY <3>3, <3>4
  <2> QED  BY <2>2, <2>3
<1>15. Rename(rho, conv) \in Seq(MessageRecords) /\ Fields(Rename(rho, conv)) \in Seq(AllFields)
  <2>1. Rename(rho, conv) \in Seq(MessageRecords)
    BY <1>12, RenameFields
  <2> QED  BY <2>1, FieldsIs
<1>16. Fields(Rename(rho, conv)) = other
  <2> DEFINE w == Fields(Rename(rho, conv))
  <2>1. Len(w) = Len(req) /\ \A i \in DOMAIN req : w[i] = RenameField(rho)[req[i]]
    BY <1>12, RenamedField DEF req
  <2>2. w \in Seq(AllFields)
    BY <1>15
  <2> HIDE DEF w
  <2>3. \A i \in 1 .. Len(w) : w[i] = other[i]
    BY <1>8, <1>14, <2>1
  <2>4. w = other
    BY <1>4, <1>7, <2>1, <2>2, <2>3, SeqEqual
  <2> QED  BY <2>4 DEF w
<1>17. given = Rename(rho, conv)
  BY <1>15, <1>16, FieldsTell DEF other
<1> QED  BY <1>12, <1>13, <1>17

-----------------------------------------------------------------------------
(* The calls of a conversation, and what a provider reads in it.           *)

CallsOf == [m \in MessageRecords |-> m.calls]

LEMMA CallsIs ==
  ASSUME NEW conv \in Seq(MessageRecords)
  PROVE  /\ IsMap(CallsOf, MessageRecords, Seq(CallRecords))
         /\ Calls(conv) = FlattenSeq(Map(CallsOf, conv))
         /\ Calls(conv) \in Seq(CallRecords)
<1>1. IsMap(CallsOf, MessageRecords, Seq(CallRecords))
  BY DEF IsMap, CallsOf, MessageRecords
<1>2. \A i \in DOMAIN conv : conv[i] \in MessageRecords
  BY LenProperties
<1>3. [i \in DOMAIN conv |-> conv[i].calls] = Map(CallsOf, conv)
  BY <1>2 DEF Map, CallsOf
<1>4. <<>> \in Seq(CallRecords)
  BY EmptySeq
<1>5. FlattenSeq(Map(CallsOf, conv)) \in Seq(CallRecords)
  BY <1>1, <1>4, AfterIs
<1> QED  BY <1>1, <1>3, <1>5 DEF Calls

LEMMA CallsHave ==
  ASSUME NEW conv \in Seq(MessageRecords), NEW c
  PROVE  Has(Calls(conv), c) <=> \E i \in DOMAIN conv : Has(conv[i].calls, c)
<1>1. \A i \in DOMAIN conv : conv[i] \in MessageRecords
  BY LenProperties
<1>2. \A i \in DOMAIN conv : CallsOf[conv[i]] = conv[i].calls
  BY <1>1 DEF CallsOf
<1>3. Has(FlattenSeq(Map(CallsOf, conv)), c) <=> \E i \in DOMAIN conv : Has(CallsOf[conv[i]], c)
  BY CallsIs, WordsHave
<1> QED  BY <1>2, <1>3, CallsIs

LEMMA CallOf ==
  ASSUME NEW conv \in Seq(MessageRecords), NEW k \in DOMAIN Calls(conv)
  PROVE  /\ Calls(conv)[k] \in CallRecords /\ Calls(conv)[k].id \in Ids
         /\ CalledAs(conv, Calls(conv)[k].id) /\ Calls(conv)[k].id \in IdsOf(conv)
<1> DEFINE s == Calls(conv)
           c == s[k]
<1>1. s \in Seq(CallRecords) /\ k \in DOMAIN s
  BY CallsIs
<1>2. c \in CallRecords /\ Has(s, c)
  <2> HIDE DEF s
  <2>1. s[k] \in CallRecords
    BY <1>1, LenProperties
  <2>2. Has(s, s[k])
    BY <1>1 DEF Has
  <2> QED  BY <2>1, <2>2
<1> HIDE DEF c
<1>3. PICK i \in DOMAIN conv : Has(conv[i].calls, c)
  BY <1>2, CallsHave
<1>4. CalledAs(conv, c.id)
  BY <1>3 DEF CalledAs, Has
<1>5. c.id \in Ids
  BY <1>2, CallShape
<1>6. c.id \in IdsOf(conv)
  BY <1>4, IdsOfWhich
<1> QED  BY <1>2, <1>4, <1>5, <1>6 DEF c, s

LEMMA RenamedCalls ==
  ASSUME NEW rho, IsRenaming(rho), NEW conv \in Seq(MessageRecords)
  PROVE  /\ DOMAIN Calls(Rename(rho, conv)) = DOMAIN Calls(conv)
         /\ \A k \in DOMAIN Calls(conv) :
              Calls(Rename(rho, conv))[k] = RenameCall(rho)[Calls(conv)[k]]
<1> DEFINE g == RenameMessage(rho)
           h == RenameCall(rho)
<1>1. IsMap(g, MessageRecords, MessageRecords) /\ IsMap(h, CallRecords, CallRecords)
  BY RenameTyped
<1>2. Renames(h, CallsOf, g, MessageRecords)
  <2> SUFFICES ASSUME NEW m \in MessageRecords  PROVE Map(h, CallsOf[m]) = CallsOf[g[m]]
    BY DEF Renames
  <2>1. g[m] \in MessageRecords /\ g[m].calls = Map(h, m.calls)
    BY <1>1 DEF IsMap, RenameMessage
  <2>2. CallsOf[m] = m.calls /\ CallsOf[g[m]] = g[m].calls
    BY <2>1 DEF CallsOf
  <2> QED  BY <2>1, <2>2
<1>3. Rename(rho, conv) = Map(g, conv) /\ Rename(rho, conv) \in Seq(MessageRecords)
  BY RenameFields DEF Rename
<1> HIDE DEF g, h
<1>4. Calls(Rename(rho, conv)) = Map(h, Calls(conv))
  <2>1. Map(h, FlattenSeq(Map(CallsOf, conv))) = FlattenSeq(Map(CallsOf, Map(g, conv)))
    BY <1>1, <1>2, CallsIs, RenameWords
  <2>2. Calls(Rename(rho, conv)) = FlattenSeq(Map(CallsOf, Rename(rho, conv)))
    BY <1>3, CallsIs
  <2>3. Calls(conv) = FlattenSeq(Map(CallsOf, conv))
    BY CallsIs
  <2> QED  BY <1>3, <2>1, <2>2, <2>3
<1>5. DOMAIN Map(h, Calls(conv)) = DOMAIN Calls(conv)
      /\ \A k \in DOMAIN Calls(conv) : Map(h, Calls(conv))[k] = h[Calls(conv)[k]]
  BY DEF Map
<1> QED  BY <1>4, <1>5 DEF h

(* The calls that an id stands for.                                        *)
Asking(conv, x) == {k \in DOMAIN Calls(conv) : Calls(conv)[k].id = x}

ReadCall(c) == [c EXCEPT !.id = "any"]

ReadResult(conv, r) == [r EXCEPT !.id = Asking(conv, r.id)]

ReadMessage(conv, m) ==
  [role    |-> m.role,
   calls   |-> [j \in DOMAIN m.calls |-> ReadCall(m.calls[j])],
   results |-> [j \in DOMAIN m.results |-> ReadResult(conv, m.results[j])]]

LEMMA ReadingIs ==
  ASSUME NEW conv
  PROVE  Reading(conv) = [i \in DOMAIN conv |-> ReadMessage(conv, conv[i])]
BY DEF Reading, ReadMessage, ReadCall, ReadResult, Asking

LEMMA MessageOf ==
  ASSUME NEW conv \in Seq(MessageRecords), NEW i \in DOMAIN conv
  PROVE  /\ conv[i] \in MessageRecords
         /\ conv[i].calls \in Seq(CallRecords) /\ conv[i].results \in Seq(ResultRecords)
         /\ \A j \in DOMAIN conv[i].calls :
              conv[i].calls[j] \in CallRecords /\ conv[i].calls[j].id \in Ids
         /\ \A j \in DOMAIN conv[i].results :
              conv[i].results[j] \in ResultRecords /\ conv[i].results[j].id \in Ids
<1> DEFINE m == conv[i]
<1>1. m \in MessageRecords
  BY LenProperties
<1> HIDE DEF m
<1>2. m.calls \in Seq(CallRecords) /\ m.results \in Seq(ResultRecords)
  BY <1>1, MessageShape
<1>3. \A j \in DOMAIN m.calls : m.calls[j] \in CallRecords
  BY <1>2, LenProperties
<1>4. \A j \in DOMAIN m.results : m.results[j] \in ResultRecords
  BY <1>2, LenProperties
<1> QED  BY <1>1, <1>2, <1>3, <1>4, CallShape, ResultShape DEF m

LEMMA RenamedMessage ==
  ASSUME NEW rho, IsRenaming(rho), NEW m \in MessageRecords
  PROVE  LET n == RenameMessage(rho)[m] IN
         /\ n.role = m.role
         /\ DOMAIN n.calls = DOMAIN m.calls /\ DOMAIN n.results = DOMAIN m.results
         /\ \A j \in DOMAIN m.calls : n.calls[j] = [m.calls[j] EXCEPT !.id = rho[m.calls[j].id]]
         /\ \A j \in DOMAIN m.results :
              n.results[j] = [m.results[j] EXCEPT !.id = rho[m.results[j].id]]
<1> DEFINE n == RenameMessage(rho)[m]
<1>1. /\ n.role = m.role /\ n.calls = Map(RenameCall(rho), m.calls)
      /\ n.results = Map(RenameResult(rho), m.results)
  BY DEF RenameMessage
<1> HIDE DEF n
<1>2. m.calls \in Seq(CallRecords) /\ m.results \in Seq(ResultRecords)
  BY MessageShape
<1>3. /\ \A j \in DOMAIN m.calls : m.calls[j] \in CallRecords
      /\ \A j \in DOMAIN m.results : m.results[j] \in ResultRecords
  BY <1>2, LenProperties
<1>4. /\ \A j \in DOMAIN m.calls :
           RenameCall(rho)[m.calls[j]] = [m.calls[j] EXCEPT !.id = rho[m.calls[j].id]]
      /\ \A j \in DOMAIN m.results :
           RenameResult(rho)[m.results[j]] = [m.results[j] EXCEPT !.id = rho[m.results[j].id]]
  BY <1>3 DEF RenameCall, RenameResult
<1>5. /\ DOMAIN n.calls = DOMAIN m.calls /\ DOMAIN n.results = DOMAIN m.results
      /\ \A j \in DOMAIN m.calls : n.calls[j] = RenameCall(rho)[m.calls[j]]
      /\ \A j \in DOMAIN m.results : n.results[j] = RenameResult(rho)[m.results[j]]
  BY <1>1 DEF Map
<1> QED  BY <1>1, <1>4, <1>5 DEF n

RenamedTo(rho, m, o) ==
  /\ o.role = m.role /\ DOMAIN o.calls = DOMAIN m.calls /\ DOMAIN o.results = DOMAIN m.results
  /\ \A j \in DOMAIN m.calls : o.calls[j] = [m.calls[j] EXCEPT !.id = rho[m.calls[j].id]]
  /\ \A j \in DOMAIN m.results : o.results[j] = [m.results[j] EXCEPT !.id = rho[m.results[j].id]]

LEMMA RenamedPointwise ==
  ASSUME NEW rho, IsRenaming(rho), NEW m \in MessageRecords, NEW o \in MessageRecords,
         RenamedTo(rho, m, o)
  PROVE  RenameMessage(rho)[m] = o
<1> DEFINE n == RenameMessage(rho)[m]
<1> USE DEF RenamedTo
<1>1. n \in MessageRecords
  BY RenameTyped DEF IsMap
<1>2. /\ n.role = m.role
      /\ DOMAIN n.calls = DOMAIN m.calls /\ DOMAIN n.results = DOMAIN m.results
      /\ \A j \in DOMAIN m.calls : n.calls[j] = [m.calls[j] EXCEPT !.id = rho[m.calls[j].id]]
      /\ \A j \in DOMAIN m.results :
           n.results[j] = [m.results[j] EXCEPT !.id = rho[m.results[j].id]]
  BY RenamedMessage
<1> HIDE DEF n
<1>3. n.calls \in Seq(CallRecords) /\ n.results \in Seq(ResultRecords)
  BY <1>1, MessageShape
<1>4. n.calls = o.calls
  <2> DEFINE u == n.calls
             v == o.calls
  <2>1. u \in Seq(CallRecords) /\ v \in Seq(CallRecords) /\ DOMAIN u = DOMAIN v
    BY <1>2, <1>3, MessageShape
  <2>2. \A j \in DOMAIN u : u[j] = v[j]
    BY <1>2
  <2> HIDE DEF u, v
  <2>3. DOMAIN u = 1 .. Len(u) /\ DOMAIN v = 1 .. Len(v) /\ Len(u) \in Nat /\ Len(v) \in Nat
    BY <2>1, LenProperties
  <2>4. Len(u) = Len(v)
    BY <2>1, OneLength
  <2>5. u = v
    BY <2>1, <2>2, <2>3, <2>4, SeqEqual
  <2> QED  BY <2>5 DEF u, v
<1>5. n.results = o.results
  <2> DEFINE u == n.results
             v == o.results
  <2>1. u \in Seq(ResultRecords) /\ v \in Seq(ResultRecords) /\ DOMAIN u = DOMAIN v
    BY <1>2, <1>3, MessageShape
  <2>2. \A j \in DOMAIN u : u[j] = v[j]
    BY <1>2
  <2> HIDE DEF u, v
  <2>3. DOMAIN u = 1 .. Len(u) /\ DOMAIN v = 1 .. Len(v) /\ Len(u) \in Nat /\ Len(v) \in Nat
    BY <2>1, LenProperties
  <2>4. Len(u) = Len(v)
    BY <2>1, OneLength
  <2>5. u = v
    BY <2>1, <2>2, <2>3, <2>4, SeqEqual
  <2> QED  BY <2>5 DEF u, v
<1>6. n = o
  <2>1. n = [role |-> n.role, calls |-> n.calls, results |-> n.results]
    BY <1>1, MessageShape
  <2>2. o = [role |-> o.role, calls |-> o.calls, results |-> o.results]
    BY MessageShape
  <2>3. n.role = o.role
    BY <1>2
  <2> QED  BY <1>4, <1>5, <2>1, <2>2, <2>3
<1> QED  BY <1>6 DEF n

(* A provider reads the same whatever the ids are, as long as they are     *)
(* kept apart.                                                             *)
LEMMA RenamedReads ==
  ASSUME NEW rho, IsRenaming(rho), NEW conv \in Seq(MessageRecords),
         OneToOne(rho, IdsOf(conv))
  PROVE  Same(conv, Rename(rho, conv))
<1> DEFINE other == Rename(rho, conv)
<1>1. /\ other \in Seq(MessageRecords) /\ DOMAIN other = DOMAIN conv
      /\ \A i \in DOMAIN conv : other[i] = RenameMessage(rho)[conv[i]]
  BY RenameFields DEF Rename, Map
<1>2. /\ DOMAIN Calls(other) = DOMAIN Calls(conv)
      /\ \A k \in DOMAIN Calls(conv) : Calls(other)[k] = RenameCall(rho)[Calls(conv)[k]]
  BY RenamedCalls
<1> HIDE DEF other
<1>3. \A k \in DOMAIN Calls(conv) : Calls(other)[k].id = rho[Calls(conv)[k].id]
  <2> SUFFICES ASSUME NEW k \in DOMAIN Calls(conv)
               PROVE  Calls(other)[k].id = rho[Calls(conv)[k].id]
    OBVIOUS
  <2> DEFINE c == Calls(conv)[k]
  <2>1. c \in CallRecords
    BY CallOf
  <2> HIDE DEF c
  <2>2. RenameCall(rho)[c].id = rho[c.id]
    BY <2>1 DEF RenameCall, CallRecords
  <2> QED  BY <1>2, <2>2 DEF c
<1>4. ASSUME NEW x \in IdsOf(conv)
      PROVE  Asking(conv, x) = Asking(other, rho[x])
  <2>1. \A k \in DOMAIN Calls(conv) : Calls(conv)[k].id \in IdsOf(conv)
    BY CallOf
  <2> QED  BY <1>2, <1>3, <2>1 DEF Asking, OneToOne
<1>5. ASSUME NEW i \in DOMAIN conv
      PROVE  ReadMessage(conv, conv[i]) = ReadMessage(other, other[i])
  <2> DEFINE m == conv[i]
             n == RenameMessage(rho)[m]
  <2>1. /\ m \in MessageRecords
        /\ \A j \in DOMAIN m.calls : m.calls[j] \in CallRecords
        /\ \A j \in DOMAIN m.results : m.results[j] \in ResultRecords
        /\ \A j \in DOMAIN m.results : m.results[j].id \in IdsOf(conv)
    BY MessageOf, IdsOfWhich DEF AnsweredAs
  <2> HIDE DEF m
  <2>2. /\ n.role = m.role
        /\ DOMAIN n.calls = DOMAIN m.calls /\ DOMAIN n.results = DOMAIN m.results
        /\ \A j \in DOMAIN m.calls : n.calls[j] = [m.calls[j] EXCEPT !.id = rho[m.calls[j].id]]
        /\ \A j \in DOMAIN m.results :
             n.results[j] = [m.results[j] EXCEPT !.id = rho[m.results[j].id]]
    BY <2>1, RenamedMessage
  <2> HIDE DEF n
  <2>3. ASSUME NEW j \in DOMAIN m.calls
        PROVE  ReadCall(n.calls[j]) = ReadCall(m.calls[j])
    BY <2>1, <2>2 DEF ReadCall, CallRecords
  <2>4. ASSUME NEW j \in DOMAIN m.results
        PROVE  ReadResult(other, n.results[j]) = ReadResult(conv, m.results[j])
    <3> DEFINE r == m.results[j]
               q == n.results[j]
    <3>1. r \in ResultRecords /\ q = [r EXCEPT !.id = rho[r.id]] /\ r.id \in IdsOf(conv)
      BY <2>1, <2>2
    <3> HIDE DEF r, q
    <3>2. q.id = rho[r.id]
      BY <3>1 DEF ResultRecords
    <3>3. Asking(other, q.id) = Asking(conv, r.id)
      BY <1>4, <3>1, <3>2
    <3>4. ReadResult(other, q) = ReadResult(conv, r)
      BY <3>1, <3>3 DEF ReadResult, ResultRecords
    <3> QED  BY <3>4 DEF r, q
  <2>5. ReadMessage(conv, m) = ReadMessage(other, n)
    BY <2>2, <2>3, <2>4 DEF ReadMessage
  <2> QED  BY <1>1, <2>5 DEF m, n
<1>6. Reading(conv) = Reading(other)
  BY <1>1, <1>5, ReadingIs
<1> QED  BY <1>6 DEF Same, other

(* What conversations have in common that read the same.                   *)
Corresponds(c, d) ==
  /\ DOMAIN c = DOMAIN d
  /\ \A i \in DOMAIN c :
       /\ c[i].role = d[i].role
       /\ DOMAIN c[i].calls = DOMAIN d[i].calls
       /\ DOMAIN c[i].results = DOMAIN d[i].results
       /\ \A j \in DOMAIN c[i].calls :
            d[i].calls[j] = [c[i].calls[j] EXCEPT !.id = d[i].calls[j].id]
       /\ \A j \in DOMAIN c[i].results :
            /\ d[i].results[j] = [c[i].results[j] EXCEPT !.id = d[i].results[j].id]
            /\ Asking(c, c[i].results[j].id) = Asking(d, d[i].results[j].id)

LEMMA SameCorresponds ==
  ASSUME NEW c \in Seq(MessageRecords), NEW d \in Seq(MessageRecords), Same(c, d)
  PROVE  Corresponds(c, d)
<1>1. [i \in DOMAIN c |-> ReadMessage(c, c[i])] = [i \in DOMAIN d |-> ReadMessage(d, d[i])]
  BY ReadingIs DEF Same
<1>2. DOMAIN c = DOMAIN d /\ \A i \in DOMAIN c : ReadMessage(c, c[i]) = ReadMessage(d, d[i])
  <2> DEFINE f == [i \in DOMAIN c |-> ReadMessage(c, c[i])]
             g == [i \in DOMAIN d |-> ReadMessage(d, d[i])]
  <2>1. DOMAIN f = DOMAIN c /\ DOMAIN g = DOMAIN d /\ f = g
    BY <1>1
  <2>2. \A i \in DOMAIN c : f[i] = ReadMessage(c, c[i])
    OBVIOUS
  <2>3. \A i \in DOMAIN d : g[i] = ReadMessage(d, d[i])
    OBVIOUS
  <2> HIDE DEF f, g
  <2> QED  BY <2>1, <2>2, <2>3
<1>3. ASSUME NEW i \in DOMAIN c
      PROVE  /\ c[i].role = d[i].role
             /\ DOMAIN c[i].calls = DOMAIN d[i].calls
             /\ DOMAIN c[i].results = DOMAIN d[i].results
             /\ \A j \in DOMAIN c[i].calls : ReadCall(c[i].calls[j]) = ReadCall(d[i].calls[j])
             /\ \A j \in DOMAIN c[i].results :
                  ReadResult(c, c[i].results[j]) = ReadResult(d, d[i].results[j])
  <2> DEFINE m == c[i]
             n == d[i]
  <2>1. ReadMessage(c, m) = ReadMessage(d, n)
    BY <1>2
  <2> HIDE DEF m, n
  <2>2. /\ m.role = n.role
        /\ [j \in DOMAIN m.calls |-> ReadCall(m.calls[j])] = [j \in DOMAIN n.calls |-> ReadCall(n.calls[j])]
        /\ [j \in DOMAIN m.results |-> ReadResult(c, m.results[j])]
             = [j \in DOMAIN n.results |-> ReadResult(d, n.results[j])]
    BY <2>1 DEF ReadMessage
  <2> DEFINE f == [j \in DOMAIN m.calls |-> ReadCall(m.calls[j])]
             g == [j \in DOMAIN n.calls |-> ReadCall(n.calls[j])]
             p == [j \in DOMAIN m.results |-> ReadResult(c, m.results[j])]
             q == [j \in DOMAIN n.results |-> ReadResult(d, n.results[j])]
  <2>3. /\ DOMAIN f = DOMAIN m.calls /\ \A j \in DOMAIN m.calls : f[j] = ReadCall(m.calls[j])
        /\ DOMAIN g = DOMAIN n.calls /\ \A j \in DOMAIN n.calls : g[j] = ReadCall(n.calls[j])
        /\ DOMAIN p = DOMAIN m.results /\ \A j \in DOMAIN m.results : p[j] = ReadResult(c, m.results[j])
        /\ DOMAIN q = DOMAIN n.results /\ \A j \in DOMAIN n.results : q[j] = ReadResult(d, n.results[j])
    OBVIOUS
  <2>4. f = g /\ p = q
    BY <2>2
  <2> HIDE DEF f, g, p, q
  <2>5. /\ DOMAIN m.calls = DOMAIN n.calls /\ DOMAIN m.results = DOMAIN n.results
        /\ \A j \in DOMAIN m.calls : ReadCall(m.calls[j]) = ReadCall(n.calls[j])
        /\ \A j \in DOMAIN m.results : ReadResult(c, m.results[j]) = ReadResult(d, n.results[j])
    BY <2>3, <2>4
  <2> QED  BY <2>2, <2>5 DEF m, n
<1>4. ASSUME NEW i \in DOMAIN c, NEW j \in DOMAIN c[i].calls
      PROVE  d[i].calls[j] = [c[i].calls[j] EXCEPT !.id = d[i].calls[j].id]
  <2> DEFINE a == c[i].calls[j]
             b == d[i].calls[j]
  <2>1. a \in CallRecords /\ b \in CallRecords /\ ReadCall(a) = ReadCall(b)
    BY <1>2, <1>3, MessageOf
  <2> HIDE DEF a, b
  <2>2. a.name = b.name /\ a.args = b.args /\ a.malformed = b.malformed
    BY <2>1 DEF ReadCall, CallRecords
  <2>3. b = [a EXCEPT !.id = b.id]
    BY <2>1, <2>2 DEF CallRecords
  <2> QED  BY <2>3 DEF a, b
<1>5. ASSUME NEW i \in DOMAIN c, NEW j \in DOMAIN c[i].results
      PROVE  /\ d[i].results[j] = [c[i].results[j] EXCEPT !.id = d[i].results[j].id]
             /\ Asking(c, c[i].results[j].id) = Asking(d, d[i].results[j].id)
  <2> DEFINE a == c[i].results[j]
             b == d[i].results[j]
  <2>1. a \in ResultRecords /\ b \in ResultRecords /\ ReadResult(c, a) = ReadResult(d, b)
    BY <1>2, <1>3, MessageOf
  <2> HIDE DEF a, b
  <2>2. a.content = b.content /\ a.isError = b.isError /\ Asking(c, a.id) = Asking(d, b.id)
    BY <2>1 DEF ReadResult, ResultRecords
  <2>3. b = [a EXCEPT !.id = b.id]
    BY <2>1, <2>2 DEF ResultRecords
  <2> QED  BY <2>2, <2>3 DEF a, b
<1> QED  BY <1>2, <1>3, <1>4, <1>5 DEF Corresponds

(* The calls of two conversations, in pairs.                               *)
LEMMA CallsCorrespond ==
  ASSUME NEW c \in Seq(MessageRecords), NEW d \in Seq(MessageRecords), Corresponds(c, d)
  PROVE  /\ DOMAIN Calls(c) = DOMAIN Calls(d)
         /\ \A i \in DOMAIN c : \A j \in DOMAIN c[i].calls :
              \E k \in DOMAIN Calls(c) : Calls(c)[k] = c[i].calls[j] /\ Calls(d)[k] = d[i].calls[j]
<1> DEFINE Pairs == CallRecords \X CallRecords
           Row(i) == [j \in DOMAIN c[i].calls |-> <<c[i].calls[j], d[i].calls[j]>>]
           P == [i \in DOMAIN c |-> Row(i)]
           fst == [p \in Pairs |-> p[1]]
           snd == [p \in Pairs |-> p[2]]
           Z == FlattenSeq(P)
<1>1. DOMAIN c = DOMAIN d /\ \A i \in DOMAIN c : DOMAIN c[i].calls = DOMAIN d[i].calls
  BY DEF Corresponds
<1>2. ASSUME NEW i \in DOMAIN c
      PROVE  /\ Row(i) \in Seq(Pairs) /\ DOMAIN Row(i) = DOMAIN c[i].calls
             /\ Map(fst, Row(i)) = c[i].calls /\ Map(snd, Row(i)) = d[i].calls
  <2> DEFINE u == c[i].calls
             v == d[i].calls
  <2>1. u \in Seq(CallRecords) /\ v \in Seq(CallRecords) /\ DOMAIN u = DOMAIN v
    BY <1>1, MessageOf
  <2> HIDE DEF u, v
  <2>2. /\ Len(u) \in Nat /\ DOMAIN u = 1 .. Len(u) /\ u = [j \in DOMAIN u |-> u[j]]
        /\ v = [j \in DOMAIN u |-> v[j]] /\ \A j \in DOMAIN u : u[j] \in CallRecords /\ v[j] \in CallRecords
    BY <2>1, LenProperties
  <2> DEFINE r == [j \in DOMAIN u |-> <<u[j], v[j]>>]
  <2>3. r \in Seq(Pairs) /\ DOMAIN r = DOMAIN u
    BY <2>2
  <2>4. \A j \in DOMAIN u : fst[r[j]] = u[j] /\ snd[r[j]] = v[j]
    BY <2>2
  <2> HIDE DEF r, fst, snd, Pairs
  <2>5. Map(fst, r) = u
    BY <2>2, <2>3, <2>4 DEF Map
  <2>6. Map(snd, r) = v
    BY <2>2, <2>3, <2>4 DEF Map
  <2> QED  BY <2>3, <2>5, <2>6 DEF r, u, v
<1>3. IsMap(fst, Pairs, CallRecords) /\ IsMap(snd, Pairs, CallRecords)
  BY DEF IsMap
<1>4. P \in Seq(Seq(Pairs))
  <2> DEFINE Y == Seq(Pairs)
  <2>1. Len(c) \in Nat /\ DOMAIN c = 1 .. Len(c)
    BY LenProperties
  <2>2. \A i \in 1 .. Len(c) : Row(i) \in Y
    BY <1>2, <2>1
  <2>3. P = [i \in 1 .. Len(c) |-> Row(i)]
    BY <2>1
  <2> HIDE DEF Row, Y, P
  <2>4. P \in Seq(Y)
    BY <2>1, <2>2, <2>3
  <2> QED  BY <2>4 DEF Y
<1>5. MapEach(fst, P) = [i \in DOMAIN c |-> c[i].calls] /\ MapEach(snd, P) = [i \in DOMAIN d |-> d[i].calls]
  <2> HIDE DEF Row, fst, snd, Pairs
  <2> QED  BY <1>1, <1>2 DEF MapEach
<1>6. DOMAIN P = DOMAIN c /\ \A i \in DOMAIN c : P[i] = Row(i)
  OBVIOUS
<1> HIDE DEF Pairs, P, fst, snd
<1>7. Z \in Seq(Pairs) /\ Calls(c) = Map(fst, Z) /\ Calls(d) = Map(snd, Z)
  <2>1. Z \in Seq(Pairs)
    BY <1>4, FlattenTyped
  <2>2. FlattenSeq(MapEach(fst, P)) = Map(fst, Z)
    BY <1>3, <1>4, FlattenMap
  <2>3. FlattenSeq(MapEach(snd, P)) = Map(snd, Z)
    BY <1>3, <1>4, FlattenMap
  <2> HIDE DEF Z
  <2>4. Calls(c) = Map(fst, Z)
    BY <1>5, <2>2 DEF Calls
  <2>5. Calls(d) = Map(snd, Z)
    BY <1>5, <2>3 DEF Calls
  <2> QED  BY <2>1, <2>4, <2>5
<1>8. /\ DOMAIN Calls(c) = DOMAIN Z /\ DOMAIN Calls(d) = DOMAIN Z
      /\ \A k \in DOMAIN Z : Calls(c)[k] = fst[Z[k]] /\ Calls(d)[k] = snd[Z[k]]
  <2> HIDE DEF Z
  <2> QED  BY <1>7 DEF Map
<1>9. ASSUME NEW i \in DOMAIN c, NEW j \in DOMAIN c[i].calls
      PROVE  \E k \in DOMAIN Z : Z[k] = <<c[i].calls[j], d[i].calls[j]>>
  <2> DEFINE x == <<c[i].calls[j], d[i].calls[j]>>
  <2>1. j \in DOMAIN Row(i) /\ Row(i)[j] = x
    OBVIOUS
  <2>2. Has(P[i], x)
    BY <1>6, <2>1 DEF Has
  <2> HIDE DEF x, Row
  <2>3. Has(FlattenSeq(P), x)
    BY <1>4, <1>6, <2>2, FlattenHas
  <2> QED  BY <2>3 DEF Has, x
<1>10. ASSUME NEW i \in DOMAIN c, NEW j \in DOMAIN c[i].calls
       PROVE  \E k \in DOMAIN Calls(c) : Calls(c)[k] = c[i].calls[j] /\ Calls(d)[k] = d[i].calls[j]
  <2> DEFINE a == c[i].calls[j]
             b == d[i].calls[j]
  <2>1. PICK k \in DOMAIN Z : Z[k] = <<a, b>>
    BY <1>9
  <2>2. a \in CallRecords /\ b \in CallRecords
    BY <1>1, MessageOf
  <2> HIDE DEF a, b
  <2>3. fst[<<a, b>>] = a /\ snd[<<a, b>>] = b
    BY <2>2 DEF fst, snd, Pairs
  <2>4. Calls(c)[k] = a /\ Calls(d)[k] = b
    BY <1>8, <2>1, <2>3
  <2> QED  BY <1>8, <2>4 DEF a, b
<1> QED  BY <1>8, <1>10

(* Every call of a conversation was answered, and nothing else was.        *)
EachAnswered(conv) == \A x : CalledAs(conv, x) <=> AnsweredAs(conv, x)

(* The results tell which calls have one id: conversations that read the   *)
(* same are the same but for a renaming.                                   *)
LEMMA ReadsRenamed ==
  ASSUME NEW c \in Seq(MessageRecords), NEW d \in Seq(MessageRecords),
         EachAnswered(c), Same(c, d)
  PROVE  \E rho : IsRenaming(rho) /\ OneToOne(rho, IdsOf(c)) /\ d = Rename(rho, c)
<1>1. Corresponds(c, d)
  BY SameCorresponds
<1>2. /\ DOMAIN Calls(c) = DOMAIN Calls(d)
      /\ \A i \in DOMAIN c : \A j \in DOMAIN c[i].calls :
           \E k \in DOMAIN Calls(c) : Calls(c)[k] = c[i].calls[j] /\ Calls(d)[k] = d[i].calls[j]
  BY <1>1, CallsCorrespond
<1>3. /\ DOMAIN c = DOMAIN d
      /\ \A i \in DOMAIN c :
           /\ c[i].role = d[i].role
           /\ DOMAIN c[i].calls = DOMAIN d[i].calls
           /\ DOMAIN c[i].results = DOMAIN d[i].results
           /\ \A j \in DOMAIN c[i].calls :
                d[i].calls[j] = [c[i].calls[j] EXCEPT !.id = d[i].calls[j].id]
           /\ \A j \in DOMAIN c[i].results :
                /\ d[i].results[j] = [c[i].results[j] EXCEPT !.id = d[i].results[j].id]
                /\ Asking(c, c[i].results[j].id) = Asking(d, d[i].results[j].id)
  BY <1>1 DEF Corresponds
<1>4. ASSUME NEW k \in DOMAIN Calls(c)
      PROVE  Asking(c, Calls(c)[k].id) = Asking(d, Calls(d)[k].id)
  <2>1. AnsweredAs(c, Calls(c)[k].id)
    BY CallOf DEF EachAnswered
  <2>2. PICK i \in DOMAIN c : \E j \in DOMAIN c[i].results : c[i].results[j].id = Calls(c)[k].id
    BY <2>1 DEF AnsweredAs
  <2>3. PICK j \in DOMAIN c[i].results : c[i].results[j].id = Calls(c)[k].id
    BY <2>2
  <2>4. k \in Asking(c, c[i].results[j].id)
    BY <2>3 DEF Asking
  <2>5. k \in Asking(d, d[i].results[j].id)
    BY <1>3, <2>4
  <2>6. Calls(d)[k].id = d[i].results[j].id
    BY <2>5 DEF Asking
  <2>7. Asking(c, c[i].results[j].id) = Asking(d, d[i].results[j].id)
    BY <1>3
  <2> QED  BY <2>3, <2>6, <2>7
<1>5. \A k, l \in DOMAIN Calls(c) : Calls(c)[k].id = Calls(c)[l].id <=> Calls(d)[k].id = Calls(d)[l].id
  BY <1>2, <1>4 DEF Asking
<1> DEFINE At(v) == CHOOSE k \in DOMAIN Calls(c) : Calls(c)[k].id = v
           rho == [v \in Ids |-> IF \E k \in DOMAIN Calls(c) : Calls(c)[k].id = v
                                   THEN Calls(d)[At(v)].id ELSE v]
<1>6. \A k \in DOMAIN Calls(c) : Calls(c)[k].id \in Ids /\ Calls(d)[k].id \in Ids
  BY <1>2, CallOf
<1>7. ASSUME NEW k \in DOMAIN Calls(c)
      PROVE  rho[Calls(c)[k].id] = Calls(d)[k].id
  <2> DEFINE l == At(Calls(c)[k].id)
  <2>1. l \in DOMAIN Calls(c) /\ Calls(c)[l].id = Calls(c)[k].id
    OBVIOUS
  <2>2. rho[Calls(c)[k].id] = Calls(d)[l].id
    BY <1>6
  <2> QED  BY <1>5, <2>1, <2>2
<1>8. IsRenaming(rho)
  <2> SUFFICES ASSUME NEW v \in Ids  PROVE rho[v] \in Ids
    BY DEF IsRenaming
  <2>1. CASE \E k \in DOMAIN Calls(c) : Calls(c)[k].id = v
    <3>1. PICK k \in DOMAIN Calls(c) : Calls(c)[k].id = v
      BY <2>1
    <3> HIDE DEF rho
    <3> QED  BY <1>6, <1>7, <3>1
  <2>2. CASE ~ \E k \in DOMAIN Calls(c) : Calls(c)[k].id = v
    BY <2>2
  <2> QED  BY <2>1, <2>2
<1> HIDE DEF rho
<1>9. ASSUME NEW i \in DOMAIN c, NEW j \in DOMAIN c[i].calls
      PROVE  d[i].calls[j].id = rho[c[i].calls[j].id]
  BY <1>2, <1>7
<1>10. \A x : CalledAs(c, x) => \E k \in DOMAIN Calls(c) : Calls(c)[k].id = x
  BY <1>2 DEF CalledAs
<1>11. ASSUME NEW i \in DOMAIN c, NEW j \in DOMAIN c[i].results
       PROVE  d[i].results[j].id = rho[c[i].results[j].id]
  <2>1. CalledAs(c, c[i].results[j].id)
    BY DEF EachAnswered, AnsweredAs
  <2>2. PICK k \in DOMAIN Calls(c) : Calls(c)[k].id = c[i].results[j].id
    BY <1>10, <2>1
  <2>3. k \in Asking(d, d[i].results[j].id)
    BY <1>3, <2>2 DEF Asking
  <2> QED  BY <1>7, <2>2, <2>3 DEF Asking
<1>12. OneToOne(rho, IdsOf(c))
  <2>1. \A x \in IdsOf(c) : \E k \in DOMAIN Calls(c) : Calls(c)[k].id = x
    BY <1>10, IdsOfWhich DEF EachAnswered
  <2> SUFFICES ASSUME NEW x \in IdsOf(c), NEW y \in IdsOf(c), rho[x] = rho[y]
               PROVE  x = y
    BY DEF OneToOne
  <2>2. PICK k \in DOMAIN Calls(c) : Calls(c)[k].id = x
    BY <2>1
  <2>3. PICK l \in DOMAIN Calls(c) : Calls(c)[l].id = y
    BY <2>1
  <2> QED  BY <1>5, <1>7, <2>2, <2>3
<1>13. ASSUME NEW i \in DOMAIN c
       PROVE  d[i] = RenameMessage(rho)[c[i]]
  <2> DEFINE m == c[i]
             n == RenameMessage(rho)[m]
             o == d[i]
  <2>1. m \in MessageRecords /\ o \in MessageRecords
    BY <1>3, MessageOf
  <2>2. o.role = m.role /\ DOMAIN o.calls = DOMAIN m.calls /\ DOMAIN o.results = DOMAIN m.results
    BY <1>3
  <2>3. ASSUME NEW j \in DOMAIN m.calls
        PROVE  o.calls[j] = [m.calls[j] EXCEPT !.id = rho[m.calls[j].id]]
    <3>1. d[i].calls[j] = [c[i].calls[j] EXCEPT !.id = d[i].calls[j].id]
      BY <1>3
    <3>2. d[i].calls[j].id = rho[c[i].calls[j].id]
      BY <1>9
    <3> QED  BY <3>1, <3>2
  <2>4. ASSUME NEW j \in DOMAIN m.results
        PROVE  o.results[j] = [m.results[j] EXCEPT !.id = rho[m.results[j].id]]
    <3>1. d[i].results[j] = [c[i].results[j] EXCEPT !.id = d[i].results[j].id]
      BY <1>3
    <3>2. d[i].results[j].id = rho[c[i].results[j].id]
      BY <1>11
    <3> QED  BY <3>1, <3>2
  <2> HIDE DEF m, o
  <2>5. n = o
    <3>1. RenamedTo(rho, m, o)
      BY <2>2, <2>3, <2>4 DEF RenamedTo
    <3> HIDE DEF n
    <3>2. RenameMessage(rho)[m] = o
      BY <1>8, <2>1, <3>1, RenamedPointwise
    <3> QED  BY <3>2 DEF n
  <2> QED  BY <2>5 DEF n, m, o
<1>14. d = Rename(rho, c)
  <2>1. d = [i \in DOMAIN d |-> d[i]]
    BY LenProperties
  <2> QED  BY <1>3, <1>13, <2>1 DEF Rename, Map
<1> QED  BY <1>8, <1>12, <1>14

-----------------------------------------------------------------------------
(* What every state keeps.                                                 *)

TypeOK ==
  /\ provider \in Providers /\ mocks \in Mocks
  /\ mode \in {"idle", "auto", "record", "replay"}
  /\ messages \in Seq(MessageRecords)
  /\ minted \in 0 .. Len(CallIds)
  /\ \A key \in DOMAIN store : store[key] \in Seq(CallRecords)

(* The cassettes and the conversations they answered.                      *)
KeptOf(answers, convs) ==
  /\ DOMAIN answers = DOMAIN convs
  /\ \A key \in DOMAIN convs :
       convs[key] \in Seq(MessageRecords) /\ EachAnswered(convs[key]) /\ Key(convs[key]) = key

Kept == EachAnswered(messages) /\ KeptOf(store, asked)

RInv == TypeOK /\ Kept

LEMMA ConstantTypes ==
  /\ Len(CallIds) \in Nat /\ DOMAIN CallIds = 1 .. Len(CallIds)
  /\ \A n \in 1 .. Len(CallIds) : CallIds[n] \in Ids
  /\ \A n, m \in 1 .. Len(CallIds) : CallIds[n] = CallIds[m] => n = m
<1>1. CallIds \in Seq(Ids) /\ IsInjective(CallIds)
  BY TranscriptAssumption DEF Ids
<1>2. Len(CallIds) \in Nat /\ DOMAIN CallIds = 1 .. Len(CallIds) /\ \A n \in 1 .. Len(CallIds) : CallIds[n] \in Ids
  BY <1>1, LenProperties
<1> QED  BY <1>1, <1>2 DEF IsInjective

LEMMA NoArgumentsIsObject == NoArguments \in Objects
<1>1. MaxDepth \in 1 .. MaxDepth
  BY JsonAssumption
<1>2. IsObject(NoArguments, Nested[MaxDepth - 1])
  <2>1. <<>> \in [{} -> Nested[MaxDepth - 1]]
    OBVIOUS
  <2> QED  BY <2>1 DEF IsObject, NoArguments
<1>3. IsDict(NoArguments)
  BY DEF IsDict, NoArguments
<1> QED  BY <1>1, <1>2, <1>3, NestedIs, DeeperObjects DEF Values, Objects

(* The calls of an answer.                                                 *)
LEMMA FromWire ==
  ASSUME provider \in Providers, NEW answer \in Answers, NEW first \in Nat,
         first + Len(answer) <= Len(CallIds)
  PROVE  /\ Len(answer) \in Nat
         /\ from_wire(answer, first) \in Seq(CallRecords)
         /\ Len(from_wire(answer, first)) = Len(answer)
         /\ \A i \in 1 .. Len(answer) : /\ from_wire(answer, first)[i].id = CallIds[first + i]
                                       /\ from_wire(answer, first)[i].args \in Objects
<1>1. /\ answer \in Seq([name : Tools, args : Objects, malformed : Malformed])
      /\ provider \in {"openai", "anthropic", "gemini"}
  BY TranscriptAssumption
<1> DEFINE n == Len(answer)
<1>2. /\ n \in Nat /\ DOMAIN answer = 1 .. n
      /\ \A i \in 1 .. n : answer[i] \in [name : Tools, args : Objects, malformed : Malformed]
  BY <1>1, LenProperties
<1> HIDE DEF n
<1>3. \A i \in 1 .. n : first + i \in 1 .. Len(CallIds)
  BY <1>2, ConstantTypes DEF n
<1>4. \A i \in 1 .. n : CallIds[first + i] \in Ids
  BY <1>3, ConstantTypes
<1>5. "none" \in Malformed
  BY DEF Malformed
<1>6. \A s : s \in [1 .. n -> CallRecords] => s \in Seq(CallRecords) /\ Len(s) = n
  BY <1>2
<1>7. /\ openai_from_wire(answer, first) \in [1 .. n -> CallRecords]
      /\ \A i \in 1 .. n : /\ openai_from_wire(answer, first)[i].id = CallIds[first + i]
                           /\ openai_from_wire(answer, first)[i].args \in Objects
  BY <1>2, <1>4, NoArgumentsIsObject DEF openai_from_wire, CallRecords, Objects
<1>8. /\ anthropic_from_wire(answer, first) \in [1 .. n -> CallRecords]
      /\ \A i \in 1 .. n : /\ anthropic_from_wire(answer, first)[i].id = CallIds[first + i]
                           /\ anthropic_from_wire(answer, first)[i].args \in Objects
  BY <1>2, <1>4, <1>5 DEF anthropic_from_wire, CallRecords, Objects
<1>9. /\ from_wire(answer, first) \in [1 .. n -> CallRecords]
      /\ \A i \in 1 .. n : /\ from_wire(answer, first)[i].id = CallIds[first + i]
                           /\ from_wire(answer, first)[i].args \in Objects
  BY <1>1, <1>7, <1>8 DEF from_wire, gemini_from_wire
<1> QED  BY <1>2, <1>6, <1>9 DEF n

LEMMA Longer ==
  ASSUME NEW X, NEW u \in Seq(X), NEW x \in X
  PROVE  /\ u \o <<x>> \in Seq(X) /\ Len(u) \in Nat
         /\ DOMAIN u = 1 .. Len(u) /\ DOMAIN (u \o <<x>>) = 1 .. Len(u) + 1
         /\ Len(u \o <<x>>) = Len(u) + 1
         /\ \A i \in 1 .. Len(u) : (u \o <<x>>)[i] = u[i]
         /\ (u \o <<x>>)[Len(u) + 1] = x
<1>1. <<x>> \in Seq(X) /\ Len(<<x>>) = 1 /\ <<x>>[1] = x
  OBVIOUS
<1>2. Len(u) \in Nat /\ DOMAIN u = 1 .. Len(u)
  BY LenProperties
<1> DEFINE w == u \o <<x>>
<1>3. w \in Seq(X) /\ Len(w) = Len(u) + 1
  BY <1>1, ConcatProperties
<1>4. \A i \in 1 .. Len(u) + 1 : w[i] = IF i <= Len(u) THEN u[i] ELSE <<x>>[i - Len(u)]
  BY <1>1, <1>2, ConcatProperties
<1> HIDE DEF w
<1>5. DOMAIN w = 1 .. Len(u) + 1
  BY <1>2, <1>3, LenProperties
<1>6. \A i \in 1 .. Len(u) : w[i] = u[i]
  BY <1>2, <1>4
<1>7. w[Len(u) + 1] = x
  BY <1>1, <1>2, <1>4
<1> QED  BY <1>2, <1>3, <1>5, <1>6, <1>7 DEF w

(* A message that asks, and one that answers.                              *)
LEMMA LongerIds ==
  ASSUME NEW conv \in Seq(MessageRecords), NEW m \in MessageRecords, NEW x
  PROVE  /\ CalledAs(conv \o <<m>>, x)
              <=> CalledAs(conv, x) \/ \E j \in DOMAIN m.calls : m.calls[j].id = x
         /\ AnsweredAs(conv \o <<m>>, x)
              <=> AnsweredAs(conv, x) \/ \E j \in DOMAIN m.results : m.results[j].id = x
<1> DEFINE w == conv \o <<m>>
           n == Len(conv)
<1>1. /\ n \in Nat /\ DOMAIN conv = 1 .. n /\ DOMAIN w = 1 .. n + 1
      /\ \A i \in 1 .. n : w[i] = conv[i]
      /\ w[n + 1] = m
  BY Longer
<1> HIDE DEF w, n
<1>2. DOMAIN w = DOMAIN conv \cup {n + 1}
  BY <1>1
<1> QED  BY <1>1, <1>2 DEF CalledAs, AnsweredAs, w

(* The messages of a turn.                                                 *)
LEMMA TurnMessages ==
  ASSUME NEW calls \in Seq(CallRecords), NEW results \in Seq(ResultRecords)
  PROVE  /\ AssistantOf(calls) \in MessageRecords /\ ToolMessage(results) \in MessageRecords
         /\ User \in MessageRecords
         /\ AssistantOf(calls).calls = calls /\ AssistantOf(calls).results = <<>>
         /\ AssistantOf(calls).role = "assistant"
         /\ ToolMessage(results).results = results /\ ToolMessage(results).calls = <<>>
         /\ ToolMessage(results).role = "tool"
<1>1. <<>> \in Seq(CallRecords) /\ <<>> \in Seq(ResultRecords)
  BY EmptySeq
<1> QED  BY <1>1 DEF AssistantOf, ToolMessage, User, MessageRecords

(* The results of the calls in the file that is.                           *)
ResultsOf(calls) == [i \in DOMAIN calls |-> Result(calls[i])]

LEMMA ResultsTyped ==
  ASSUME mocks \in Mocks, NEW calls \in Seq(CallRecords)
  PROVE  /\ ResultsOf(calls) \in Seq(ResultRecords) /\ Len(ResultsOf(calls)) = Len(calls)
         /\ DOMAIN ResultsOf(calls) = DOMAIN calls
         /\ \A i \in DOMAIN calls :
              /\ ResultsOf(calls)[i].id = calls[i].id
              /\ ResultsOf(calls)[i].content = mocks[calls[i].name].content
<1>1. mocks \in [Tools -> [content : Values, isError : {"ok", "error"}]]
  BY TranscriptAssumption
<1> DEFINE n == Len(calls)
<1>2. n \in Nat /\ DOMAIN calls = 1 .. n /\ \A i \in 1 .. n : calls[i] \in CallRecords
  BY LenProperties
<1> HIDE DEF n
<1>3. ASSUME NEW i \in 1 .. n
      PROVE  Result(calls[i]) \in ResultRecords
  <2>1. calls[i].name \in Tools /\ calls[i].id \in Ids
    BY <1>2 DEF CallRecords
  <2>2. mocks[calls[i].name] \in [content : Values, isError : {"ok", "error"}]
    BY <1>1, <2>1
  <2> QED  BY <2>1, <2>2 DEF Result, ResultRecords
<1>4. ResultsOf(calls) = [i \in 1 .. n |-> Result(calls[i])]
  BY <1>2 DEF ResultsOf
<1>5. ResultsOf(calls) \in [1 .. n -> ResultRecords]
  BY <1>3, <1>4
<1>6. ResultsOf(calls) \in Seq(ResultRecords) /\ Len(ResultsOf(calls)) = n
  BY <1>2, <1>5
<1>7. \A i \in 1 .. n : Result(calls[i]).id = calls[i].id /\ Result(calls[i]).content = mocks[calls[i].name].content
  BY DEF Result
<1>8. \A i \in 1 .. n : ResultsOf(calls)[i] = Result(calls[i])
  BY <1>4
<1>9. DOMAIN ResultsOf(calls) = 1 .. n
  BY <1>4
<1> QED  BY <1>2, <1>6, <1>7, <1>8, <1>9 DEF n

(* A turn: the calls and, if there are any, their results.                 *)
Asked(conv, calls) == conv \o <<AssistantOf(calls)>>

Grown(conv, calls) == Asked(conv, calls) \o <<ToolMessage(ResultsOf(calls))>>

LEMMA ContinueIs ==
  ASSUME messages \in Seq(MessageRecords), mocks \in Mocks,
         mode \in {"idle", "auto", "record", "replay"},
         NEW calls \in Seq(CallRecords), Continue(calls)
  PROVE  /\ mode' \in {"idle", mode}
         /\ \/ calls = <<>> /\ messages' = Asked(messages, calls) /\ mode' = "idle"
            \/ calls # <<>> /\ messages' = Grown(messages, calls)
<1>1. CASE calls = <<>>
  <2>1. messages' = Asked(messages, calls) \o <<>>
    BY <1>1 DEF Continue, Asked
  <2>2. AssistantOf(calls) \in MessageRecords
    BY ResultsTyped, TurnMessages
  <2>3. Asked(messages, calls) \in Seq(MessageRecords)
    BY <2>2, Longer DEF Asked
  <2>4. messages' = Asked(messages, calls)
    BY <2>1, <2>3, ConcatEmptySeq
  <2> QED  BY <1>1, <2>4 DEF Continue
<1>2. CASE calls # <<>>
  BY <1>2 DEF Continue, Grown, Asked, ResultsOf
<1> QED  BY <1>1, <1>2

LEMMA GrownIs ==
  ASSUME NEW conv \in Seq(MessageRecords), mocks \in Mocks, NEW calls \in Seq(CallRecords)
  PROVE  /\ Asked(conv, calls) \in Seq(MessageRecords) /\ Grown(conv, calls) \in Seq(MessageRecords)
         /\ EachAnswered(conv) => EachAnswered(Grown(conv, calls))
         /\ EachAnswered(conv) /\ calls = <<>> => EachAnswered(Asked(conv, calls))
<1> DEFINE a == AssistantOf(calls)
           t == ToolMessage(ResultsOf(calls))
           v == conv \o <<a>>
           w == v \o <<t>>
<1>1. /\ a \in MessageRecords /\ t \in MessageRecords
      /\ a.calls = calls /\ a.results = <<>> /\ t.results = ResultsOf(calls) /\ t.calls = <<>>
  BY ResultsTyped, TurnMessages
<1>2. /\ DOMAIN ResultsOf(calls) = DOMAIN calls
      /\ \A j \in DOMAIN calls : ResultsOf(calls)[j].id = calls[j].id
  BY ResultsTyped
<1> HIDE DEF a, t
<1>3. v \in Seq(MessageRecords)
  BY <1>1, Longer
<1>4. \A x : /\ CalledAs(v, x) <=> CalledAs(conv, x) \/ \E j \in DOMAIN a.calls : a.calls[j].id = x
             /\ AnsweredAs(v, x) <=> AnsweredAs(conv, x) \/ \E j \in DOMAIN a.results : a.results[j].id = x
  BY <1>1, LongerIds
<1> HIDE DEF v
<1>5. w \in Seq(MessageRecords)
  BY <1>1, <1>3, Longer
<1>6. \A x : /\ CalledAs(w, x) <=> CalledAs(v, x) \/ \E j \in DOMAIN t.calls : t.calls[j].id = x
             /\ AnsweredAs(w, x) <=> AnsweredAs(v, x) \/ \E j \in DOMAIN t.results : t.results[j].id = x
  BY <1>1, <1>3, LongerIds
<1> HIDE DEF w
<1>7. DOMAIN a.results = {} /\ DOMAIN t.calls = {}
  BY <1>1
<1>8. EachAnswered(conv) => EachAnswered(w)
  BY <1>1, <1>2, <1>4, <1>6, <1>7 DEF EachAnswered
<1>9. EachAnswered(conv) /\ calls = <<>> => EachAnswered(v)
  <2> SUFFICES ASSUME EachAnswered(conv), calls = <<>>  PROVE EachAnswered(v)
    OBVIOUS
  <2>1. DOMAIN a.calls = {}
    BY <1>1
  <2> QED  BY <1>4, <1>7, <2>1 DEF EachAnswered
<1> QED  BY <1>3, <1>5, <1>8, <1>9 DEF Asked, Grown, v, w, a, t

LEMMA RInvInit == Init => RInv
<1> SUFFICES ASSUME Init  PROVE RInv
  OBVIOUS
<1>1. 0 \in 0 .. Len(CallIds)
  BY ConstantTypes
<1>2. <<>> \in Seq(MessageRecords) /\ DOMAIN <<>> = {}
  BY EmptySeq
<1>3. TypeOK
  BY <1>1, <1>2 DEF Init, TypeOK
<1>4. EachAnswered(<<>>)
  BY DEF EachAnswered, CalledAs, AnsweredAs
<1> QED  BY <1>2, <1>3, <1>4 DEF Init, RInv, Kept, KeptOf

LEMMA RInvNext == RInv /\ [Next]_vars => RInv'
<1> SUFFICES ASSUME RInv, [Next]_vars  PROVE RInv'
  OBVIOUS
<1>1. /\ provider \in Providers /\ mocks \in Mocks
      /\ mode \in {"idle", "auto", "record", "replay"}
      /\ messages \in Seq(MessageRecords)
      /\ minted \in 0 .. Len(CallIds)
      /\ \A key \in DOMAIN store : store[key] \in Seq(CallRecords)
      /\ EachAnswered(messages) /\ KeptOf(store, asked)
  BY DEF RInv, TypeOK, Kept
<1>2. CASE Edit
  BY <1>1, <1>2 DEF Edit, RInv, TypeOK, Kept
<1>3. ASSUME NEW m \in {"auto", "record", "replay"}, Start(m)
      PROVE  RInv'
  <2>1. messages' = <<User>> /\ User \in MessageRecords
    BY <1>3, TurnMessages, EmptySeq DEF Start
  <2>2. messages' \in Seq(MessageRecords)
    BY <2>1
  <2>3. \A x : ~CalledAs(<<User>>, x) /\ ~AnsweredAs(<<User>>, x)
    BY DEF CalledAs, AnsweredAs, User
  <2>4. EachAnswered(messages')
    BY <2>1, <2>3 DEF EachAnswered
  <2> QED  BY <1>1, <1>3, <2>2, <2>4 DEF Start, RInv, TypeOK, Kept
<1>4. ASSUME NEW calls \in Seq(CallRecords), Continue(calls)
      PROVE  /\ messages' \in Seq(MessageRecords) /\ EachAnswered(messages')
             /\ mode' \in {"idle", "auto", "record", "replay"}
  BY <1>1, <1>4, ContinueIs, GrownIs
<1>5. CASE Hit
  <2>1. store[Key(messages)] \in Seq(CallRecords) /\ Continue(store[Key(messages)])
    BY <1>1, <1>5 DEF Hit
  <2>2. /\ messages' \in Seq(MessageRecords) /\ EachAnswered(messages')
        /\ mode' \in {"idle", "auto", "record", "replay"}
    BY <1>4, <2>1
  <2> QED  BY <1>1, <1>5, <2>2 DEF Hit, RInv, TypeOK, Kept
<1>6. CASE Miss
  BY <1>1, <1>6 DEF Miss, RInv, TypeOK, Kept
<1>7. ASSUME NEW a \in Answers, AskLive(a)
      PROVE  RInv'
  <2> DEFINE calls == from_wire(a, minted)
             key == Key(messages)
  <2>1. /\ store' = Put(store, key, calls) /\ asked' = Put(asked, key, messages)
        /\ Continue(calls) /\ minted' = minted + Len(a) /\ minted + Len(a) <= Len(CallIds)
        /\ UNCHANGED <<provider, mocks, runs>>
    BY <1>7 DEF AskLive
  <2>2. minted \in Nat /\ Len(CallIds) \in Nat
    BY <1>1, ConstantTypes
  <2>3. calls \in Seq(CallRecords) /\ Len(a) \in Nat
    BY <1>1, <2>1, <2>2, FromWire
  <2> HIDE DEF calls, key
  <2>4. /\ messages' \in Seq(MessageRecords) /\ EachAnswered(messages')
        /\ mode' \in {"idle", "auto", "record", "replay"}
    BY <1>4, <2>1, <2>3
  <2>5. /\ DOMAIN store' = DOMAIN store \cup {key} /\ DOMAIN asked' = DOMAIN asked \cup {key}
        /\ store'[key] = calls /\ asked'[key] = messages
        /\ \A k \in DOMAIN store' : k # key => k \in DOMAIN store /\ store'[k] = store[k]
        /\ \A k \in DOMAIN asked' : k # key => k \in DOMAIN asked /\ asked'[k] = asked[k]
    BY <2>1 DEF Put
  <2>6. \A k \in DOMAIN store' : store'[k] \in Seq(CallRecords)
    BY <1>1, <2>3, <2>5
  <2>7. KeptOf(store', asked')
    BY <1>1, <2>5 DEF KeptOf, key
  <2>8. minted' \in 0 .. Len(CallIds)
    BY <2>1, <2>2, <2>3
  <2> QED  BY <1>1, <2>1, <2>4, <2>6, <2>7, <2>8 DEF RInv, TypeOK, Kept
<1>8. CASE Interrupt
  BY <1>1, <1>8 DEF Interrupt, RInv, TypeOK, Kept
<1>9. CASE UNCHANGED vars
  BY <1>1, <1>9 DEF vars, RInv, TypeOK, Kept
<1> QED  BY <1>2, <1>3, <1>5, <1>6, <1>7, <1>8, <1>9 DEF Next

LEMMA RInvAlways == Spec => []RInv
BY RInvInit, RInvNext, PTL DEF Spec

(* Conversations that read the same have one key, and those with one key   *)
(* read the same.                                                          *)
LEMMA SameKey ==
  ASSUME NEW c \in Seq(MessageRecords), NEW d \in Seq(MessageRecords),
         EachAnswered(c), Same(c, d)
  PROVE  Key(c) = Key(d)
<1>1. PICK rho : IsRenaming(rho) /\ OneToOne(rho, IdsOf(c)) /\ d = Rename(rho, c)
  BY ReadsRenamed
<1>2. SameUpToIds(Fields(c), Fields(d))
  BY <1>1, RenamedIsSame
<1>3. Fields(c) \in Requests(FieldKeys, FieldValues) /\ Fields(d) \in Requests(FieldKeys, FieldValues)
  BY FieldsIs DEF Requests, AllFields
<1> QED  BY <1>2, <1>3, KeyIgnoresIds DEF Key

LEMMA KeySame ==
  ASSUME NoOwnIds, MarksApart,
         NEW c \in Seq(MessageRecords), NEW d \in Seq(MessageRecords), Key(c) = Key(d)
  PROVE  Same(c, d)
<1>1. Fields(c) \in Requests(FieldKeys, FieldValues) /\ Fields(d) \in Requests(FieldKeys, FieldValues)
  BY FieldsIs DEF Requests, AllFields
<1>2. SameUpToIds(Fields(c), Fields(d))
  BY <1>1, KeyTellsTheRest DEF Key
<1>3. PICK rho : IsRenaming(rho) /\ OneToOne(rho, IdsOf(c)) /\ d = Rename(rho, c)
  BY <1>2, SameIsRenamed
<1> QED  BY <1>3, RenamedReads

(* A conversation that was answered once is found again, whatever ids were *)
(* minted since.                                                           *)
THEOREM RecordsAreFound == Spec => []RecordedIsFound
<1>1. RInv => RecordedIsFound
  <2> SUFFICES ASSUME RInv, NEW key \in DOMAIN asked, Same(messages, asked[key])
               PROVE  Key(messages) \in DOMAIN store
    BY DEF RecordedIsFound
  <2>1. /\ messages \in Seq(MessageRecords) /\ EachAnswered(messages)
        /\ DOMAIN store = DOMAIN asked
        /\ asked[key] \in Seq(MessageRecords) /\ Key(asked[key]) = key
    BY DEF RInv, TypeOK, Kept, KeptOf
  <2>2. Key(messages) = Key(asked[key])
    BY <2>1, SameKey
  <2> QED  BY <2>1, <2>2
<1> QED  BY <1>1, RInvAlways, PTL

(* An answer from a cassette was given to this conversation, when no data  *)
(* has keys that the normalisation takes for those of ids.                 *)
THEOREM AnswersFit ==
  ASSUME NoOwnIds, MarksApart
  PROVE  Spec => []ServedForThisConversation
<1>1. RInv => ServedForThisConversation
  <2> SUFFICES ASSUME RInv, Key(messages) \in DOMAIN store
               PROVE  Same(messages, asked[Key(messages)])
    BY DEF ServedForThisConversation
  <2> DEFINE d == asked[Key(messages)]
  <2>1. /\ messages \in Seq(MessageRecords)
        /\ d \in Seq(MessageRecords) /\ Key(d) = Key(messages)
    BY DEF RInv, TypeOK, Kept, KeptOf
  <2> HIDE DEF d
  <2>2. Same(messages, d)
    BY <2>1, KeySame
  <2> QED  BY <2>2 DEF d
<1> QED  BY <1>1, RInvAlways, PTL

(* A sequence of one-element sequences.                                    *)
Singles(s) == [j \in DOMAIN s |-> <<s[j]>>]

LEMMA FlattenSingles ==
  ASSUME NEW X, NEW s \in Seq(X)
  PROVE  FlattenSeq(Singles(s)) = s
<1> DEFINE one == [x \in X |-> <<x>>]
           S == {t \in Seq(X) : FlattenSeq(Map(one, t)) = t}
<1>1. IsMap(one, X, Seq(X))
  BY DEF IsMap
<1>2. <<>> \in S
  <2>1. Map(one, <<>>) = <<>>
    BY DEF Map
  <2> QED  BY <2>1, FlattenEmpty, EmptySeq
<1>3. ASSUME NEW t \in Seq(X), NEW x \in X, t \in S
      PROVE  Append(t, x) \in S
  <2>1. Append(t, x) = t \o <<x>> /\ <<x>> \in Seq(X) /\ Append(t, x) \in Seq(X)
    BY AppendIsConcat, AppendProperties
  <2>2. Map(one, t \o <<x>>) = Map(one, t) \o Map(one, <<x>>)
    <3> DEFINE v == <<x>>
    <3>1. v \in Seq(X)
      BY <2>1
    <3> HIDE DEF v, one
    <3>2. Map(one, t \o v) = Map(one, t) \o Map(one, v)
      BY <1>1, <3>1, MapConcat
    <3> QED  BY <3>2 DEF v
  <2>3. Map(one, <<x>>) = <<<<x>>>>
    BY DEF Map
  <2>4. Map(one, t) \in Seq(Seq(X)) /\ <<<<x>>>> \in Seq(Seq(X))
    BY <1>1, <2>1, MapTyped
  <2>5. FlattenSeq(<<<<x>>>>) = <<x>>
    BY <2>1, FlattenOne
  <2> HIDE DEF one
  <2>6. FlattenSeq(Map(one, t \o <<x>>)) = FlattenSeq(Map(one, t)) \o FlattenSeq(<<<<x>>>>)
    BY <2>2, <2>3, <2>4, FlattenConcat
  <2>7. FlattenSeq(Map(one, t)) = t
    BY <1>3
  <2> QED  BY <2>1, <2>5, <2>6, <2>7
<1>4. Seq(X) \subseteq S
  <2> HIDE DEF S
  <2> QED  BY <1>2, <1>3, ByLength
<1>5. Singles(s) = Map(one, s)
  <2>1. \A j \in DOMAIN s : s[j] \in X
    BY LenProperties
  <2> QED  BY <2>1 DEF Singles, Map
<1> QED  BY <1>4, <1>5

(* Sequences of nothing.                                                   *)
LEMMA FlattenNothing ==
  ASSUME NEW X, NEW s \in Seq(Seq(X)), \A j \in DOMAIN s : s[j] = <<>>
  PROVE  FlattenSeq(s) = <<>>
<1>1. FlattenSeq(s) \in Seq(X)
  BY FlattenTyped
<1>2. ASSUME FlattenSeq(s) # <<>>
      PROVE  FALSE
  <2> DEFINE w == FlattenSeq(s)
  <2>1. 1 \in DOMAIN w
    <3> HIDE DEF w
    <3>1. w \in Seq(X) /\ w # <<>>
      BY <1>1, <1>2 DEF w
    <3> QED  BY <3>1, LenProperties, EmptySeq
  <2>2. Has(w, w[1])
    BY <2>1 DEF Has
  <2>3. PICK j \in DOMAIN s : Has(s[j], w[1])
    BY <2>2, FlattenHas
  <2>4. DOMAIN s[j] = {}
    BY <2>3
  <2> QED  BY <2>3, <2>4 DEF Has
<1> QED  BY <1>2

(* What the elements of flattened sequences are turned into, flattened.    *)
LEMMA FlattenTwice ==
  ASSUME NEW W, NEW X, NEW f, IsMap(f, W, Seq(X)), NEW g, IsMap(g, Seq(W), Seq(X)),
         \A w \in Seq(W) : g[w] = FlattenSeq(Map(f, w)),
         NEW s \in Seq(Seq(W))
  PROVE  FlattenSeq(Map(f, FlattenSeq(s))) = FlattenSeq(Map(g, s))
<1> DEFINE S == {t \in Seq(Seq(W)) : FlattenSeq(Map(f, FlattenSeq(t))) = FlattenSeq(Map(g, t))}
<1>1. <<>> \in S
  <2>1. Map(f, <<>>) = <<>> /\ Map(g, <<>>) = <<>> /\ <<>> \in Seq(Seq(W))
    BY EmptySeq DEF Map
  <2> QED  BY <2>1, FlattenEmpty
<1>2. ASSUME NEW t \in Seq(Seq(W)), NEW x \in Seq(W), t \in S
      PROVE  Append(t, x) \in S
  <2> DEFINE u == FlattenSeq(t)
             ft == Map(f, u)
             fx == Map(f, x)
             gt == Map(g, t)
             gx == Map(g, <<x>>)
  <2>1. Append(t, x) = t \o <<x>> /\ <<x>> \in Seq(Seq(W)) /\ Append(t, x) \in Seq(Seq(W))
    BY AppendIsConcat, AppendProperties
  <2>2. u \in Seq(W) /\ FlattenSeq(Append(t, x)) = u \o x
    BY FlattenTyped, FlattenAppend
  <2>3. gx = <<g[x]>> /\ gx = <<FlattenSeq(fx)>>
    BY DEF Map
  <2> HIDE DEF u
  <2>4. Map(f, u \o x) = ft \o fx
    BY <2>2, MapConcat
  <2>5. ft \in Seq(Seq(X)) /\ fx \in Seq(Seq(X)) /\ gt \in Seq(Seq(X))
    BY <2>2, MapTyped
  <2>6. Map(g, t \o <<x>>) = gt \o gx
    <3> DEFINE v == <<x>>
    <3>1. v \in Seq(Seq(W))
      BY <2>1
    <3> HIDE DEF v
    <3>2. Map(g, t \o v) = Map(g, t) \o Map(g, v)
      BY <3>1, MapConcat
    <3> QED  BY <3>2 DEF v
  <2> HIDE DEF ft, fx, gt, gx
  <2>7. FlattenSeq(fx) \in Seq(X)
    BY <2>5, FlattenTyped
  <2>8. gx \in Seq(Seq(X)) /\ FlattenSeq(gx) = FlattenSeq(fx)
    BY <2>3, <2>7, FlattenOne
  <2>9. FlattenSeq(ft \o fx) = FlattenSeq(ft) \o FlattenSeq(fx)
    BY <2>5, FlattenConcat
  <2>10. FlattenSeq(gt \o gx) = FlattenSeq(gt) \o FlattenSeq(gx)
    BY <2>5, <2>8, FlattenConcat
  <2>11. FlattenSeq(ft) = FlattenSeq(gt)
    BY <1>2 DEF ft, gt, u
  <2> QED  BY <2>1, <2>2, <2>4, <2>6, <2>8, <2>9, <2>10, <2>11
<1>3. Seq(Seq(W)) \subseteq S
  <2> HIDE DEF S
  <2> QED  BY <1>1, <1>2, ByLength
<1> QED  BY <1>3

-----------------------------------------------------------------------------
(* The results of a conversation.                                          *)

ResultsField == [m \in MessageRecords |-> m.results]

ResultsIn(conv) == FlattenSeq([i \in DOMAIN conv |-> conv[i].results])

LEMMA ResultsInIs ==
  ASSUME NEW conv \in Seq(MessageRecords)
  PROVE  /\ IsMap(ResultsField, MessageRecords, Seq(ResultRecords))
         /\ ResultsIn(conv) = FlattenSeq(Map(ResultsField, conv))
         /\ ResultsIn(conv) \in Seq(ResultRecords)
<1>1. IsMap(ResultsField, MessageRecords, Seq(ResultRecords))
  BY DEF IsMap, ResultsField, MessageRecords
<1>2. \A i \in DOMAIN conv : conv[i] \in MessageRecords
  BY LenProperties
<1>3. [i \in DOMAIN conv |-> conv[i].results] = Map(ResultsField, conv)
  BY <1>2 DEF Map, ResultsField
<1>4. <<>> \in Seq(ResultRecords)
  BY EmptySeq
<1>5. FlattenSeq(Map(ResultsField, conv)) \in Seq(ResultRecords)
  BY <1>1, <1>4, AfterIs
<1> QED  BY <1>1, <1>3, <1>5 DEF ResultsIn

(* Words read off the elements grow with the sequence.                     *)
WordsOf(f, s) == FlattenSeq(Map(f, s))

LEMMA WordsGrow ==
  ASSUME NEW R, NEW X, NEW f, IsMap(f, R, Seq(X)), NEW s \in Seq(R), NEW m \in R
  PROVE  WordsOf(f, s \o <<m>>) = WordsOf(f, s) \o f[m]
<1> USE DEF WordsOf
<1>1. <<m>> \in Seq(R) /\ Map(f, <<m>>) = <<f[m]>> /\ f[m] \in Seq(X)
  BY DEF Map, IsMap
<1>2. Map(f, s \o <<m>>) = Map(f, s) \o <<f[m]>>
  <2> DEFINE v == <<m>>
  <2>1. v \in Seq(R)
    BY <1>1
  <2> HIDE DEF v
  <2>2. Map(f, s \o v) = Map(f, s) \o Map(f, v)
    BY <2>1, MapConcat
  <2> QED  BY <1>1, <2>2 DEF v
<1>3. Map(f, s) \in Seq(Seq(X)) /\ <<f[m]>> \in Seq(Seq(X))
  BY <1>1, MapTyped
<1>4. FlattenSeq(<<f[m]>>) = f[m]
  BY <1>1, FlattenOne
<1>5. FlattenSeq(Map(f, s) \o <<f[m]>>) = FlattenSeq(Map(f, s)) \o FlattenSeq(<<f[m]>>)
  BY <1>3, FlattenConcat
<1> QED  BY <1>2, <1>4, <1>5

LEMMA CallsGrow ==
  ASSUME NEW conv \in Seq(MessageRecords), NEW m \in MessageRecords
  PROVE  /\ Calls(conv \o <<m>>) = Calls(conv) \o m.calls
         /\ ResultsIn(conv \o <<m>>) = ResultsIn(conv) \o m.results
<1>1. conv \o <<m>> \in Seq(MessageRecords)
  BY Longer
<1>2. CallsOf[m] = m.calls /\ ResultsField[m] = m.results
  BY DEF CallsOf, ResultsField
<1>3. IsMap(CallsOf, MessageRecords, Seq(CallRecords)) /\ IsMap(ResultsField, MessageRecords, Seq(ResultRecords))
  BY CallsIs, ResultsInIs
<1>4. WordsOf(CallsOf, conv \o <<m>>) = WordsOf(CallsOf, conv) \o CallsOf[m]
  BY <1>3, WordsGrow
<1>5. WordsOf(ResultsField, conv \o <<m>>) = WordsOf(ResultsField, conv) \o ResultsField[m]
  BY <1>3, WordsGrow
<1> QED  BY <1>1, <1>2, <1>4, <1>5, CallsIs, ResultsInIs DEF WordsOf

LEMMA TurnCalls ==
  ASSUME NEW conv \in Seq(MessageRecords), mocks \in Mocks, NEW calls \in Seq(CallRecords)
  PROVE  /\ Calls(Asked(conv, calls)) = Calls(conv) \o calls
         /\ Calls(Grown(conv, calls)) = Calls(conv) \o calls
         /\ ResultsIn(Grown(conv, calls)) = ResultsIn(conv) \o ResultsOf(calls)
<1> DEFINE a == AssistantOf(calls)
           t == ToolMessage(ResultsOf(calls))
           v == conv \o <<a>>
<1>1. /\ a \in MessageRecords /\ t \in MessageRecords
      /\ a.calls = calls /\ a.results = <<>> /\ t.results = ResultsOf(calls) /\ t.calls = <<>>
  BY ResultsTyped, TurnMessages
<1> HIDE DEF a, t
<1>2. v \in Seq(MessageRecords)
  BY <1>1, Longer
<1>3. Calls(v) = Calls(conv) \o calls /\ ResultsIn(v) = ResultsIn(conv) \o <<>>
  BY <1>1, CallsGrow
<1>4. ResultsIn(v) = ResultsIn(conv)
  BY <1>3, ResultsInIs, ConcatEmptySeq
<1> HIDE DEF v
<1>5. Calls(v \o <<t>>) = Calls(v) \o <<>> /\ ResultsIn(v \o <<t>>) = ResultsIn(v) \o ResultsOf(calls)
  BY <1>1, <1>2, CallsGrow
<1>6. Calls(v \o <<t>>) = Calls(v)
  BY <1>2, <1>5, CallsIs, ConcatEmptySeq
<1> QED  BY <1>3, <1>4, <1>5, <1>6 DEF Asked, Grown, v, a, t

-----------------------------------------------------------------------------
(* What the adapters put on the wire.                                      *)

(* Results are in the messages of tools, and calls in the others.          *)
Plain(conv) ==
  \A i \in DOMAIN conv :
    IF conv[i].role = "tool" THEN conv[i].calls = <<>> ELSE conv[i].results = <<>>

Sent(wire) == FlattenSeq([i \in DOMAIN wire |-> wire[i].calls])

AnsweredIn(wire) == FlattenSeq([i \in DOMAIN wire |-> wire[i].results])

(* The names that a wire gives to the results.                             *)
WireNames == Tools \cup {"none"}

Blocks == [id : Ids, name : WireNames, content : Values, isError : {"ok", "error"}]

BlockOf(naming) == [r \in ResultRecords |-> Block(r, naming[r.id])]

NoNames == [x \in Ids |-> "none"]

LEMMA BlockTyped ==
  ASSUME NEW naming, IsMap(naming, Ids, WireNames)
  PROVE  IsMap(BlockOf(naming), ResultRecords, Blocks)
<1> SUFFICES ASSUME NEW r \in ResultRecords  PROVE Block(r, naming[r.id]) \in Blocks
  BY DEF IsMap, BlockOf
<1>1. r.id \in Ids /\ r.content \in Values /\ r.isError \in {"ok", "error"}
  BY DEF ResultRecords
<1>2. naming[r.id] \in WireNames
  BY <1>1 DEF IsMap
<1> QED  BY <1>1, <1>2 DEF Block, Blocks

(* A wire that gives each message one of its own.                          *)
Rows(conv, naming, wire) ==
  /\ DOMAIN wire = DOMAIN conv
  /\ \A i \in DOMAIN conv :
       /\ wire[i].calls = conv[i].calls
       /\ wire[i].results = Map(BlockOf(naming), conv[i].results)

LEMMA RowsAnswer ==
  ASSUME NEW conv \in Seq(MessageRecords), NEW naming, IsMap(naming, Ids, WireNames),
         NEW wire, Rows(conv, naming, wire)
  PROVE  /\ Sent(wire) = Calls(conv)
         /\ AnsweredIn(wire) = Map(BlockOf(naming), ResultsIn(conv))
<1> DEFINE h == BlockOf(naming)
           s == [i \in DOMAIN conv |-> conv[i].results]
<1>1. [i \in DOMAIN wire |-> wire[i].calls] = [i \in DOMAIN conv |-> conv[i].calls]
  BY DEF Rows
<1>2. [i \in DOMAIN wire |-> wire[i].results] = MapEach(h, s)
  BY DEF Rows, MapEach
<1>3. s \in Seq(Seq(ResultRecords))
  <2> DEFINE Y == Seq(ResultRecords)
  <2>1. Len(conv) \in Nat /\ DOMAIN conv = 1 .. Len(conv)
    BY LenProperties
  <2>2. \A i \in DOMAIN conv : conv[i].results \in Y
    BY MessageOf
  <2> HIDE DEF Y
  <2>3. s \in Seq(Y)
    BY <2>1, <2>2
  <2> QED  BY <2>3 DEF Y
<1>4. IsMap(h, ResultRecords, Blocks)
  BY BlockTyped
<1> HIDE DEF h, s
<1>5. FlattenSeq(MapEach(h, s)) = Map(h, FlattenSeq(s))
  BY <1>3, <1>4, FlattenMap
<1>6. AnsweredIn(wire) = Map(h, FlattenSeq(s))
  BY <1>2, <1>5 DEF AnsweredIn
<1> QED  BY <1>1, <1>6 DEF Sent, Calls, ResultsIn, h, s

LEMMA RowOfResults ==
  ASSUME NEW naming, IsMap(naming, Ids, WireNames), NEW results \in Seq(ResultRecords)
  PROVE  /\ [j \in DOMAIN results |-> Block(results[j], naming[results[j].id])]
              = Map(BlockOf(naming), results)
         /\ results = <<>> => Map(BlockOf(naming), results) = results
<1>1. \A j \in DOMAIN results : results[j] \in ResultRecords
  BY LenProperties
<1>2. \A j \in DOMAIN results : BlockOf(naming)[results[j]] = Block(results[j], naming[results[j].id])
  BY <1>1 DEF BlockOf
<1> QED  BY <1>2 DEF Map

LEMMA AnthropicAnswers ==
  ASSUME NEW conv \in Seq(MessageRecords), Plain(conv)
  PROVE  IsMap(NoNames, Ids, WireNames) /\ Rows(conv, NoNames, anthropic_to_wire(conv))
<1> DEFINE wire == anthropic_to_wire(conv)
<1>1. IsMap(NoNames, Ids, WireNames)
  BY DEF IsMap, NoNames, WireNames
<1>2. DOMAIN wire = DOMAIN conv
  BY DEF anthropic_to_wire
<1>3. ASSUME NEW i \in DOMAIN conv
      PROVE  wire[i].calls = conv[i].calls /\ wire[i].results = Map(BlockOf(NoNames), conv[i].results)
  <2> DEFINE results == conv[i].results
             row == [j \in DOMAIN results |-> Block(results[j], "none")]
  <2>1. results \in Seq(ResultRecords) /\ \A j \in DOMAIN results : results[j].id \in Ids
    BY MessageOf
  <2>2. /\ [j \in DOMAIN results |-> Block(results[j], NoNames[results[j].id])] = Map(BlockOf(NoNames), results)
        /\ results = <<>> => Map(BlockOf(NoNames), results) = results
    <3> HIDE DEF results
    <3> QED  BY <1>1, <2>1, RowOfResults
  <2>3. row = Map(BlockOf(NoNames), results)
    <3>1. \A j \in DOMAIN results : NoNames[results[j].id] = "none"
      BY <2>1 DEF NoNames
    <3> HIDE DEF results
    <3> QED  BY <2>2, <3>1
  <2>4. CASE conv[i].role = "tool"
    <3>1. wire[i].calls = <<>> /\ wire[i].results = row
      BY <2>4 DEF anthropic_to_wire
    <3> QED  BY <2>3, <2>4, <3>1 DEF Plain
  <2>5. CASE conv[i].role # "tool"
    <3>1. wire[i] = conv[i] /\ results = <<>>
      BY <2>5 DEF anthropic_to_wire, Plain
    <3> QED  BY <2>2, <3>1
  <2> QED  BY <2>4, <2>5
<1> HIDE DEF wire
<1>4. Rows(conv, NoNames, wire)
  BY <1>2, <1>3 DEF Rows
<1> QED  BY <1>1, <1>4 DEF wire

(* gemini's map from ids to names.                                         *)
LEMMA GreatestMember ==
  ASSUME NEW n \in Nat, NEW S, S \subseteq 1 .. n, S # {}
  PROVE  Max(S) \in S
<1> DEFINE T == {k \in 0 .. n : n - k \in S}
<1>1. T \in SUBSET Nat
  OBVIOUS
<1>2. \A y \in S : y \in 1 .. n /\ n - y \in 0 .. n /\ n - (n - y) = y
  OBVIOUS
<1>3. \A y \in S : n - y \in T
  BY <1>2
<1>4. T # {}
  BY <1>3
<1>5. PICK k \in T : \A j \in T : k <= j
  BY <1>1, <1>4, LeastMember
<1>6. n - k \in S
  BY <1>5
<1>7. \A y \in S : n - k >= y
  <2> SUFFICES ASSUME NEW y \in S  PROVE n - k >= y
    OBVIOUS
  <2>1. k <= n - y
    BY <1>3, <1>5
  <2>2. k \in Nat /\ y \in Nat
    BY <1>2, <1>5
  <2> QED  BY <2>1, <2>2
<1> QED  BY <1>6, <1>7 DEF Max

LEMMA NameById ==
  ASSUME NEW conv \in Seq(MessageRecords), NEW x
  PROVE  IF Asking(conv, x) = {} THEN name_by_id(conv, x) = "none"
         ELSE \E k \in Asking(conv, x) : name_by_id(conv, x) = Calls(conv)[k].name
<1> DEFINE of == Asking(conv, x)
<1>1. name_by_id(conv, x) = IF of = {} THEN "none" ELSE Calls(conv)[Max(of)].name
  BY DEF name_by_id, Asking
<1>2. Len(Calls(conv)) \in Nat /\ of \subseteq 1 .. Len(Calls(conv))
  BY CallsIs, LenProperties DEF Asking
<1> HIDE DEF of
<1>3. of # {} => Max(of) \in of
  BY <1>2, GreatestMember
<1>4. IF of = {} THEN name_by_id(conv, x) = "none"
      ELSE \E k \in of : name_by_id(conv, x) = Calls(conv)[k].name
  BY <1>1, <1>3
<1> QED  BY <1>4 DEF of

NamedIn(conv) == [x \in Ids |-> name_by_id(conv, x)]

LEMMA GeminiAnswers ==
  ASSUME NEW conv \in Seq(MessageRecords), Plain(conv)
  PROVE  IsMap(NamedIn(conv), Ids, WireNames) /\ Rows(conv, NamedIn(conv), gemini_to_wire(conv))
<1> DEFINE wire == gemini_to_wire(conv)
           naming == NamedIn(conv)
<1>1. IsMap(naming, Ids, WireNames)
  <2> SUFFICES ASSUME NEW x \in Ids  PROVE name_by_id(conv, x) \in WireNames
    BY DEF IsMap, NamedIn
  <2>1. \A k \in Asking(conv, x) : Calls(conv)[k].name \in Tools
    BY CallOf DEF Asking, CallRecords
  <2> QED  BY <2>1, NameById DEF WireNames
<1>2. DOMAIN wire = DOMAIN conv
  BY DEF gemini_to_wire
<1>3. ASSUME NEW i \in DOMAIN conv
      PROVE  wire[i].calls = conv[i].calls /\ wire[i].results = Map(BlockOf(naming), conv[i].results)
  <2> DEFINE results == conv[i].results
             row == [j \in DOMAIN results |-> Block(results[j], name_by_id(conv, results[j].id))]
  <2>1. /\ results \in Seq(ResultRecords) /\ \A j \in DOMAIN results : results[j].id \in Ids
        /\ conv[i] \in MessageRecords
    BY MessageOf
  <2>2. /\ [j \in DOMAIN results |-> Block(results[j], naming[results[j].id])] = Map(BlockOf(naming), results)
        /\ results = <<>> => Map(BlockOf(naming), results) = results
    <3> HIDE DEF results, naming
    <3> QED  BY <1>1, <2>1, RowOfResults
  <2>3. row = Map(BlockOf(naming), results)
    <3>1. \A j \in DOMAIN results : naming[results[j].id] = name_by_id(conv, results[j].id)
      BY <2>1 DEF NamedIn
    <3> HIDE DEF results, naming
    <3> QED  BY <2>2, <3>1
  <2>4. CASE conv[i].role = "tool"
    <3>1. wire[i].calls = <<>> /\ wire[i].results = row
      BY <2>4 DEF gemini_to_wire
    <3> QED  BY <2>3, <2>4, <3>1 DEF Plain
  <2>5. CASE conv[i].role # "tool"
    <3>1. wire[i].calls = conv[i].calls /\ wire[i].results = conv[i].results /\ results = <<>>
      BY <2>1, <2>5 DEF gemini_to_wire, Plain, MessageRecords
    <3> HIDE DEF naming, wire
    <3> QED  BY <2>2, <3>1
  <2> QED  BY <2>4, <2>5
<1> HIDE DEF wire
<1>4. Rows(conv, naming, wire)
  BY <1>2, <1>3 DEF Rows
<1> QED  BY <1>1, <1>4 DEF wire

(* openai's wire has a message for each result.                            *)
WireMessages ==
  [role : {"user", "assistant", "tool"}, calls : Seq(CallRecords), results : Seq(Blocks)]

ToolRow(results) ==
  [j \in DOMAIN results |->
     [role |-> "tool", calls |-> <<>>, results |-> <<Block(results[j], "none")>>]]

OpenaiRow(m) == IF m.role = "tool" THEN ToolRow(m.results) ELSE <<m>>

WireCalls == [w \in WireMessages |-> w.calls]

WireResults == [w \in WireMessages |-> w.results]

LEMMA ToolRowIs ==
  ASSUME NEW results \in Seq(ResultRecords)
  PROVE  /\ ToolRow(results) \in Seq(WireMessages)
         /\ FlattenSeq(Map(WireCalls, ToolRow(results))) = <<>>
         /\ FlattenSeq(Map(WireResults, ToolRow(results))) = Map(BlockOf(NoNames), results)
<1> DEFINE n == Len(results)
           Msg(j) == [role |-> "tool", calls |-> <<>>, results |-> <<Block(results[j], "none")>>]
           row == ToolRow(results)
<1>1. n \in Nat /\ DOMAIN results = 1 .. n /\ \A j \in 1 .. n : results[j] \in ResultRecords
  BY LenProperties
<1> HIDE DEF n
<1>2. IsMap(NoNames, Ids, WireNames)
  BY DEF IsMap, NoNames, WireNames
<1>3. ASSUME NEW j \in 1 .. n
      PROVE  /\ BlockOf(NoNames)[results[j]] = Block(results[j], "none")
             /\ Block(results[j], "none") \in Blocks
  <2>1. results[j].id \in Ids
    BY <1>1, ResultShape
  <2>2. BlockOf(NoNames)[results[j]] = Block(results[j], "none")
    BY <1>1, <2>1 DEF BlockOf, NoNames
  <2>3. BlockOf(NoNames)[results[j]] \in Blocks
    BY <1>1, <1>2, BlockTyped DEF IsMap
  <2> QED  BY <2>2, <2>3
<1>4. ASSUME NEW j \in 1 .. n
      PROVE  Msg(j) \in WireMessages
  <2>1. <<Block(results[j], "none")>> \in Seq(Blocks) /\ <<>> \in Seq(CallRecords)
    BY <1>3, EmptySeq
  <2> QED  BY <2>1 DEF WireMessages
<1>5. row = [j \in 1 .. n |-> Msg(j)]
  BY <1>1 DEF ToolRow
<1>6. row \in Seq(WireMessages) /\ DOMAIN row = 1 .. n /\ \A j \in 1 .. n : row[j] = Msg(j)
  <2> HIDE DEF Msg, row
  <2> QED  BY <1>1, <1>4, <1>5
<1> HIDE DEF row
<1>7. /\ DOMAIN Map(WireCalls, row) = 1 .. n
      /\ \A j \in 1 .. n : Map(WireCalls, row)[j] = <<>>
  BY <1>4, <1>6 DEF Map, WireCalls
<1>8. Map(WireResults, row) = [j \in 1 .. n |-> <<Block(results[j], "none")>>]
  BY <1>4, <1>6 DEF Map, WireResults
<1>9. IsMap(WireCalls, WireMessages, Seq(CallRecords))
  BY DEF IsMap, WireCalls, WireMessages
<1>10. FlattenSeq(Map(WireCalls, row)) = <<>>
  <2>1. Map(WireCalls, row) \in Seq(Seq(CallRecords))
    BY <1>6, <1>9, MapTyped
  <2> QED  BY <1>7, <2>1, FlattenNothing
<1>11. FlattenSeq(Map(WireResults, row)) = Map(BlockOf(NoNames), results)
  <2> DEFINE s == Map(BlockOf(NoNames), results)
  <2>1. s \in Seq(Blocks) /\ DOMAIN s = 1 .. n
    BY <1>1, <1>2, BlockTyped, MapTyped
  <2>2. \A j \in 1 .. n : s[j] = Block(results[j], "none")
    BY <1>1, <1>3 DEF Map
  <2> HIDE DEF s
  <2>3. Map(WireResults, row) = Singles(s)
    BY <1>8, <2>1, <2>2 DEF Singles
  <2> QED  BY <2>1, <2>3, FlattenSingles DEF s
<1> QED  BY <1>6, <1>10, <1>11 DEF row

LEMMA OpenaiRowIs ==
  ASSUME NEW m \in MessageRecords,
         IF m.role = "tool" THEN m.calls = <<>> ELSE m.results = <<>>
  PROVE  /\ OpenaiRow(m) \in Seq(WireMessages)
         /\ FlattenSeq(Map(WireCalls, OpenaiRow(m))) = m.calls
         /\ FlattenSeq(Map(WireResults, OpenaiRow(m))) = Map(BlockOf(NoNames), m.results)
<1>1. m.calls \in Seq(CallRecords) /\ m.results \in Seq(ResultRecords)
  BY MessageShape
<1>2. CASE m.role = "tool"
  <2>1. OpenaiRow(m) = ToolRow(m.results)
    BY <1>2 DEF OpenaiRow
  <2>2. m.calls = <<>>
    BY <1>2
  <2> QED  BY <1>1, <2>1, <2>2, ToolRowIs
<1>3. CASE m.role # "tool"
  <2>1. OpenaiRow(m) = <<m>> /\ m.results = <<>>
    BY <1>3 DEF OpenaiRow
  <2>2. m \in WireMessages
    <3>1. <<>> \in Seq(Blocks)
      BY EmptySeq
    <3>2. m = [role |-> m.role, calls |-> m.calls, results |-> <<>>] /\ m.role \in {"user", "assistant", "tool"}
      BY <2>1 DEF MessageRecords
    <3> QED  BY <1>1, <3>1, <3>2 DEF WireMessages
  <2>3. <<m>> \in Seq(WireMessages)
    BY <2>2
  <2>4. Map(WireCalls, <<m>>) = <<m.calls>> /\ Map(WireResults, <<m>>) = <<<<>>>>
    BY <2>1, <2>2 DEF Map, WireCalls, WireResults
  <2>5. FlattenSeq(<<m.calls>>) = m.calls
    BY <1>1, FlattenOne
  <2>6. FlattenSeq(<<<<>>>>) = <<>>
    <3>1. <<>> \in Seq(Blocks)
      BY EmptySeq
    <3> QED  BY <3>1, FlattenOne
  <2>7. Map(BlockOf(NoNames), m.results) = <<>>
    BY <2>1 DEF Map
  <2> QED  BY <2>1, <2>3, <2>4, <2>5, <2>6, <2>7
<1> QED  BY <1>2, <1>3

LEMMA OpenaiAnswers ==
  ASSUME NEW conv \in Seq(MessageRecords), Plain(conv)
  PROVE  /\ Sent(openai_to_wire(conv)) = Calls(conv)
         /\ AnsweredIn(openai_to_wire(conv)) = Map(BlockOf(NoNames), ResultsIn(conv))
<1> DEFINE s == [i \in DOMAIN conv |-> OpenaiRow(conv[i])]
           wire == FlattenSeq(s)
           flatC == [w \in Seq(WireMessages) |-> FlattenSeq(Map(WireCalls, w))]
           flatR == [w \in Seq(WireMessages) |-> FlattenSeq(Map(WireResults, w))]
           r == [i \in DOMAIN conv |-> conv[i].results]
<1>1. openai_to_wire(conv) = wire
  BY DEF openai_to_wire, OpenaiRow, ToolRow
<1>2. \A i \in DOMAIN conv :
        /\ conv[i] \in MessageRecords
        /\ IF conv[i].role = "tool" THEN conv[i].calls = <<>> ELSE conv[i].results = <<>>
  BY MessageOf DEF Plain
<1>3. \A i \in DOMAIN conv :
        /\ OpenaiRow(conv[i]) \in Seq(WireMessages)
        /\ FlattenSeq(Map(WireCalls, OpenaiRow(conv[i]))) = conv[i].calls
        /\ FlattenSeq(Map(WireResults, OpenaiRow(conv[i]))) = Map(BlockOf(NoNames), conv[i].results)
  BY <1>2, OpenaiRowIs
<1>4. Len(conv) \in Nat /\ DOMAIN conv = 1 .. Len(conv)
  BY LenProperties
<1>5. s \in Seq(Seq(WireMessages))
  <2> DEFINE Y == Seq(WireMessages)
  <2>1. \A i \in 1 .. Len(conv) : OpenaiRow(conv[i]) \in Y
    BY <1>3, <1>4
  <2> HIDE DEF Y
  <2>2. s \in Seq(Y)
    BY <1>4, <2>1
  <2> QED  BY <2>2 DEF Y
<1>6. IsMap(WireCalls, WireMessages, Seq(CallRecords)) /\ IsMap(WireResults, WireMessages, Seq(Blocks))
  BY DEF IsMap, WireCalls, WireResults, WireMessages
<1>7. IsMap(flatC, Seq(WireMessages), Seq(CallRecords)) /\ IsMap(flatR, Seq(WireMessages), Seq(Blocks))
  <2>1. \A w \in Seq(WireMessages) :
          Map(WireCalls, w) \in Seq(Seq(CallRecords)) /\ Map(WireResults, w) \in Seq(Seq(Blocks))
    BY <1>6, MapTyped
  <2>2. \A w \in Seq(WireMessages) :
          FlattenSeq(Map(WireCalls, w)) \in Seq(CallRecords) /\ FlattenSeq(Map(WireResults, w)) \in Seq(Blocks)
    BY <2>1, FlattenTyped
  <2> QED  BY <2>2 DEF IsMap
<1>8. /\ \A w \in Seq(WireMessages) : flatC[w] = FlattenSeq(Map(WireCalls, w))
      /\ \A w \in Seq(WireMessages) : flatR[w] = FlattenSeq(Map(WireResults, w))
  OBVIOUS
<1>9. wire \in Seq(WireMessages)
  BY <1>5, FlattenTyped
<1>10. Map(flatC, s) = [i \in DOMAIN conv |-> conv[i].calls]
       /\ Map(flatR, s) = MapEach(BlockOf(NoNames), r)
  <2>1. \A i \in DOMAIN conv : flatC[OpenaiRow(conv[i])] = conv[i].calls
    BY <1>3
  <2>2. \A i \in DOMAIN conv : flatR[OpenaiRow(conv[i])] = Map(BlockOf(NoNames), conv[i].results)
    BY <1>3
  <2> HIDE DEF flatC, flatR
  <2> QED  BY <2>1, <2>2 DEF Map, MapEach
<1>11. r \in Seq(Seq(ResultRecords))
  <2> DEFINE Y == Seq(ResultRecords)
  <2>1. \A i \in 1 .. Len(conv) : conv[i].results \in Y
    BY <1>4, MessageOf
  <2> HIDE DEF Y
  <2>2. r \in Seq(Y)
    BY <1>4, <2>1
  <2> QED  BY <2>2 DEF Y
<1>12. IsMap(BlockOf(NoNames), ResultRecords, Blocks)
  <2>1. IsMap(NoNames, Ids, WireNames)
    BY DEF IsMap, NoNames, WireNames
  <2> QED  BY <2>1, BlockTyped
<1> HIDE DEF s, flatC, flatR, r
<1>13. FlattenSeq(Map(WireCalls, wire)) = FlattenSeq(Map(flatC, s))
  BY <1>5, <1>6, <1>7, <1>8, FlattenTwice
<1>14. FlattenSeq(Map(WireResults, wire)) = FlattenSeq(Map(flatR, s))
  BY <1>5, <1>6, <1>7, <1>8, FlattenTwice
<1>15. FlattenSeq(MapEach(BlockOf(NoNames), r)) = Map(BlockOf(NoNames), FlattenSeq(r))
  BY <1>11, <1>12, FlattenMap
<1> HIDE DEF wire
<1>16. /\ [i \in DOMAIN wire |-> wire[i].calls] = Map(WireCalls, wire)
       /\ [i \in DOMAIN wire |-> wire[i].results] = Map(WireResults, wire)
  <2>1. \A i \in DOMAIN wire : wire[i] \in WireMessages
    BY <1>9, LenProperties
  <2> QED  BY <2>1 DEF Map, WireCalls, WireResults
<1>17. Sent(wire) = Calls(conv)
  BY <1>10, <1>13, <1>16 DEF Sent, Calls
<1>18. AnsweredIn(wire) = Map(BlockOf(NoNames), ResultsIn(conv))
  BY <1>10, <1>14, <1>15, <1>16 DEF AnsweredIn, ResultsIn, r
<1> QED  BY <1>1, <1>17, <1>18

-----------------------------------------------------------------------------
(* Each call of the run that is on has its result, under the id that the   *)
(* provider gave to this call alone.                                       *)

Shown(c) == Has(Calls(messages), c) \/ \E key \in DOMAIN store : Has(store[key], c)

MintedIds == \A c : Shown(c) => \E n \in 1 .. minted : c.id = CallIds[n]

OneName == \A c, d : Shown(c) /\ Shown(d) /\ c.id = d.id => c.name = d.name

Due(conv) ==
  /\ conv # <<>> /\ Last(conv).role # "assistant"
  /\ ResultsIn(conv) = ResultsOf(Calls(conv))

WInv ==
  /\ RInv /\ Plain(messages) /\ MintedIds /\ OneName
  /\ mode # "idle" => Due(messages)

LEMMA ResultsOfConcat ==
  ASSUME mocks \in Mocks, NEW u \in Seq(CallRecords), NEW v \in Seq(CallRecords)
  PROVE  ResultsOf(u \o v) = ResultsOf(u) \o ResultsOf(v)
<1> DEFINE h == [c \in CallRecords |-> Result(c)]
<1>1. IsMap(h, CallRecords, ResultRecords)
  <2> SUFFICES ASSUME NEW c \in CallRecords  PROVE Result(c) \in ResultRecords
    BY DEF IsMap
  <2>1. mocks \in [Tools -> [content : Values, isError : {"ok", "error"}]]
    BY TranscriptAssumption
  <2>2. c.name \in Tools /\ c.id \in Ids
    BY DEF CallRecords
  <2>3. mocks[c.name] \in [content : Values, isError : {"ok", "error"}]
    BY <2>1, <2>2
  <2> QED  BY <2>2, <2>3 DEF Result, ResultRecords
<1>2. ASSUME NEW w \in Seq(CallRecords)
      PROVE  ResultsOf(w) = Map(h, w)
  <2>1. \A i \in DOMAIN w : w[i] \in CallRecords
    BY LenProperties
  <2> QED  BY <2>1 DEF ResultsOf, Map
<1> HIDE DEF h
<1>3. u \o v \in Seq(CallRecords)
  BY ConcatProperties
<1>4. Map(h, u \o v) = Map(h, u) \o Map(h, v)
  BY <1>1, MapConcat
<1> QED  BY <1>2, <1>3, <1>4

LEMMA PlainLonger ==
  ASSUME NEW conv \in Seq(MessageRecords), Plain(conv), NEW m \in MessageRecords,
         IF m.role = "tool" THEN m.calls = <<>> ELSE m.results = <<>>
  PROVE  Plain(conv \o <<m>>)
<1> DEFINE w == conv \o <<m>>
           n == Len(conv)
<1>1. /\ n \in Nat /\ DOMAIN conv = 1 .. n /\ DOMAIN w = 1 .. n + 1
      /\ \A i \in 1 .. n : w[i] = conv[i]
      /\ w[n + 1] = m
  BY Longer
<1> HIDE DEF w, n
<1>2. DOMAIN w = DOMAIN conv \cup {n + 1}
  BY <1>1
<1>3. Plain(w)
  BY <1>1, <1>2 DEF Plain
<1> QED  BY <1>3 DEF w

(* A turn leaves a conversation as it has to be.                           *)
LEMMA TurnIsDue ==
  ASSUME NEW conv \in Seq(MessageRecords), mocks \in Mocks, NEW calls \in Seq(CallRecords),
         Plain(conv), Due(conv)
  PROVE  /\ Plain(Asked(conv, calls)) /\ Plain(Grown(conv, calls)) /\ Due(Grown(conv, calls))
         /\ \A c : /\ Has(Calls(Asked(conv, calls)), c) => Has(Calls(conv), c) \/ Has(calls, c)
                   /\ Has(Calls(Grown(conv, calls)), c) => Has(Calls(conv), c) \/ Has(calls, c)
<1> DEFINE a == AssistantOf(calls)
           t == ToolMessage(ResultsOf(calls))
           v == conv \o <<a>>
           w == v \o <<t>>
<1>1. /\ a \in MessageRecords /\ t \in MessageRecords /\ a.role = "assistant" /\ t.role = "tool"
      /\ a.results = <<>> /\ t.calls = <<>>
  BY ResultsTyped, TurnMessages
<1>2. /\ Calls(v) = Calls(conv) \o calls /\ Calls(w) = Calls(conv) \o calls
      /\ ResultsIn(w) = ResultsIn(conv) \o ResultsOf(calls)
  BY TurnCalls DEF Asked, Grown
<1>3. Asked(conv, calls) = v /\ Grown(conv, calls) = w
  BY DEF Asked, Grown
<1> HIDE DEF a, t
<1>4. v \in Seq(MessageRecords) /\ Plain(v)
  BY <1>1, Longer, PlainLonger
<1> HIDE DEF v
<1>5. /\ w \in Seq(MessageRecords) /\ Plain(w)
      /\ Len(v) \in Nat /\ Len(w) = Len(v) + 1 /\ w[Len(v) + 1] = t
  BY <1>1, <1>4, Longer, PlainLonger
<1> HIDE DEF w
<1>6. w # <<>> /\ Last(w) = t
  BY <1>5, EmptySeq DEF Last
<1>7. Calls(conv) \in Seq(CallRecords)
  BY CallsIs
<1>8. ResultsIn(w) = ResultsOf(Calls(w))
  BY <1>2, <1>7, ResultsOfConcat DEF Due
<1>9. \A c : Has(Calls(conv) \o calls, c) => Has(Calls(conv), c) \/ Has(calls, c)
  BY <1>7, ConcatHas
<1>10. Due(w)
  BY <1>1, <1>6, <1>8 DEF Due
<1> QED  BY <1>2, <1>3, <1>4, <1>5, <1>9, <1>10

LEMMA UserAlone ==
  ASSUME mocks \in Mocks
  PROVE  Plain(<<User>>) /\ Due(<<User>>) /\ \A c : ~Has(Calls(<<User>>), c)
<1>1. User \in MessageRecords /\ <<>> \in Seq(MessageRecords)
  BY TurnMessages, EmptySeq
<1>2. <<User>> \in Seq(MessageRecords) /\ Plain(<<User>>)
  BY <1>1 DEF Plain, User
<1>3. [i \in DOMAIN <<User>> |-> <<User>>[i].calls] = <<<<>>>>
      /\ [i \in DOMAIN <<User>> |-> <<User>>[i].results] = <<<<>>>>
  BY DEF User
<1>4. FlattenSeq(<<<<>>>>) = <<>>
  BY EmptySeq, FlattenOne
<1>5. Calls(<<User>>) = <<>> /\ ResultsIn(<<User>>) = <<>>
  BY <1>3, <1>4 DEF Calls, ResultsIn
<1>6. ResultsOf(<<>>) = <<>> /\ \A c : ~Has(<<>>, c)
  BY DEF ResultsOf, Has
<1>7. <<User>> # <<>> /\ Last(<<User>>).role # "assistant"
  BY DEF Last, User
<1> QED  BY <1>2, <1>5, <1>6, <1>7 DEF Due

LEMMA WInvInit == Init => WInv
<1> SUFFICES ASSUME Init  PROVE WInv
  OBVIOUS
<1>1. RInv
  BY RInvInit
<1>2. messages = <<>> /\ DOMAIN store = {} /\ mode = "idle"
  BY DEF Init
<1>3. Calls(<<>>) = <<>>
  <2>1. [i \in DOMAIN <<>> |-> <<>>[i].calls] = <<>>
    OBVIOUS
  <2> QED  BY <2>1, FlattenEmpty DEF Calls
<1>4. \A c : ~Shown(c)
  BY <1>2, <1>3 DEF Shown, Has
<1>5. Plain(messages)
  BY <1>2 DEF Plain
<1> QED  BY <1>1, <1>2, <1>4, <1>5 DEF WInv, MintedIds, OneName

(* A turn shows the calls that were shown, and those of the answer.        *)
LEMMA TurnKeeps ==
  ASSUME WInv, mode # "idle", mocks' = mocks, NEW calls \in Seq(CallRecords), Continue(calls)
  PROVE  /\ Plain(messages)' /\ (mode # "idle" => Due(messages))'
         /\ \A c : Has(Calls(messages'), c) => Has(Calls(messages), c) \/ Has(calls, c)
<1>1. /\ messages \in Seq(MessageRecords) /\ mocks \in Mocks
      /\ mode \in {"idle", "auto", "record", "replay"}
      /\ Plain(messages) /\ Due(messages)
  BY DEF WInv, RInv, TypeOK
<1>2. \/ messages' = Asked(messages, calls) /\ mode' = "idle"
      \/ messages' = Grown(messages, calls)
  BY <1>1, ContinueIs
<1>3. /\ Plain(Asked(messages, calls)) /\ Plain(Grown(messages, calls)) /\ Due(Grown(messages, calls))
      /\ \A c : /\ Has(Calls(Asked(messages, calls)), c) => Has(Calls(messages), c) \/ Has(calls, c)
                /\ Has(Calls(Grown(messages, calls)), c) => Has(Calls(messages), c) \/ Has(calls, c)
  BY <1>1, TurnIsDue
<1>4. Plain(messages')
  BY <1>2, <1>3
<1>5. mode' # "idle" => Due(messages)'
  <2> SUFFICES ASSUME mode' # "idle"  PROVE Due(messages)'
    OBVIOUS
  <2> DEFINE w == Grown(messages, calls)
  <2>1. messages' = w /\ Due(w)
    BY <1>2, <1>3
  <2> HIDE DEF w
  <2>2. /\ messages' # <<>> /\ Last(messages').role # "assistant"
        /\ ResultsIn(messages') = ResultsOf(Calls(messages'))
    BY <2>1 DEF Due
  <2>3. ResultsOf(Calls(messages)) ' = ResultsOf(Calls(messages'))
    BY DEF ResultsOf, Result
  <2> QED  BY <2>2, <2>3 DEF Due
<1>6. \A c : Has(Calls(messages'), c) => Has(Calls(messages), c) \/ Has(calls, c)
  BY <1>2, <1>3
<1> QED  BY <1>4, <1>5, <1>6 DEF Plain

LEMMA ShownKeeps ==
  ASSUME WInv, minted' = minted, \A c : Shown(c)' => Shown(c)
  PROVE  MintedIds' /\ OneName'
<1>1. /\ \A c : Shown(c) => \E n \in 1 .. minted : c.id = CallIds[n]
      /\ \A c, d : Shown(c) /\ Shown(d) /\ c.id = d.id => c.name = d.name
  BY DEF WInv, MintedIds, OneName
<1>2. \A c : Shown(c)' => \E n \in 1 .. minted' : c.id = CallIds[n]
  BY <1>1
<1>3. \A c, d : Shown(c)' /\ Shown(d)' /\ c.id = d.id => c.name = d.name
  BY <1>1
<1> QED  BY <1>2, <1>3 DEF MintedIds, OneName

LEMMA WInvNext == WInv /\ [Next]_vars => WInv'
<1> SUFFICES ASSUME WInv, [Next]_vars  PROVE WInv'
  OBVIOUS
<1>1. RInv'
  BY RInvNext DEF WInv
<1>2. /\ messages \in Seq(MessageRecords) /\ mocks \in Mocks /\ provider \in Providers
      /\ minted \in 0 .. Len(CallIds)
      /\ \A key \in DOMAIN store : store[key] \in Seq(CallRecords)
      /\ Plain(messages)
  BY DEF WInv, RInv, TypeOK
<1>3. ASSUME UNCHANGED <<messages, store, minted>>, mode' = "idle"
      PROVE  WInv'
  <2>1. \A c : Shown(c)' => Shown(c)
    BY <1>3 DEF Shown
  <2>2. MintedIds' /\ OneName'
    BY <1>3, <2>1, ShownKeeps
  <2>3. Plain(messages')
    BY <1>2, <1>3
  <2> QED  BY <1>1, <1>3, <2>2, <2>3 DEF WInv, Plain
<1>4. CASE Edit
  BY <1>3, <1>4 DEF Edit
<1>5. ASSUME NEW m \in {"auto", "record", "replay"}, Start(m)
      PROVE  WInv'
  <2>1. messages' = <<User>> /\ store' = store /\ minted' = minted /\ mocks' = mocks
    BY <1>5 DEF Start
  <2>2. Plain(<<User>>) /\ Due(<<User>>) /\ \A c : ~Has(Calls(<<User>>), c)
    BY <1>2, UserAlone
  <2> DEFINE w == <<User>>
  <2> HIDE DEF w
  <2>3. messages' = w /\ Plain(w) /\ Due(w) /\ \A c : ~Has(Calls(w), c)
    BY <2>1, <2>2 DEF w
  <2>4. \A c : Shown(c)' => Shown(c)
    BY <2>1, <2>3 DEF Shown
  <2>5. MintedIds' /\ OneName'
    BY <2>1, <2>4, ShownKeeps
  <2>6. Plain(messages)'
    BY <2>3 DEF Plain
  <2>7. Due(messages)'
    <3>1. ResultsOf(Calls(messages))' = ResultsOf(Calls(messages'))
      BY <2>1 DEF ResultsOf, Result
    <3> QED  BY <2>3, <3>1 DEF Due
  <2> QED  BY <1>1, <2>5, <2>6, <2>7 DEF WInv
<1>6. CASE Hit
  <2> DEFINE calls == store[Key(messages)]
  <2>1. /\ Key(messages) \in DOMAIN store /\ Continue(calls) /\ mode # "idle"
        /\ UNCHANGED <<mocks, store, minted>>
    BY <1>6 DEF Hit
  <2>2. calls \in Seq(CallRecords) /\ \A c : Has(calls, c) => Shown(c)
    BY <1>2, <2>1 DEF Shown
  <2> HIDE DEF calls
  <2>3. /\ Plain(messages)' /\ (mode # "idle" => Due(messages))'
        /\ \A c : Has(Calls(messages'), c) => Has(Calls(messages), c) \/ Has(calls, c)
    BY <2>1, <2>2, TurnKeeps
  <2>4. \A c : Shown(c)' => Shown(c)
    BY <2>1, <2>2, <2>3 DEF Shown
  <2>5. MintedIds' /\ OneName'
    BY <2>1, <2>4, ShownKeeps
  <2> QED  BY <1>1, <2>3, <2>5 DEF WInv
<1>7. CASE Miss
  BY <1>3, <1>7 DEF Miss
<1>8. ASSUME NEW a \in Answers, AskLive(a)
      PROVE  WInv'
  <2> DEFINE calls == from_wire(a, minted)
             key == Key(messages)
  <2>1. /\ store' = Put(store, key, calls) /\ mocks' = mocks /\ mode # "idle"
        /\ Continue(calls) /\ minted' = minted + Len(a) /\ minted + Len(a) <= Len(CallIds)
    BY <1>8 DEF AskLive
  <2>2. minted \in Nat /\ Len(CallIds) \in Nat
    BY <1>2, ConstantTypes
  <2>3. /\ calls \in Seq(CallRecords) /\ Len(a) \in Nat /\ Len(calls) = Len(a)
        /\ \A i \in 1 .. Len(a) : calls[i].id = CallIds[minted + i]
    BY <1>2, <2>1, <2>2, FromWire
  <2> HIDE DEF calls, key
  <2>4. /\ Plain(messages)' /\ (mode # "idle" => Due(messages))'
        /\ \A c : Has(Calls(messages'), c) => Has(Calls(messages), c) \/ Has(calls, c)
    BY <2>1, <2>3, TurnKeeps
  <2>5. \A k \in DOMAIN store' : store'[k] = calls \/ (k \in DOMAIN store /\ store'[k] = store[k])
    BY <2>1 DEF Put
  <2>6. \A c : Shown(c)' => Shown(c) \/ Has(calls, c)
    BY <2>4, <2>5 DEF Shown
  <2>7. ASSUME NEW c, Has(calls, c)
        PROVE  \E i \in 1 .. Len(a) : c = calls[i] /\ c.id = CallIds[minted + i]
    <3>1. DOMAIN calls = 1 .. Len(a)
      BY <2>3, LenProperties
    <3> QED  BY <2>3, <2>7, <3>1 DEF Has
  <2>8. MintedIds'
    <3> SUFFICES ASSUME NEW c, Shown(c) \/ Has(calls, c)
                 PROVE  \E n \in 1 .. minted' : c.id = CallIds[n]
      BY <2>6 DEF MintedIds
    <3>1. CASE Shown(c)
      <4>1. PICK n \in 1 .. minted : c.id = CallIds[n]
        BY <3>1 DEF WInv, MintedIds
      <4>2. n \in 1 .. minted'
        BY <2>1, <2>2, <2>3
      <4> QED  BY <4>1, <4>2
    <3>2. CASE Has(calls, c)
      <4>1. PICK i \in 1 .. Len(a) : c.id = CallIds[minted + i]
        BY <2>7, <3>2
      <4>2. minted + i \in 1 .. minted'
        BY <2>1, <2>2, <2>3
      <4> QED  BY <4>1, <4>2
    <3> QED  BY <3>1, <3>2
  <2>9. OneName'
    <3>1. ASSUME NEW c, NEW d, Has(calls, c), Has(calls, d), c.id = d.id
          PROVE  c.name = d.name
      <4>1. PICK i \in 1 .. Len(a) : c = calls[i] /\ c.id = CallIds[minted + i]
        BY <2>7, <3>1
      <4>2. PICK j \in 1 .. Len(a) : d = calls[j] /\ d.id = CallIds[minted + j]
        BY <2>7, <3>1
      <4>3. minted + i \in 1 .. Len(CallIds) /\ minted + j \in 1 .. Len(CallIds)
        BY <2>1, <2>2, <2>3
      <4>4. minted + i = minted + j
        BY <3>1, <4>1, <4>2, <4>3, ConstantTypes
      <4>5. i = j
        BY <2>2, <2>3, <4>4
      <4> QED  BY <4>1, <4>2, <4>5
    <3>2. ASSUME NEW c, NEW d, Has(calls, c), Shown(d), c.id = d.id
          PROVE  FALSE
      <4>1. PICK i \in 1 .. Len(a) : c.id = CallIds[minted + i]
        BY <2>7, <3>2
      <4>2. PICK n \in 1 .. minted : d.id = CallIds[n]
        BY <3>2 DEF WInv, MintedIds
      <4>3. /\ minted + i \in 1 .. Len(CallIds) /\ n \in 1 .. Len(CallIds)
            /\ minted + i # n
        BY <2>1, <2>2, <2>3
      <4> QED  BY <3>2, <4>1, <4>2, <4>3, ConstantTypes
    <3>3. \A c, d : Shown(c) /\ Shown(d) /\ c.id = d.id => c.name = d.name
      BY DEF WInv, OneName
    <3>4. \A c, d : Shown(c)' /\ Shown(d)' /\ c.id = d.id => c.name = d.name
      BY <2>6, <3>1, <3>2, <3>3
    <3> QED  BY <3>4 DEF OneName
  <2> QED  BY <1>1, <2>4, <2>8, <2>9 DEF WInv
<1>9. CASE Interrupt
  BY <1>3, <1>9 DEF Interrupt
<1>10. CASE UNCHANGED vars
  <2>1. \A c : Shown(c)' => Shown(c)
    BY <1>10 DEF Shown, vars
  <2>2. MintedIds' /\ OneName'
    BY <1>10, <2>1, ShownKeeps DEF vars
  <2>3. (mode # "idle" => Due(messages))' /\ Plain(messages)'
    BY <1>10 DEF WInv, vars, Due, ResultsOf, Result, Plain
  <2> QED  BY <1>1, <2>2, <2>3 DEF WInv
<1> QED  BY <1>4, <1>5, <1>6, <1>7, <1>8, <1>9, <1>10 DEF Next

LEMMA WInvAlways == Spec => []WInv
BY WInvInit, WInvNext, PTL DEF Spec

(* Whatever the wire, the provider is sent one result for each of its      *)
(* calls, in their order, under its id and name and with what the mock of  *)
(* this run says.                                                          *)
THEOREM WireAnswers == Spec => []WireAnswersEveryCall
<1>1. WInv => WireAnswersEveryCall
  <2> SUFFICES ASSUME WInv, mode # "idle"
               PROVE  WireAnswersEveryCall
    BY DEF WireAnswersEveryCall
  <2>1. /\ messages \in Seq(MessageRecords) /\ mocks \in Mocks
        /\ provider \in {"openai", "anthropic", "gemini"}
        /\ Plain(messages) /\ Due(messages)
    BY TranscriptAssumption DEF WInv, RInv, TypeOK
  <2> DEFINE wire == to_wire(messages)
             sent == Sent(wire)
             answered == AnsweredIn(wire)
             calls == Calls(messages)
             naming == IF provider = "gemini" THEN NamedIn(messages) ELSE NoNames
  <2>2. sent = calls /\ answered = Map(BlockOf(naming), ResultsIn(messages))
    <3>1. CASE provider = "openai"
      BY <2>1, <3>1, OpenaiAnswers DEF to_wire
    <3>2. CASE provider = "anthropic"
      BY <2>1, <3>2, AnthropicAnswers, RowsAnswer DEF to_wire
    <3>3. CASE provider = "gemini"
      BY <2>1, <3>3, GeminiAnswers, RowsAnswer DEF to_wire
    <3> QED  BY <2>1, <3>1, <3>2, <3>3
  <2>3. calls \in Seq(CallRecords) /\ ResultsIn(messages) = ResultsOf(calls)
    BY <2>1, CallsIs DEF Due
  <2> HIDE DEF calls
  <2>4. /\ ResultsOf(calls) \in Seq(ResultRecords) /\ Len(ResultsOf(calls)) = Len(calls)
        /\ DOMAIN calls = 1 .. Len(calls)
        /\ \A i \in 1 .. Len(calls) :
             /\ ResultsOf(calls)[i] \in ResultRecords
             /\ ResultsOf(calls)[i].id = calls[i].id
             /\ ResultsOf(calls)[i].content = mocks[calls[i].name].content
    BY <2>1, <2>3, ResultsTyped, LenProperties
  <2> HIDE DEF naming
  <2>5. /\ DOMAIN answered = 1 .. Len(calls)
        /\ \A i \in 1 .. Len(calls) :
             answered[i] = Block(ResultsOf(calls)[i], naming[calls[i].id])
    <3>1. DOMAIN ResultsOf(calls) = 1 .. Len(calls)
      BY <2>4, LenProperties
    <3> QED  BY <2>2, <2>3, <2>4, <3>1 DEF Map, BlockOf
  <2>6. Len(answered) = Len(calls)
    <3>1. Len(calls) \in Nat
      BY <2>3, LenProperties
    <3> HIDE DEF answered
    <3> QED  BY <2>5, <3>1
  <2>7. ASSUME NEW i \in 1 .. Len(calls), provider = "gemini"
        PROVE  naming[calls[i].id] = calls[i].name
    <3> DEFINE x == calls[i].id
    <3>1. x \in Ids /\ i \in Asking(messages, x)
      BY <2>1, <2>4, CallOf DEF Asking, calls
    <3>2. PICK k \in Asking(messages, x) : name_by_id(messages, x) = Calls(messages)[k].name
      BY <2>1, <3>1, NameById
    <3>3. Calls(messages)[k].id = x /\ Has(calls, calls[k]) /\ Has(calls, calls[i])
      BY <2>4, <3>2 DEF Asking, Has, calls
    <3>4. calls[k].name = calls[i].name
      BY <3>3 DEF WInv, OneName, Shown, calls
    <3>5. naming[x] = name_by_id(messages, x)
      BY <2>7, <3>1 DEF naming, NamedIn
    <3> QED  BY <3>2, <3>4, <3>5 DEF calls
  <2>8. \A i \in 1 .. Len(calls) :
          /\ answered[i].id = calls[i].id
          /\ provider = "gemini" => answered[i].name = calls[i].name
          /\ answered[i].content = mocks[calls[i].name].content
    BY <2>4, <2>5, <2>7 DEF Block
  <2>9. Last(messages).role # "assistant"
    BY <2>1 DEF Due
  <2> HIDE DEF answered, sent
  <2>10. /\ Len(answered) = Len(sent)
         /\ \A i \in 1 .. Len(sent) :
              /\ answered[i].id = sent[i].id
              /\ provider = "gemini" => answered[i].name = sent[i].name
              /\ answered[i].content = mocks[sent[i].name].content
    BY <2>2, <2>6, <2>8
  <2> QED  BY <2>9, <2>10 DEF WireAnswersEveryCall, answered, sent, Sent, AnsweredIn
<1> QED  BY <1>1, WInvAlways, PTL

-----------------------------------------------------------------------------
(* Verdicts over a trace that grows.                                       *)

LEMMA PrefixRest ==
  ASSUME NEW X, NEW c \in Seq(X), NEW d \in Seq(X), IsPrefix(c, d)
  PROVE  \E e \in Seq(X) : d = c \o e
<1> DEFINE n == Len(c)
           m == Len(d)
           e == [i \in 1 .. m - n |-> d[i + n]]
<1>1. n \in Nat /\ m \in Nat /\ n <= m /\ DOMAIN c = 1 .. n /\ DOMAIN d = 1 .. m
  BY LenProperties DEF IsPrefix
<1>2. \A i \in 1 .. m : d[i] \in X
  BY <1>1, LenProperties
<1>3. SubSeq(c, 1, n) = SubSeq(d, 1, n)
  BY DEF IsPrefix
<1>4. ASSUME NEW i \in 1 .. n
      PROVE  c[i] = d[i]
  <2>1. SubSeq(c, 1, n)[i] = c[i] /\ SubSeq(d, 1, n)[i] = d[i]
    BY <1>1
  <2> QED  BY <1>3, <2>1
<1> HIDE DEF n, m
<1>5. \A i \in 1 .. m - n : i + n \in 1 .. m
  BY <1>1
<1>6. e \in Seq(X) /\ Len(e) = m - n /\ \A i \in 1 .. m - n : e[i] = d[i + n]
  BY <1>1, <1>2, <1>5
<1> HIDE DEF e
<1> DEFINE w == c \o e
<1>7. w \in Seq(X) /\ Len(w) = n + (m - n)
  BY <1>6, ConcatProperties DEF n
<1>8. \A i \in 1 .. n + (m - n) : w[i] = IF i <= n THEN c[i] ELSE e[i - n]
  BY <1>6, ConcatProperties DEF n
<1>9. n + (m - n) = m
  BY <1>1
<1> HIDE DEF w
<1>10. ASSUME NEW i \in 1 .. m
       PROVE  w[i] = d[i]
  <2>1. CASE i <= n
    <3>1. i \in 1 .. n
      BY <1>1, <2>1
    <3> QED  BY <1>4, <1>8, <1>9, <2>1, <3>1
  <2>2. CASE ~(i <= n)
    <3>1. i - n \in 1 .. m - n /\ (i - n) + n = i
      BY <1>1, <2>2
    <3> QED  BY <1>6, <1>8, <1>9, <2>2, <3>1
  <2> QED  BY <2>1, <2>2
<1>11. w = d
  BY <1>7, <1>9, <1>10, SeqEqual DEF m
<1> QED  BY <1>6, <1>11 DEF w

(* The calls of more messages are more calls.                              *)
LEMMA MoreCalls ==
  ASSUME NEW c \in Seq(MessageRecords), NEW e \in Seq(MessageRecords)
  PROVE  Calls(c \o e) = Calls(c) \o Calls(e)
<1>1. c \o e \in Seq(MessageRecords)
  BY ConcatProperties
<1>2. IsMap(CallsOf, MessageRecords, Seq(CallRecords))
  BY CallsIs
<1>3. Map(CallsOf, c \o e) = Map(CallsOf, c) \o Map(CallsOf, e)
  BY <1>2, MapConcat
<1>4. Map(CallsOf, c) \in Seq(Seq(CallRecords)) /\ Map(CallsOf, e) \in Seq(Seq(CallRecords))
  BY <1>2, MapTyped
<1>5. FlattenSeq(Map(CallsOf, c) \o Map(CallsOf, e)) = FlattenSeq(Map(CallsOf, c)) \o FlattenSeq(Map(CallsOf, e))
  BY <1>4, FlattenConcat
<1> QED  BY <1>1, <1>3, <1>5, CallsIs

(* The calls of a trace and of one that goes on.                           *)
Longs(u, w) ==
  /\ Len(u) \in Nat /\ Len(w) \in Nat /\ Len(u) <= Len(w)
  /\ DOMAIN u = 1 .. Len(u) /\ DOMAIN w = 1 .. Len(w)
  /\ \A i \in 1 .. Len(u) : w[i] = u[i]

LEMMA ConcatLongs ==
  ASSUME NEW X, NEW u \in Seq(X), NEW v \in Seq(X)
  PROVE  Longs(u, u \o v)
<1> DEFINE w == u \o v
<1>1. w \in Seq(X) /\ Len(w) = Len(u) + Len(v)
  BY ConcatProperties
<1>2. \A i \in 1 .. Len(u) + Len(v) : w[i] = IF i <= Len(u) THEN u[i] ELSE v[i - Len(u)]
  BY ConcatProperties
<1> HIDE DEF w
<1>3. Len(u) \in Nat /\ Len(v) \in Nat /\ DOMAIN u = 1 .. Len(u) /\ DOMAIN w = 1 .. Len(w)
  BY <1>1, LenProperties
<1>4. \A i \in 1 .. Len(u) : w[i] = u[i]
  BY <1>2, <1>3
<1>5. Longs(u, w)
  BY <1>1, <1>3, <1>4 DEF Longs
<1> QED  BY <1>5 DEF w

LEMMA OfToolFinite ==
  ASSUME NEW calls, NEW n \in Nat, DOMAIN calls = 1 .. n, NEW S, S \subseteq DOMAIN calls
  PROVE  IsFiniteSet(S) /\ Cardinality(S) \in Nat
<1>1. IsFiniteSet(1 .. n)
  BY FS_Interval
<1>2. IsFiniteSet(S)
  BY <1>1, FS_Subset
<1> QED  BY <1>2, FS_CardinalityType

LEMMA OccurrencesGrow ==
  ASSUME NEW u, NEW w, Longs(u, w), NEW tool
  PROVE  /\ OfTool(u, tool) \subseteq OfTool(w, tool)
         /\ OfTool(u, tool) = {i \in OfTool(w, tool) : i <= Len(u)}
         /\ Occurrences(u, tool) \in Nat /\ Occurrences(w, tool) \in Nat
         /\ Occurrences(u, tool) <= Occurrences(w, tool)
<1>1. /\ Len(u) \in Nat /\ Len(w) \in Nat /\ Len(u) <= Len(w)
      /\ DOMAIN u = 1 .. Len(u) /\ DOMAIN w = 1 .. Len(w)
      /\ \A i \in 1 .. Len(u) : w[i] = u[i]
  BY DEF Longs
<1>2. OfTool(u, tool) \subseteq OfTool(w, tool)
  BY <1>1 DEF OfTool
<1>3. OfTool(u, tool) = {i \in OfTool(w, tool) : i <= Len(u)}
  BY <1>1 DEF OfTool
<1>4. OfTool(u, tool) \subseteq DOMAIN u /\ OfTool(w, tool) \subseteq DOMAIN w
  BY DEF OfTool
<1>5. /\ IsFiniteSet(OfTool(u, tool)) /\ Cardinality(OfTool(u, tool)) \in Nat
      /\ IsFiniteSet(OfTool(w, tool)) /\ Cardinality(OfTool(w, tool)) \in Nat
  BY <1>1, <1>4, OfToolFinite
<1>6. Cardinality(OfTool(u, tool)) <= Cardinality(OfTool(w, tool))
  BY <1>2, <1>5, FS_Subset
<1> QED  BY <1>2, <1>3, <1>5, <1>6 DEF Occurrences

LEMMA CountsSettle ==
  ASSUME NEW u, NEW w, Longs(u, w), NEW tool
  PROVE  /\ CallsTool(u, tool) => CallsTool(w, tool)
         /\ ~NotCallsTool(u, tool) => ~NotCallsTool(w, tool)
         /\ \A n \in 0 .. 2 :
              /\ MinToolCalls(u, tool, n) => MinToolCalls(w, tool, n)
              /\ MinToolCalls(u, tool, n + 1) => ~CallsToolExactly(w, tool, n)
<1> DEFINE a == Occurrences(u, tool)
           b == Occurrences(w, tool)
<1>1. a \in Nat /\ b \in Nat /\ a <= b
  BY OccurrencesGrow
<1> HIDE DEF a, b
<1>2. /\ a >= 1 => b >= 1
      /\ a # 0 => b # 0
      /\ \A n \in 0 .. 2 : (a >= n => b >= n) /\ (a >= n + 1 => b # n)
  BY <1>1
<1> QED  BY <1>2 DEF CallsTool, NotCallsTool, MinToolCalls, CallsToolExactly, a, b

(* The nth call of a tool stays the nth.                                   *)
LEMMA ArgsSettle ==
  ASSUME NEW u, NEW w, Longs(u, w), NEW tool, NEW match, NEW n \in Nat, n < Occurrences(u, tool)
  PROVE  ToolArgs(u, tool, match, n) <=> ToolArgs(w, tool, match, n)
<1> DEFINE Before(calls, i) == {j \in OfTool(calls, tool) : j < i}
<1>1. /\ Len(u) \in Nat /\ Len(w) \in Nat /\ Len(u) <= Len(w)
      /\ DOMAIN u = 1 .. Len(u) /\ DOMAIN w = 1 .. Len(w)
      /\ \A i \in 1 .. Len(u) : w[i] = u[i]
  BY DEF Longs
<1>2. /\ OfTool(u, tool) \subseteq OfTool(w, tool)
      /\ OfTool(u, tool) = {i \in OfTool(w, tool) : i <= Len(u)}
      /\ OfTool(u, tool) \subseteq 1 .. Len(u) /\ OfTool(w, tool) \subseteq 1 .. Len(w)
  BY <1>1, OccurrencesGrow DEF OfTool
<1>3. \A calls, i : IsIndexed(calls, tool, n, i) <=> Cardinality(Before(calls, i)) = n
  BY DEF IsIndexed
<1>4. ASSUME NEW i \in OfTool(u, tool)
      PROVE  Before(u, i) = Before(w, i)
  <2>1. i \in 1 .. Len(u)
    BY <1>2
  <2>2. \A j \in OfTool(w, tool) : j < i => j <= Len(u)
    BY <1>1, <1>2, <2>1
  <2> QED  BY <1>2, <2>2
<1>5. ASSUME NEW i \in OfTool(w, tool), Cardinality(Before(w, i)) = n
      PROVE  i \in OfTool(u, tool)
  <2> SUFFICES ASSUME i \notin OfTool(u, tool)  PROVE FALSE
    OBVIOUS
  <2>1. i \in 1 .. Len(w) /\ ~(i <= Len(u))
    BY <1>2
  <2>2. OfTool(u, tool) \subseteq Before(w, i)
    BY <1>1, <1>2, <2>1
  <2>3. Before(w, i) \subseteq DOMAIN w
    BY <1>1, <1>2
  <2> HIDE DEF Before
  <2>4. IsFiniteSet(Before(w, i))
    BY <1>1, <2>3, OfToolFinite
  <2>5. Cardinality(OfTool(u, tool)) <= Cardinality(Before(w, i))
    BY <2>2, <2>4, FS_Subset
  <2>6. Occurrences(u, tool) <= n /\ Occurrences(u, tool) \in Nat
    BY <1>5, <2>5, OccurrencesGrow DEF Occurrences
  <2> QED  BY <2>6
<1>6. \A i \in OfTool(u, tool) : w[i] = u[i]
  BY <1>1, <1>2
<1> HIDE DEF Before
<1>7. ToolArgs(u, tool, match, n) => ToolArgs(w, tool, match, n)
  BY <1>2, <1>3, <1>4, <1>6 DEF ToolArgs
<1>8. ToolArgs(w, tool, match, n) => ToolArgs(u, tool, match, n)
  <2> SUFFICES ASSUME NEW i \in OfTool(w, tool), IsIndexed(w, tool, n, i),
                      w[i].malformed = "none", matches_subset[match][w[i].args]
               PROVE  ToolArgs(u, tool, match, n)
    BY DEF ToolArgs
  <2>1. i \in OfTool(u, tool)
    BY <1>3, <1>5
  <2> QED  BY <1>3, <1>4, <1>6, <2>1 DEF ToolArgs
<1> QED  BY <1>7, <1>8

-----------------------------------------------------------------------------
(* call_order finds a subsequence if there is one.                         *)

ReachStep(calls, at, name) ==
  LET found == Found(calls, at, name)
  IN  IF found = {} THEN Len(calls) + 1
      ELSE CHOOSE i \in found : \A j \in found : i <= j

LEMMA ReachStepIs ==
  ASSUME NEW calls, Len(calls) \in Nat, NEW at \in Nat, NEW name
  PROVE  /\ ReachStep(calls, at, name) \in 0 .. Len(calls) + 1
         /\ IF Found(calls, at, name) = {} THEN ReachStep(calls, at, name) = Len(calls) + 1
            ELSE /\ ReachStep(calls, at, name) \in Found(calls, at, name)
                 /\ \A j \in Found(calls, at, name) : ReachStep(calls, at, name) <= j
<1> DEFINE found == Found(calls, at, name)
           L == Len(calls)
<1>1. found \subseteq 1 .. L /\ found \in SUBSET Nat /\ L \in Nat
  BY DEF Found
<1>2. ReachStep(calls, at, name)
        = IF found = {} THEN L + 1 ELSE CHOOSE i \in found : \A j \in found : i <= j
  BY DEF ReachStep
<1> HIDE DEF found, L
<1>3. CASE found = {}
  <2>1. ReachStep(calls, at, name) = L + 1 /\ L + 1 \in 0 .. L + 1
    BY <1>1, <1>2, <1>3
  <2> QED  BY <1>3, <2>1 DEF found, L
<1>4. CASE found # {}
  <2>1. \E i \in found : \A j \in found : i <= j
    BY <1>1, <1>4, LeastMember
  <2> DEFINE c == CHOOSE i \in found : \A j \in found : i <= j
  <2>2. c \in found /\ \A j \in found : c <= j
    BY <2>1
  <2>3. ReachStep(calls, at, name) = c
    BY <1>2, <1>4
  <2> HIDE DEF c
  <2>4. c \in 0 .. L + 1
    BY <1>1, <2>2
  <2> QED  BY <1>4, <2>2, <2>3, <2>4 DEF found, L
<1> QED  BY <1>3, <1>4

(* How far each search gets.                                               *)
Search(calls, order, n, g) ==
  /\ g[0] = 0
  /\ \A k \in 1 .. n : g[k] = ReachStep(calls, g[k - 1], order[k])
  /\ \A k \in 0 .. n : g[k] \in 0 .. Len(calls) + 1

Searches(calls, order, n, g) ==
  g = [k \in 0 .. n |-> IF k = 0 THEN 0 ELSE ReachStep(calls, g[k - 1], order[k])]

LEMMA ReachedIs ==
  ASSUME NEW calls, Len(calls) \in Nat, NEW order, NEW n, Len(order) = n, n \in Nat
  PROVE  Search(calls, order, n, Reached(calls, order))
<1> DEFINE Y == 0 .. Len(calls) + 1
           F == [k \in 1 .. n |-> [at \in Y |-> ReachStep(calls, at, order[k])]]
<1>1. 0 \in Y /\ Y \subseteq Nat
  OBVIOUS
<1>2. \A k \in 1 .. n, at \in Y : ReachStep(calls, at, order[k]) \in Y
  BY <1>1, ReachStepIs
<1>3. F \in [1 .. n -> [Y -> Y]]
  <2> HIDE DEF Y
  <2> QED  BY <1>2
<1>4. \A k \in 1 .. n, at \in Y : F[k][at] = ReachStep(calls, at, order[k])
  <2> HIDE DEF Y
  <2> QED  OBVIOUS
<1> HIDE DEF F, Y
<1>5. PICK run \in [0 .. n -> Y] : IsRun(run, n, 0, F)
  BY <1>1, <1>3, RunExists
<1>6. \A k \in 1 .. n : k - 1 \in 0 .. n /\ k \in 0 .. n /\ k # 0
  OBVIOUS
<1>7. \A k \in 0 .. n : k # 0 => k \in 1 .. n
  OBVIOUS
<1>8. Searches(calls, order, n, run)
  <2>1. run[0] = 0 /\ \A k \in 1 .. n : run[k] = ReachStep(calls, run[k - 1], order[k])
    BY <1>4, <1>5, <1>6 DEF IsRun
  <2>2. run = [k \in 0 .. n |-> run[k]]
    BY <1>5
  <2>3. \A k \in 0 .. n : run[k] = IF k = 0 THEN 0 ELSE ReachStep(calls, run[k - 1], order[k])
    BY <1>7, <2>1
  <2> QED  BY <2>2, <2>3 DEF Searches
<1> DEFINE c == CHOOSE g : g = [k \in 0 .. n |-> IF k = 0 THEN 0 ELSE ReachStep(calls, g[k - 1], order[k])]
<1>9. Searches(calls, order, n, c)
  BY <1>8 DEF Searches
<1>10. Reached(calls, order) = c
  BY DEF Reached, ReachStep
<1> HIDE DEF c
<1>11. c[0] = 0 /\ \A k \in 1 .. n : c[k] = ReachStep(calls, c[k - 1], order[k])
  <2>1. \A k \in 0 .. n : c[k] = IF k = 0 THEN 0 ELSE ReachStep(calls, c[k - 1], order[k])
    BY <1>9 DEF Searches
  <2>2. 0 \in 0 .. n
    OBVIOUS
  <2> QED  BY <1>6, <2>1, <2>2
<1>12. 0 .. n \subseteq {k \in 0 .. n : c[k] \in Y}
  <2> DEFINE S == {k \in 0 .. n : c[k] \in Y}
  <2>1. 0 \in S
    BY <1>1, <1>11
  <2>2. \A k \in 1 .. n : k - 1 \in S => k \in S
    BY <1>2, <1>6, <1>11
  <2> HIDE DEF S
  <2>3. 0 .. n \subseteq S
    BY <2>1, <2>2, Upward
  <2> QED  BY <2>3 DEF S
<1> QED  BY <1>10, <1>11, <1>12 DEF Search, Y

EmbedsIn(order, calls) ==
  \E f \in [DOMAIN order -> DOMAIN calls] :
    \A i, j \in DOMAIN order : calls[f[i]].name = order[i] /\ (i < j => f[i] < f[j])

LEMMA OrderEmbeds ==
  ASSUME NEW calls, Len(calls) \in Nat, DOMAIN calls = 1 .. Len(calls),
         NEW order, NEW n \in Nat, DOMAIN order = 1 .. n, Len(order) = n
  PROVE  CallOrder(calls, order) <=> EmbedsIn(order, calls)
<1> DEFINE L == Len(calls)
           g == Reached(calls, order)
<1>1. Search(calls, order, n, g)
  BY ReachedIs
<1>2. CallOrder(calls, order) <=> g[n] <= L
  BY DEF CallOrder
<1> HIDE DEF g
<1>3. /\ g[0] = 0 /\ \A k \in 1 .. n : g[k] = ReachStep(calls, g[k - 1], order[k])
      /\ \A k \in 0 .. n : g[k] \in 0 .. L + 1
  BY <1>1 DEF Search
<1>4. \A k \in 1 .. n : k \in 0 .. n /\ k - 1 \in 0 .. n
  OBVIOUS
<1>5. ASSUME NEW k \in 1 .. n
      PROVE  /\ g[k - 1] \in 0 .. L + 1 /\ g[k] \in 0 .. L + 1
             /\ IF Found(calls, g[k - 1], order[k]) = {} THEN g[k] = L + 1
                ELSE /\ g[k] \in Found(calls, g[k - 1], order[k])
                     /\ \A j \in Found(calls, g[k - 1], order[k]) : g[k] <= j
  <2>1. g[k - 1] \in 0 .. L + 1 /\ g[k] \in 0 .. L + 1 /\ g[k - 1] \in Nat
    BY <1>3, <1>4
  <2> DEFINE at == g[k - 1]
             x == order[k]
  <2>2. g[k] = ReachStep(calls, at, x)
    BY <1>3
  <2>3. at \in Nat
    BY <2>1
  <2> HIDE DEF at, x
  <2>4. IF Found(calls, at, x) = {} THEN ReachStep(calls, at, x) = L + 1
        ELSE /\ ReachStep(calls, at, x) \in Found(calls, at, x)
             /\ \A j \in Found(calls, at, x) : ReachStep(calls, at, x) <= j
    BY <2>3, ReachStepIs
  <2> QED  BY <2>1, <2>2, <2>4 DEF at, x
<1>6. ASSUME NEW k \in 1 .. n, g[k] <= L
      PROVE  g[k] \in 1 .. L /\ g[k - 1] < g[k] /\ calls[g[k]].name = order[k]
  <2>1. g[k] # L + 1
    BY <1>5, <1>6
  <2>2. g[k] \in Found(calls, g[k - 1], order[k])
    BY <1>5, <2>1
  <2>3. g[k - 1] \in Nat /\ g[k] \in g[k - 1] + 1 .. L /\ calls[g[k]].name = order[k]
    BY <1>5, <2>2 DEF Found
  <2> QED  BY <2>3
<1>7. ASSUME g[n] <= L
      PROVE  EmbedsIn(order, calls)
  (* Downward: a search that failed has made all later ones fail.          *)
  <2>1. \A k \in 0 .. n : g[k] <= L
    <3> DEFINE S == {m \in 0 .. n : g[n - m] <= L}
    <3>1. 0 \in S
      BY <1>7
    <3>2. ASSUME NEW m \in 1 .. n, m - 1 \in S
          PROVE  m \in S
      <4> DEFINE k == n - (m - 1)
      <4>1. k \in 1 .. n /\ k - 1 = n - m /\ g[k] <= L
        BY <3>2
      <4> HIDE DEF k
      <4>2. g[k - 1] < g[k] /\ g[k] \in 1 .. L
        BY <1>6, <4>1
      <4>3. g[k - 1] \in 0 .. L + 1
        BY <1>5, <4>1
      <4>4. g[k - 1] <= L
        BY <4>2, <4>3
      <4> QED  BY <4>1, <4>4
    <3>3. 0 .. n \subseteq S
      <4> HIDE DEF S
      <4> QED  BY <3>1, <3>2, Upward
    <3>4. \A k \in 0 .. n : n - k \in 0 .. n /\ n - (n - k) = k
      OBVIOUS
    <3> QED  BY <3>3, <3>4
  <2>2. \A k \in 1 .. n : g[k] \in 1 .. L /\ g[k - 1] < g[k] /\ calls[g[k]].name = order[k]
    BY <1>4, <1>6, <2>1
  <2>3. ASSUME NEW i \in 0 .. n
        PROVE  \A j \in 1 .. n : i < j => g[i] < g[j]
    <3> DEFINE S == {j \in 0 .. n : i < j => g[i] < g[j]}
    <3>1. 0 \in S
      OBVIOUS
    <3>2. ASSUME NEW j \in 1 .. n, j - 1 \in S
          PROVE  j \in S
      <4> SUFFICES ASSUME i < j  PROVE g[i] < g[j]
        BY <1>4
      <4>1. g[j - 1] < g[j] /\ g[j] \in Nat /\ g[j - 1] \in Nat /\ g[i] \in Nat
        BY <1>3, <1>4, <2>2
      <4>2. i = j - 1 \/ i < j - 1
        OBVIOUS
      <4> QED  BY <3>2, <4>1, <4>2
    <3>3. 0 .. n \subseteq S
      <4> HIDE DEF S
      <4> QED  BY <3>1, <3>2, Upward
    <3> QED  BY <1>4, <3>3
  <2> DEFINE f == [k \in DOMAIN order |-> g[k]]
  <2>4. f \in [DOMAIN order -> DOMAIN calls]
    BY <2>2
  <2>5. \A i, j \in DOMAIN order : calls[f[i]].name = order[i] /\ (i < j => f[i] < f[j])
    BY <1>4, <2>2, <2>3
  <2> HIDE DEF f
  <2> QED  BY <2>4, <2>5 DEF EmbedsIn
<1>8. ASSUME EmbedsIn(order, calls)
      PROVE  g[n] <= L
  <2>1. PICK f \in [DOMAIN order -> DOMAIN calls] :
          \A i, j \in DOMAIN order : calls[f[i]].name = order[i] /\ (i < j => f[i] < f[j])
    BY <1>8 DEF EmbedsIn
  <2> DEFINE S == {k \in 0 .. n : k # 0 => g[k] <= f[k]}
  <2>2. 0 \in S
    OBVIOUS
  <2>3. ASSUME NEW k \in 1 .. n, k - 1 \in S
        PROVE  k \in S
    <3>1. f[k] \in 1 .. L /\ calls[f[k]].name = order[k]
      BY <2>1
    <3>2. g[k - 1] \in Nat
      BY <1>5
    <3>3. g[k - 1] < f[k]
      <4>1. CASE k = 1
        BY <1>3, <3>1, <4>1
      <4>2. CASE k # 1
        <5>1. k - 1 \in 1 .. n /\ k - 1 < k
          BY <4>2
        <5>2. f[k - 1] < f[k] /\ f[k - 1] \in 1 .. L
          BY <2>1, <5>1
        <5>3. g[k - 1] <= f[k - 1]
          BY <2>3, <5>1
        <5> QED  BY <3>1, <3>2, <5>2, <5>3
      <4> QED  BY <4>1, <4>2
    <3>4. f[k] \in Found(calls, g[k - 1], order[k])
      BY <3>1, <3>2, <3>3 DEF Found
    <3>5. g[k] <= f[k]
      BY <1>5, <3>4
    <3> QED  BY <1>4, <3>5
  <2>4. 0 .. n \subseteq S
    <3> HIDE DEF S
    <3> QED  BY <2>2, <2>3, Upward
  <2>5. CASE n = 0
    BY <1>3, <2>5
  <2>6. CASE n # 0
    <3>1. n \in 1 .. n /\ n \in 0 .. n
      BY <2>6
    <3>2. g[n] <= f[n] /\ f[n] \in 1 .. L /\ g[n] \in Nat
      BY <1>3, <2>1, <2>4, <3>1
    <3> QED  BY <3>2
  <2> QED  BY <2>5, <2>6
<1> QED  BY <1>2, <1>7, <1>8

LEMMA OrderSettles ==
  ASSUME NEW u, NEW w, Longs(u, w), NEW order, NEW n \in Nat, DOMAIN order = 1 .. n, Len(order) = n,
         CallOrder(u, order)
  PROVE  CallOrder(w, order)
<1>1. /\ Len(u) \in Nat /\ Len(w) \in Nat /\ Len(u) <= Len(w)
      /\ DOMAIN u = 1 .. Len(u) /\ DOMAIN w = 1 .. Len(w)
      /\ \A i \in 1 .. Len(u) : w[i] = u[i]
  BY DEF Longs
<1>2. EmbedsIn(order, u)
  BY <1>1, OrderEmbeds
<1>3. PICK f \in [DOMAIN order -> DOMAIN u] :
        \A i, j \in DOMAIN order : u[f[i]].name = order[i] /\ (i < j => f[i] < f[j])
  BY <1>2 DEF EmbedsIn
<1>4. DOMAIN u \subseteq DOMAIN w
  BY <1>1
<1>5. f \in [DOMAIN order -> DOMAIN w]
  BY <1>4
<1>6. \A i \in DOMAIN order : w[f[i]] = u[f[i]]
  BY <1>1
<1>7. EmbedsIn(order, w)
  BY <1>3, <1>5, <1>6 DEF EmbedsIn
<1> QED  BY <1>1, <1>7, OrderEmbeds

LEMMA OrderShape ==
  ASSUME NEW n \in Nat, NEW order \in SeqOf(Tools, n)
  PROVE  \E m \in Nat : DOMAIN order = 1 .. m /\ Len(order) = m /\ order \in [1 .. m -> Tools]
<1>1. PICK m \in 0 .. n : order \in [1 .. m -> Tools]
  BY DEF SeqOf
<1>2. m \in Nat
  BY <1>1
<1>3. Len(order) = m
  BY <1>1, <1>2
<1> QED  BY <1>1, <1>2, <1>3

LEMMA TurnsSettle ==
  ASSUME NEW c \in Seq(MessageRecords), NEW d \in Seq(MessageRecords), Longs(c, d)
  PROVE  Turns(c) \in Nat /\ Turns(d) \in Nat /\ Turns(c) <= Turns(d)
<1> DEFINE S == {i \in DOMAIN c : c[i].role = "assistant"}
           T == {i \in DOMAIN d : d[i].role = "assistant"}
<1>1. Len(c) \in Nat /\ Len(d) \in Nat /\ DOMAIN c = 1 .. Len(c) /\ DOMAIN d = 1 .. Len(d)
  BY DEF Longs
<1>2. S \subseteq T /\ S \subseteq DOMAIN c /\ T \subseteq DOMAIN d
  BY DEF Longs
<1>3. Turns(c) = Cardinality(S) /\ Turns(d) = Cardinality(T)
  BY DEF Turns
<1> HIDE DEF S, T
<1>4. IsFiniteSet(S) /\ Cardinality(S) \in Nat /\ IsFiniteSet(T) /\ Cardinality(T) \in Nat
  BY <1>1, <1>2, OfToolFinite
<1>5. Cardinality(S) <= Cardinality(T)
  BY <1>2, <1>4, FS_Subset
<1> QED  BY <1>3, <1>4, <1>5

(* What was shown stays shown: nothing that comes later takes a verdict    *)
(* back.                                                                   *)
Settled(c, d) ==
  LET before == Calls(c)
      after == Calls(d)
  IN  /\ \A t \in Tools :
           /\ CallsTool(before, t) => CallsTool(after, t)
           /\ ~NotCallsTool(before, t) => ~NotCallsTool(after, t)
           /\ \A n \in 0 .. 2 :
                /\ MinToolCalls(before, t, n) => MinToolCalls(after, t, n)
                /\ MinToolCalls(before, t, n + 1) => ~CallsToolExactly(after, t, n)
           /\ \A n \in 0 .. 1, when \in Matches :
                n < Occurrences(before, t) =>
                  (ToolArgs(before, t, when, n) <=> ToolArgs(after, t, when, n))
      /\ \A order \in SeqOf(Tools, 2) : CallOrder(before, order) => CallOrder(after, order)
      /\ ~MaxTurns(Turns(c), 1) => ~MaxTurns(Turns(d), 1)

LEMMA PrefixSettles ==
  ASSUME NEW c \in Seq(MessageRecords), NEW d \in Seq(MessageRecords), IsPrefix(c, d)
  PROVE  Settled(c, d)
<1>1. PICK e \in Seq(MessageRecords) : d = c \o e
  BY PrefixRest
<1>2. Longs(c, d)
  BY <1>1, ConcatLongs
<1> DEFINE u == Calls(c)
           w == Calls(d)
<1>3. Longs(u, w)
  <2>1. w = u \o Calls(e) /\ u \in Seq(CallRecords) /\ Calls(e) \in Seq(CallRecords)
    BY <1>1, MoreCalls, CallsIs
  <2> HIDE DEF u, w
  <2> QED  BY <2>1, ConcatLongs
<1> HIDE DEF u, w
<1>4. \A t \in Tools :
        /\ CallsTool(u, t) => CallsTool(w, t)
        /\ ~NotCallsTool(u, t) => ~NotCallsTool(w, t)
        /\ \A n \in 0 .. 2 :
             /\ MinToolCalls(u, t, n) => MinToolCalls(w, t, n)
             /\ MinToolCalls(u, t, n + 1) => ~CallsToolExactly(w, t, n)
  BY <1>3, CountsSettle
<1>5. \A t \in Tools : \A n \in 0 .. 1, when \in Matches :
        n < Occurrences(u, t) => (ToolArgs(u, t, when, n) <=> ToolArgs(w, t, when, n))
  <2>1. 0 .. 1 \subseteq Nat
    OBVIOUS
  <2> QED  BY <1>3, <2>1, ArgsSettle
<1>6. ASSUME NEW order \in SeqOf(Tools, 2), CallOrder(u, order)
      PROVE  CallOrder(w, order)
  <2>1. PICK m \in Nat : DOMAIN order = 1 .. m /\ Len(order) = m
    BY OrderShape
  <2> QED  BY <1>3, <1>6, <2>1, OrderSettles
<1>7. ~MaxTurns(Turns(c), 1) => ~MaxTurns(Turns(d), 1)
  BY <1>2, TurnsSettle DEF MaxTurns
<1> QED  BY <1>4, <1>5, <1>6, <1>7 DEF Settled, u, w

(* What a trace has shown, of calls, counts, order, arguments and turns,    *)
(* is not undone when the trace grows, by whatever steps it does.          *)
THEOREM VerdictsStay == Spec => VerdictsSettle
<1>1. TypeOK /\ TypeOK' => (IsPrefix(messages, messages') => Settled(messages, messages'))
  <2> SUFFICES ASSUME TypeOK, TypeOK', IsPrefix(messages, messages')
               PROVE  Settled(messages, messages')
    OBVIOUS
  <2>1. messages \in Seq(MessageRecords) /\ messages' \in Seq(MessageRecords)
    BY DEF TypeOK
  <2> QED  BY <2>1, PrefixSettles
<1>2. Spec => []TypeOK
  <2>1. RInv => TypeOK
    BY DEF RInv
  <2> QED  BY <2>1, RInvAlways, PTL
<1>3. Spec => [][IsPrefix(messages, messages') => Settled(messages, messages')]_vars
  BY <1>1, <1>2, PTL
<1> QED  BY <1>3 DEF VerdictsSettle, Settled

-----------------------------------------------------------------------------
(* Arguments match an object exactly when writing it over them changes     *)
(* nothing.                                                                *)

ObjectsAt(m) == {v \in Nested[m] : IsDict(v)}

(* What one level of matches_subset and of Overlay says, when g says what  *)
(* the levels below do.                                                    *)
Matches1(when, args, g) ==
  \A key \in DOMAIN when.dict :
    /\ key \in DOMAIN args.dict
    /\ LET expected == when.dict[key]
           actual == args.dict[key]
       IN  IF IsDict(expected) /\ IsDict(actual) THEN g[expected][actual]
           ELSE actual = expected

MatchedBy(when, g) == [args \in Objects |-> Matches1(when, args, g)]

Laid(args, when, g) ==
  [dict |-> [key \in DOMAIN args.dict \cup DOMAIN when.dict |->
     IF key \notin DOMAIN when.dict THEN args.dict[key]
     ELSE IF key \in DOMAIN args.dict /\ IsDict(args.dict[key]) /\ IsDict(when.dict[key])
       THEN g[args.dict[key]][when.dict[key]]
     ELSE when.dict[key]]]

LaidOver(args, g) == [when \in Objects |-> Laid(args, when, g)]

Dicts(values) == {v \in values : IsDict(v)}

LEMMA MatchedByAgree ==
  ASSUME NEW values, NEW v, IsObject(v, values), NEW g, NEW h, AgreeOn(g, h, Dicts(values))
  PROVE  MatchedBy(v, g) = MatchedBy(v, h)
<1>1. \A key \in DOMAIN v.dict : v.dict[key] \in values
  BY ObjectShape
<1>2. \A key \in DOMAIN v.dict : IsDict(v.dict[key]) => g[v.dict[key]] = h[v.dict[key]]
  BY <1>1 DEF AgreeOn, Dicts
<1>3. \A args : Matches1(v, args, g) = Matches1(v, args, h)
  BY <1>2 DEF Matches1
<1> QED  BY <1>3 DEF MatchedBy

LEMMA LaidOverAgree ==
  ASSUME NEW values, NEW v, IsObject(v, values), NEW g, NEW h, AgreeOn(g, h, Dicts(values))
  PROVE  LaidOver(v, g) = LaidOver(v, h)
<1>1. \A key \in DOMAIN v.dict : v.dict[key] \in values
  BY ObjectShape
<1>2. \A key \in DOMAIN v.dict : IsDict(v.dict[key]) => g[v.dict[key]] = h[v.dict[key]]
  BY <1>1 DEF AgreeOn, Dicts
<1>3. \A when : Laid(v, when, g) = Laid(v, when, h)
  BY <1>2 DEF Laid
<1> QED  BY <1>3 DEF LaidOver

LEMMA ObjectsAre ==
  /\ Objects = ObjectsAt(MaxDepth)
  /\ \A m \in 0 .. MaxDepth : \A v \in ObjectsAt(m) : m # 0 /\ IsObject(v, Nested[m - 1])
<1>1. ASSUME NEW m \in 0 .. MaxDepth, NEW v \in ObjectsAt(m)
      PROVE  m # 0 /\ IsObject(v, Nested[m - 1])
  BY NestedShapes, AtomShape DEF ObjectsAt
<1> QED  BY <1>1 DEF Objects, Values, ObjectsAt

(* matches_subset exists, and is what its definition says.                 *)
MatchesUpTo(m, g) == g = [v \in ObjectsAt(m) |-> MatchedBy(v, g)]

LEMMA MatchesIs ==
  \A v \in Objects : matches_subset[v] = MatchedBy(v, matches_subset)
<1> DEFINE S == {m \in 0 .. MaxDepth : \E g : MatchesUpTo(m, g)}
<1>0. MaxDepth \in Nat
  BY JsonAssumption
<1>1. 0 \in S
  <2>1. ObjectsAt(0) = {} /\ 0 \in 0 .. MaxDepth
    BY <1>0, ObjectsAre
  <2>2. MatchesUpTo(0, <<>>)
    BY <2>1 DEF MatchesUpTo
  <2> QED  BY <2>1, <2>2
<1>2. ASSUME NEW m \in 1 .. MaxDepth, m - 1 \in S
      PROVE  m \in S
  <2>1. PICK g : MatchesUpTo(m - 1, g)
    BY <1>2
  <2>2. \A v \in ObjectsAt(m - 1) : g[v] = MatchedBy(v, g)
    BY <2>1 DEF MatchesUpTo
  <2> DEFINE h == [v \in ObjectsAt(m) |-> MatchedBy(v, g)]
  <2>3. ObjectsAt(m - 1) \subseteq ObjectsAt(m)
    BY NestedIs, DeeperObjects DEF ObjectsAt
  <2>4. \A v \in ObjectsAt(m) : h[v] = MatchedBy(v, g)
    OBVIOUS
  <2>5. h = [v \in ObjectsAt(m) |-> h[v]]
    OBVIOUS
  <2> HIDE DEF h
  <2>6. AgreeOn(g, h, Dicts(Nested[m - 1]))
    BY <2>2, <2>3, <2>4 DEF AgreeOn, Dicts, ObjectsAt
  <2>7. ASSUME NEW v \in ObjectsAt(m)
        PROVE  MatchedBy(v, g) = MatchedBy(v, h)
    <3>1. m \in 0 .. MaxDepth
      BY <1>0
    <3> DEFINE values == Nested[m - 1]
    <3>2. IsObject(v, values) /\ AgreeOn(g, h, Dicts(values))
      BY <2>6, <3>1, ObjectsAre
    <3> HIDE DEF values, S
    <3> QED  BY <3>2, MatchedByAgree
  <2>8. h = [v \in ObjectsAt(m) |-> MatchedBy(v, h)]
    BY <2>4, <2>5, <2>7
  <2>9. MatchesUpTo(m, h) /\ m \in 0 .. MaxDepth
    BY <1>0, <2>8 DEF MatchesUpTo
  <2> QED  BY <2>9
<1>3. 0 .. MaxDepth \subseteq S
  <2> HIDE DEF S
  <2> QED  BY <1>0, <1>1, <1>2, Upward
<1>4. PICK g : g = [v \in Objects |-> MatchedBy(v, g)]
  <2>1. MaxDepth \in S
    <3> HIDE DEF S
    <3> QED  BY <1>0, <1>3
  <2> QED  BY <2>1, ObjectsAre DEF MatchesUpTo
<1> DEFINE c == CHOOSE g1 : g1 = [v \in Objects |-> MatchedBy(v, g1)]
<1>5. c = [v \in Objects |-> MatchedBy(v, c)]
  BY <1>4
<1>6. matches_subset = c
  BY DEF matches_subset, MatchedBy, Matches1
<1> HIDE DEF c
<1>7. \A v \in Objects : c[v] = MatchedBy(v, c)
  BY <1>5
<1> QED  BY <1>6, <1>7

(* And Overlay.                                                            *)
LaidUpTo(m, g) == g = [v \in ObjectsAt(m) |-> LaidOver(v, g)]

LEMMA OverlayIs ==
  \A v \in Objects : Overlay[v] = LaidOver(v, Overlay)
<1> DEFINE S == {m \in 0 .. MaxDepth : \E g : LaidUpTo(m, g)}
<1>0. MaxDepth \in Nat
  BY JsonAssumption
<1>1. 0 \in S
  <2>1. ObjectsAt(0) = {} /\ 0 \in 0 .. MaxDepth
    BY <1>0, ObjectsAre
  <2>2. LaidUpTo(0, <<>>)
    BY <2>1 DEF LaidUpTo
  <2> QED  BY <2>1, <2>2
<1>2. ASSUME NEW m \in 1 .. MaxDepth, m - 1 \in S
      PROVE  m \in S
  <2>1. PICK g : LaidUpTo(m - 1, g)
    BY <1>2
  <2>2. \A v \in ObjectsAt(m - 1) : g[v] = LaidOver(v, g)
    BY <2>1 DEF LaidUpTo
  <2> DEFINE h == [v \in ObjectsAt(m) |-> LaidOver(v, g)]
  <2>3. ObjectsAt(m - 1) \subseteq ObjectsAt(m)
    BY NestedIs, DeeperObjects DEF ObjectsAt
  <2>4. \A v \in ObjectsAt(m) : h[v] = LaidOver(v, g)
    OBVIOUS
  <2>5. h = [v \in ObjectsAt(m) |-> h[v]]
    OBVIOUS
  <2> HIDE DEF h
  <2>6. AgreeOn(g, h, Dicts(Nested[m - 1]))
    BY <2>2, <2>3, <2>4 DEF AgreeOn, Dicts, ObjectsAt
  <2>7. ASSUME NEW v \in ObjectsAt(m)
        PROVE  LaidOver(v, g) = LaidOver(v, h)
    <3>1. m \in 0 .. MaxDepth
      BY <1>0
    <3> DEFINE values == Nested[m - 1]
    <3>2. IsObject(v, values) /\ AgreeOn(g, h, Dicts(values))
      BY <2>6, <3>1, ObjectsAre
    <3> HIDE DEF values, S
    <3> QED  BY <3>2, LaidOverAgree
  <2>8. h = [v \in ObjectsAt(m) |-> LaidOver(v, h)]
    BY <2>4, <2>5, <2>7
  <2>9. LaidUpTo(m, h) /\ m \in 0 .. MaxDepth
    BY <1>0, <2>8 DEF LaidUpTo
  <2> QED  BY <2>9
<1>3. 0 .. MaxDepth \subseteq S
  <2> HIDE DEF S
  <2> QED  BY <1>0, <1>1, <1>2, Upward
<1>4. PICK g : g = [v \in Objects |-> LaidOver(v, g)]
  <2>1. MaxDepth \in S
    <3> HIDE DEF S
    <3> QED  BY <1>0, <1>3
  <2> QED  BY <2>1, ObjectsAre DEF LaidUpTo
<1> DEFINE c == CHOOSE g1 : g1 = [v \in Objects |-> LaidOver(v, g1)]
<1>5. c = [v \in Objects |-> LaidOver(v, c)]
  BY <1>4
<1>6. Overlay = c
  BY DEF Overlay, LaidOver, Laid
<1> HIDE DEF c
<1>7. \A v \in Objects : c[v] = LaidOver(v, c)
  BY <1>5
<1> QED  BY <1>6, <1>7

(* Laid leaves an object as it was exactly when it leaves each member.     *)
LEMMA LaidAlike ==
  ASSUME NEW args, args = [dict |-> args.dict],
         args.dict = [key \in DOMAIN args.dict |-> args.dict[key]], NEW when, NEW g
  PROVE  Laid(args, when, g) = args
           <=> /\ DOMAIN when.dict \subseteq DOMAIN args.dict
               /\ \A key \in DOMAIN when.dict :
                    IF IsDict(args.dict[key]) /\ IsDict(when.dict[key])
                      THEN g[args.dict[key]][when.dict[key]] = args.dict[key]
                      ELSE when.dict[key] = args.dict[key]
<1> DEFINE D == DOMAIN args.dict
           W == DOMAIN when.dict
           L == [key \in D \cup W |->
                  IF key \notin W THEN args.dict[key]
                  ELSE IF key \in D /\ IsDict(args.dict[key]) /\ IsDict(when.dict[key])
                    THEN g[args.dict[key]][when.dict[key]]
                  ELSE when.dict[key]]
<1>1. Laid(args, when, g) = [dict |-> L]
  BY DEF Laid
<1>2. Laid(args, when, g) = args <=> L = args.dict
  <2> HIDE DEF L
  <2>1. [dict |-> L].dict = L
    OBVIOUS
  <2> QED  BY <1>1, <2>1
<1>3. L = args.dict <=> D \cup W = D /\ \A key \in D : L[key] = args.dict[key]
  <2>1. DOMAIN L = D \cup W /\ L = [key \in D \cup W |-> L[key]]
    OBVIOUS
  <2>2. args.dict = [key \in D |-> args.dict[key]]
    OBVIOUS
  <2> HIDE DEF L
  <2> QED  BY <2>1, <2>2
<1>4. \A key \in D : L[key] = IF key \notin W THEN args.dict[key]
                             ELSE IF IsDict(args.dict[key]) /\ IsDict(when.dict[key])
                               THEN g[args.dict[key]][when.dict[key]]
                             ELSE when.dict[key]
  OBVIOUS
<1> HIDE DEF L
<1> QED  BY <1>2, <1>3, <1>4

LEMMA MatchIsOverlay ==
  \A when \in Objects : \A args \in Objects :
    matches_subset[when][args] <=> Overlay[args][when] = args
<1> DEFINE Agreed(w) == \A args \in Objects : matches_subset[w][args] <=> Overlay[args][w] = args
           S == {w \in Values : IsDict(w) => Agreed(w)}
<1>1. \A v \in Values : IsAtom(v) => v \in S
  BY AtomShape
<1>2. ASSUME NEW w \in Values, NEW values \in SUBSET (S \cap Values), IsObject(w, values)
      PROVE  w \in S
  <2> SUFFICES ASSUME NEW args \in Objects
               PROVE  matches_subset[w][args] <=> Overlay[args][w] = args
    OBVIOUS
  <2>1. w \in Objects /\ \A key \in DOMAIN w.dict : w.dict[key] \in values
    BY <1>2, ObjectShape DEF Objects
  <2>2. /\ args = [dict |-> args.dict] /\ args.dict = [key \in DOMAIN args.dict |-> args.dict[key]]
        /\ \A key \in DOMAIN args.dict : args.dict[key] \in Values
    <3>1. IsObject(args, Values)
      BY ValueShapes, AtomShape DEF Objects
    <3> QED  BY <3>1, ObjectShape
  <2>3. matches_subset[w][args] <=> Matches1(w, args, matches_subset)
    <3>1. matches_subset[w] = MatchedBy(w, matches_subset)
      BY <2>1, MatchesIs
    <3>2. MatchedBy(w, matches_subset)[args] = Matches1(w, args, matches_subset)
      BY DEF MatchedBy
    <3> QED  BY <3>1, <3>2
  <2>4. Overlay[args][w] = Laid(args, w, Overlay)
    <3>1. Overlay[args] = LaidOver(args, Overlay)
      BY OverlayIs
    <3>2. LaidOver(args, Overlay)[w] = Laid(args, w, Overlay)
      BY <2>1 DEF LaidOver
    <3> QED  BY <3>1, <3>2
  <2>5. ASSUME NEW key \in DOMAIN w.dict, key \in DOMAIN args.dict,
               IsDict(w.dict[key]), IsDict(args.dict[key])
        PROVE  matches_subset[w.dict[key]][args.dict[key]]
                 <=> Overlay[args.dict[key]][w.dict[key]] = args.dict[key]
    <3>1. w.dict[key] \in S /\ args.dict[key] \in Objects
      BY <2>1, <2>2, <2>5 DEF Objects
    <3> QED  BY <2>5, <3>1
  <2> DEFINE Stays(key) == IF IsDict(args.dict[key]) /\ IsDict(w.dict[key])
                             THEN Overlay[args.dict[key]][w.dict[key]] = args.dict[key]
                             ELSE w.dict[key] = args.dict[key]
             Agrees(key) == IF IsDict(w.dict[key]) /\ IsDict(args.dict[key])
                              THEN matches_subset[w.dict[key]][args.dict[key]]
                              ELSE args.dict[key] = w.dict[key]
  <2>6. \A key \in DOMAIN w.dict : key \in DOMAIN args.dict => (Stays(key) <=> Agrees(key))
    BY <2>5
  <2>7. Laid(args, w, Overlay) = args
          <=> DOMAIN w.dict \subseteq DOMAIN args.dict /\ \A key \in DOMAIN w.dict : Stays(key)
    BY <2>2, LaidAlike
  <2>8. Matches1(w, args, matches_subset)
          <=> \A key \in DOMAIN w.dict : key \in DOMAIN args.dict /\ Agrees(key)
    BY DEF Matches1
  <2> HIDE DEF Stays, Agrees, S
  <2> QED  BY <2>3, <2>4, <2>6, <2>7, <2>8
<1>3. Values \subseteq S
  <2> HIDE DEF S
  <2> QED  BY <1>1, <1>2, ByNesting
<1> QED  BY <1>3 DEF Objects

(* The arguments of every call are an object.                              *)
ObjectArgs == \A c : Shown(c) => c.args \in Objects

AInv == WInv /\ ObjectArgs

(* What a step shows was shown, or is a call of a live answer.             *)
LEMMA NextShows ==
  ASSUME WInv, [Next]_vars, NEW c, Shown(c)'
  PROVE  \/ Shown(c)
         \/ \E a \in Answers : AskLive(a) /\ Has(from_wire(a, minted), c)
<1>1. /\ messages \in Seq(MessageRecords) /\ mocks \in Mocks /\ provider \in Providers
      /\ minted \in 0 .. Len(CallIds)
      /\ \A key \in DOMAIN store : store[key] \in Seq(CallRecords)
  BY DEF WInv, RInv, TypeOK
<1>2. CASE UNCHANGED <<messages, store>>
  BY <1>2 DEF Shown
<1>3. CASE Edit \/ Miss \/ Interrupt \/ UNCHANGED vars
  BY <1>2, <1>3 DEF Edit, Miss, Interrupt, vars
<1>4. ASSUME NEW m \in {"auto", "record", "replay"}, Start(m)
      PROVE  Shown(c)
  <2>1. messages' = <<User>> /\ store' = store
    BY <1>4 DEF Start
  <2> DEFINE w == <<User>>
  <2>2. ~Has(Calls(w), c)
    BY <1>1, UserAlone
  <2> HIDE DEF w
  <2>3. messages' = w
    BY <2>1 DEF w
  <2> QED  BY <2>1, <2>2, <2>3 DEF Shown
<1>5. CASE Hit
  <2> DEFINE calls == store[Key(messages)]
  <2>1. /\ Key(messages) \in DOMAIN store /\ Continue(calls) /\ mode # "idle"
        /\ UNCHANGED <<mocks, store>>
    BY <1>5 DEF Hit
  <2>2. calls \in Seq(CallRecords) /\ (Has(calls, c) => Shown(c))
    BY <1>1, <2>1 DEF Shown
  <2> HIDE DEF calls
  <2>3. Has(Calls(messages'), c) => Has(Calls(messages), c) \/ Has(calls, c)
    BY <2>1, <2>2, TurnKeeps
  <2> QED  BY <2>1, <2>2, <2>3 DEF Shown
<1>6. ASSUME NEW a \in Answers, AskLive(a)
      PROVE  Shown(c) \/ Has(from_wire(a, minted), c)
  <2> DEFINE calls == from_wire(a, minted)
             key == Key(messages)
  <2>1. /\ store' = Put(store, key, calls) /\ mocks' = mocks /\ mode # "idle"
        /\ Continue(calls) /\ minted + Len(a) <= Len(CallIds)
    BY <1>6 DEF AskLive
  <2>2. minted \in Nat
    BY <1>1, ConstantTypes
  <2>3. calls \in Seq(CallRecords)
    BY <1>1, <2>1, <2>2, FromWire
  <2> HIDE DEF calls, key
  <2>4. Has(Calls(messages'), c) => Has(Calls(messages), c) \/ Has(calls, c)
    BY <2>1, <2>3, TurnKeeps
  <2>5. \A k \in DOMAIN store' : store'[k] = calls \/ (k \in DOMAIN store /\ store'[k] = store[k])
    BY <2>1 DEF Put
  <2>6. Shown(c) \/ Has(calls, c)
    BY <2>4, <2>5 DEF Shown
  <2> QED  BY <2>6 DEF calls
<1> QED  BY <1>3, <1>4, <1>5, <1>6 DEF Next

LEMMA AInvInit == Init => AInv
<1> SUFFICES ASSUME Init  PROVE AInv
  OBVIOUS
<1>1. WInv
  BY WInvInit
<1>2. minted = 0
  BY DEF Init
<1>3. \A c : ~Shown(c)
  BY <1>1, <1>2 DEF WInv, MintedIds
<1> QED  BY <1>1, <1>3 DEF AInv, ObjectArgs

LEMMA AInvNext == AInv /\ [Next]_vars => AInv'
<1> SUFFICES ASSUME AInv, [Next]_vars  PROVE AInv'
  OBVIOUS
<1>1. WInv /\ WInv'
  BY WInvNext DEF AInv
<1>2. ASSUME NEW c, Shown(c)'  PROVE c.args \in Objects
  <2>1. CASE Shown(c)
    BY <2>1 DEF AInv, ObjectArgs
  <2>2. ASSUME NEW a \in Answers, AskLive(a), Has(from_wire(a, minted), c)
        PROVE  c.args \in Objects
    <3>1. minted + Len(a) <= Len(CallIds) /\ provider \in Providers /\ minted \in 0 .. Len(CallIds)
      BY <1>1, <2>2 DEF AskLive, WInv, RInv, TypeOK
    <3>2. minted \in Nat
      BY <3>1, ConstantTypes
    <3> DEFINE calls == from_wire(a, minted)
    <3>3. /\ calls \in Seq(CallRecords) /\ Len(calls) = Len(a)
          /\ \A i \in 1 .. Len(a) : calls[i].args \in Objects
      BY <3>1, <3>2, FromWire
    <3> HIDE DEF calls
    <3>4. DOMAIN calls = 1 .. Len(a)
      BY <3>3, LenProperties
    <3>5. Has(calls, c)
      BY <2>2 DEF calls
    <3> QED  BY <3>3, <3>4, <3>5 DEF Has
  <2> QED  BY <1>1, <1>2, <2>1, <2>2, NextShows
<1>3. ObjectArgs'
  BY <1>2 DEF ObjectArgs
<1> QED  BY <1>1, <1>3 DEF AInv

LEMMA AInvAlways == Spec => []AInv
BY AInvInit, AInvNext, PTL DEF Spec

(* Over any trace, call_order holds exactly when the names are a           *)
(* subsequence of the calls, and matches_subset exactly when writing the   *)
(* wanted object over the arguments, at every depth, changes nothing.      *)
THEOREM VerdictsMean == Spec => []AssertionsMeanWhatTheySay
<1>1. AInv => AssertionsMeanWhatTheySay
  <2> SUFFICES ASSUME AInv  PROVE AssertionsMeanWhatTheySay
    OBVIOUS
  <2> DEFINE calls == Calls(messages)
  <2>1. messages \in Seq(MessageRecords)
    BY DEF AInv, WInv, RInv, TypeOK
  <2>2. calls \in Seq(CallRecords)
    BY <2>1, CallsIs
  <2>3. Names(messages) = [i \in DOMAIN calls |-> calls[i].name]
    BY DEF Names
  <2>4. \A c : Has(calls, c) => c.args \in Objects
    BY DEF AInv, ObjectArgs, Shown
  <2>5. \A c : c \in ToSet(calls) => Has(calls, c)
    BY DEF ToSet, Has
  <2>6. calls = Calls(messages)
    OBVIOUS
  <2> HIDE DEF calls
  <2>7. Len(calls) \in Nat /\ DOMAIN calls = 1 .. Len(calls)
    BY <2>2, LenProperties
  <2>8. ASSUME NEW order \in SeqOf(Tools, 3)
        PROVE  CallOrder(calls, order) <=> Embeds(order, Names(messages))
    <3>1. PICK m \in Nat : DOMAIN order = 1 .. m /\ Len(order) = m
      BY OrderShape
    <3>2. CallOrder(calls, order) <=> EmbedsIn(order, calls)
      BY <2>7, <3>1, OrderEmbeds
    <3>3. EmbedsIn(order, calls) <=> Embeds(order, Names(messages))
      BY <2>3 DEF EmbedsIn, Embeds
    <3> QED  BY <3>2, <3>3
  <2>9. ASSUME NEW call \in ToSet(calls), NEW when \in Matches
        PROVE  matches_subset[when][call.args] <=> Overlay[call.args][when] = call.args
    <3>1. call.args \in Objects /\ when \in Objects
      BY <2>4, <2>5, TranscriptAssumption
    <3> QED  BY <3>1, MatchIsOverlay
  <2> QED  BY <2>6, <2>8, <2>9 DEF AssertionsMeanWhatTheySay
<1> QED  BY <1>1, AInvAlways, PTL

=============================================================================
