---------------------------- MODULE IndicesProofs ----------------------------
(***************************************************************************)
(* What First, Ascending and FlattenSeq return, for all indices and        *)
(* sequences.                                                              *)
(***************************************************************************)
EXTENDS Indices, SequencesExt, SequenceTheorems, FiniteSetTheorems, WellFoundedInduction, TLAPS

LEMMA LeastNat ==
  ASSUME NEW T \in SUBSET Nat, T # {}
  PROVE  \E n \in T : \A m \in T : n <= m
<1> DEFINE R == {ss \in Nat \X Nat : ss[1] < ss[2]}
<1>1. IsWellFoundedOn(R, Nat)
  BY NatLessThanWellFounded DEF OpToRel
<1> HIDE DEF R
<1>2. PICK n \in T : \A m \in T : ~(<<m, n>> \in R)
  BY <1>1, WFMin
<1>3. ASSUME NEW m \in T PROVE n <= m
  <2>1. ~(<<m, n>> \in R)
    BY <1>2
  <2>2. n \in Nat /\ m \in Nat
    OBVIOUS
  <2>3. ~(m < n)
    BY <2>1, <2>2 DEF R
  <2> QED BY <2>2, <2>3
<1> QED BY <1>3

LEMMA FirstIsLeast ==
  ASSUME NEW S \in SUBSET (Nat \ {0})
  PROVE  /\ S = {} => First(S) = 0
         /\ S # {} => First(S) \in S /\ First(S) # 0
                        /\ \A y \in S : First(S) <= y
<1>1. CASE S = {}
  BY <1>1 DEF First
<1>2. CASE S # {}
  <2>1. \E x \in S : \A y \in S : x <= y
    BY <1>2, LeastNat
  <2> QED BY <1>2, <2>1 DEF First
<1> QED BY <1>1, <1>2

LEMMA FirstOfOne == ASSUME NEW x \in Nat \ {0} PROVE First({x}) = x
BY FirstIsLeast, {x} \in SUBSET (Nat \ {0})

LEMMA IntervalPartFinite ==
  ASSUME NEW n \in Nat, NEW S \in SUBSET (1 .. n)
  PROVE  IsFiniteSet(S)
<1>1. IsFiniteSet(1 .. n)
  BY FS_Interval
<1> QED BY <1>1, FS_Subset

IsAscending(s, S) ==
  /\ s \in [1 .. Cardinality(S) -> S]
  /\ \A j, k \in DOMAIN s : j < k => s[j] < s[k]

(* By induction on the largest index: the least bound without an ascending *)
(* sequence would have one, that of the bound below and the last index.    *)
LEMMA AscendingExists ==
  ASSUME NEW n \in Nat, NEW S \in SUBSET (1 .. n)
  PROVE  \E s : IsAscending(s, S)
<1> DEFINE T == {m \in Nat : \E X \in SUBSET (1 .. m) : \A s : ~IsAscending(s, X)}
<1>1. T = {}
  <2> SUFFICES ASSUME T # {} PROVE FALSE
    OBVIOUS
  <2>1. PICK m \in T : \A l \in T : m <= l
    BY LeastNat
  <2>2. PICK X \in SUBSET (1 .. m) : \A s : ~IsAscending(s, X)
    BY <2>1
  <2>3. m \in Nat
    OBVIOUS
  <2> HIDE DEF T
  <2>4. CASE m = 0
    <3>1. X = {}
      BY <2>4, 1 .. 0 = {}
    <3>2. Cardinality(X) = 0
      BY <3>1, FS_EmptySet
    <3>3. IsAscending(<<>>, X)
      BY <3>1, <3>2 DEF IsAscending
    <3> QED BY <2>2, <3>3
  <2>5. CASE m # 0 /\ m \notin X
    <3>1. X \in SUBSET (1 .. (m - 1)) /\ m - 1 \in Nat
      BY <2>3, <2>5
    <3>2. m - 1 \in T
      BY <2>2, <3>1 DEF T
    <3> QED BY <2>1, <2>3, <3>2
  <2>6. CASE m # 0 /\ m \in X
    <3> DEFINE Y == X \ {m}
    <3>1. Y \in SUBSET (1 .. (m - 1)) /\ m - 1 \in Nat
      BY <2>3, <2>6
    <3>2. m - 1 \notin T
      BY <2>1, <2>3
    <3>3. PICK s : IsAscending(s, Y)
      BY <3>1, <3>2 DEF T
    <3>4. IsFiniteSet(X)
      BY <2>3, IntervalPartFinite
    <3>5. Cardinality(Y) = Cardinality(X) - 1 /\ Cardinality(X) \in Nat /\ Cardinality(Y) \in Nat
      BY <2>6, <3>4, FS_RemoveElement, FS_CardinalityType
    <3> DEFINE c == Cardinality(X)
               t == [i \in 1 .. c |-> IF i = c THEN m ELSE s[i]]
    <3>6. s \in [1 .. (c - 1) -> Y] /\ \A j, k \in 1 .. (c - 1) : j < k => s[j] < s[k]
      BY <3>3, <3>5 DEF IsAscending
    <3>7. c \in Nat
      BY <3>5
    <3> HIDE DEF c
    <3>8. t \in [1 .. c -> X]
      BY <2>6, <3>6, <3>7
    <3>9. ASSUME NEW j \in 1 .. c, NEW k \in 1 .. c, j < k PROVE t[j] < t[k]
      <4>1. j \in 1 .. (c - 1)
        BY <3>7, <3>9
      <4>2. s[j] \in Y
        BY <3>6, <4>1
      <4>3. s[j] \in 1 .. (m - 1)
        BY <3>1, <4>2
      <4>4. s[j] < m
        BY <2>3, <4>3
      <4>5. j # c /\ t[j] = s[j]
        BY <3>7, <4>1
      <4>6. CASE k = c
        BY <4>4, <4>5, <4>6
      <4>7. CASE k # c
        <5>1. k \in 1 .. (c - 1) /\ t[k] = s[k]
          BY <3>7, <4>7
        <5> QED BY <3>6, <3>9, <4>1, <4>5, <5>1
      <4> QED BY <4>6, <4>7
    <3>10. IsAscending(t, X)
      BY <3>8, <3>9 DEF IsAscending, c
    <3> QED BY <2>2, <3>10
  <2> QED BY <2>4, <2>5, <2>6
<1>2. n \notin T
  BY <1>1
<1> QED BY <1>2

LEMMA AscendingCollects ==
  ASSUME NEW n \in Nat, NEW S \in SUBSET (1 .. n)
  PROVE  /\ Ascending(S) \in Seq(S)
         /\ \A j, k \in DOMAIN Ascending(S) :
              Ascending(S)[j] = Ascending(S)[k] => j = k
<1>1. PICK s : IsAscending(s, S)
  BY AscendingExists
<1>2. IsAscending(Ascending(S), S)
  <2>1. \E u \in [1 .. Cardinality(S) -> S] : \A j, k \in DOMAIN u : j < k => u[j] < u[k]
    BY <1>1 DEF IsAscending
  <2>2. /\ Ascending(S) \in [1 .. Cardinality(S) -> S]
        /\ \A j, k \in DOMAIN Ascending(S) : j < k => Ascending(S)[j] < Ascending(S)[k]
    BY <2>1, Zenon DEF Ascending
  <2> QED BY <2>2 DEF IsAscending
<1>3. IsFiniteSet(S) /\ Cardinality(S) \in Nat
  BY IntervalPartFinite, FS_CardinalityType
<1>4. Ascending(S) \in Seq(S)
  BY <1>2, <1>3 DEF IsAscending
<1>5. ASSUME NEW j \in DOMAIN Ascending(S), NEW k \in DOMAIN Ascending(S),
             Ascending(S)[j] = Ascending(S)[k]
      PROVE  j = k
  <2>1. DOMAIN Ascending(S) = 1 .. Cardinality(S)
    BY <1>2 DEF IsAscending
  <2>2. j \in Nat /\ k \in Nat
    BY <1>3, <2>1
  <2>3. Ascending(S)[j] \in S
    BY <1>2, <2>1 DEF IsAscending
  <2>4. Ascending(S)[j] \in 1 .. n
    BY <2>3
  <2>5. ~(j < k) /\ ~(k < j)
    BY <1>2, <1>5, <2>4 DEF IsAscending
  <2> QED BY <2>2, <2>5
<1> QED BY <1>4, <1>5

-----------------------------------------------------------------------------
(* Induction and iteration up to a bound.                                  *)

LEMMA UpTo ==
  ASSUME NEW n \in Nat, NEW S, 0 \in S, \A k \in 0 .. n : k \in S /\ k < n => k + 1 \in S
  PROVE  \A k \in 0 .. n : k \in S
<1> DEFINE T == {k \in Nat : k \in 0 .. n /\ k \notin S}
<1>1. CASE T = {}
  BY <1>1
<1>2. CASE T # {}
  <2>1. PICK k \in T : \A m \in T : k <= m
    BY <1>2, LeastNat
  <2>2. k \in 0 .. n /\ k \notin S
    OBVIOUS
  <2>3. k # 0
    BY <2>2
  <2>4. k - 1 \in 0 .. n /\ k - 1 < n /\ (k - 1) + 1 = k
    BY <2>2, <2>3
  <2>5. k - 1 \in S
    BY <2>1, <2>2, <2>4
  <2> QED BY <2>2, <2>4, <2>5
<1> QED BY <1>1, <1>2

IsIteration(f, n, X, x, step) ==
  /\ f \in [0 .. n -> X] /\ f[0] = x
  /\ \A k \in 1 .. n : f[k] = step[k][f[k - 1]]

(* A loop of n steps over states in X has the states it goes through.      *)
LEMMA IterationExists ==
  ASSUME NEW n \in Nat, NEW X, NEW x \in X, NEW step \in [1 .. n -> [X -> X]]
  PROVE  \E f : IsIteration(f, n, X, x, step)
<1> DEFINE S == {m \in 0 .. n : \E f : IsIteration(f, m, X, x, step)}
<1>1. 0 \in S
  <2>1. IsIteration([k \in 0 .. 0 |-> x], 0, X, x, step)
    BY DEF IsIteration
  <2> QED BY <2>1
<1>2. ASSUME NEW m \in 0 .. n, m \in S, m < n PROVE m + 1 \in S
  <2>1. PICK f : IsIteration(f, m, X, x, step)
    BY <1>2
  <2>2. f \in [0 .. m -> X] /\ f[0] = x /\ \A k \in 1 .. m : f[k] = step[k][f[k - 1]]
    BY <2>1 DEF IsIteration
  <2> DEFINE g == [k \in 0 .. (m + 1) |-> IF k = m + 1 THEN step[m + 1][f[m]] ELSE f[k]]
  <2>3. m + 1 \in 1 .. n /\ m \in 0 .. m /\ m + 1 \in 0 .. n
    BY <1>2
  <2>4. step[m + 1] \in [X -> X] /\ f[m] \in X
    BY <2>2, <2>3
  <2>5. g \in [0 .. (m + 1) -> X] /\ g[0] = x
    BY <2>2, <2>4
  <2>6. ASSUME NEW k \in 1 .. (m + 1) PROVE g[k] = step[k][g[k - 1]]
    <3>1. CASE k = m + 1
      <4>1. g[k - 1] = f[m] /\ g[k] = step[m + 1][f[m]]
        BY <3>1
      <4> QED BY <3>1, <4>1
    <3>2. CASE k # m + 1
      <4>1. k \in 1 .. m /\ g[k] = f[k] /\ g[k - 1] = f[k - 1]
        BY <3>2
      <4> QED BY <2>2, <4>1
    <3> QED BY <3>1, <3>2
  <2>7. IsIteration(g, m + 1, X, x, step)
    BY <2>5, <2>6 DEF IsIteration
  <2> QED BY <2>3, <2>7
<1> HIDE DEF S
<1>3. \A k \in 0 .. n : k \in S
  BY <1>1, <1>2, UpTo
<1>4. n \in S
  BY <1>3
<1> QED BY <1>4 DEF S
-----------------------------------------------------------------------------
(* Flattening.                                                             *)

(* ends[j] is where the j-th of seqs ends in flat.                         *)
IsFlattened(flat, seqs, X, ends) ==
  /\ flat \in Seq(X) /\ ends \in [0 .. Len(seqs) -> Nat]
  /\ ends[0] = 0 /\ ends[Len(seqs)] = Len(flat)
  /\ \A j \in 1 .. Len(seqs) :
       /\ ends[j] = ends[j - 1] + Len(seqs[j])
       /\ \A i \in 1 .. Len(seqs[j]) :
            ends[j - 1] + i \in 1 .. Len(flat) /\ flat[ends[j - 1] + i] = seqs[j][i]
  /\ \A k \in 1 .. Len(flat) : \E j \in 1 .. Len(seqs) :
       k - ends[j - 1] \in 1 .. Len(seqs[j])

LEMMA Flattened ==
  ASSUME NEW X, NEW seqs \in Seq(Seq(X))
  PROVE  \E ends : IsFlattened(FlattenSeq(seqs), seqs, X, ends)
<1> DEFINE n == Len(seqs)
           step == [k \in 1 .. n |-> [a \in Seq(X) |-> a \o seqs[k]]]
<1>1. n \in Nat /\ \A k \in 1 .. n : seqs[k] \in Seq(X)
  OBVIOUS
<1> HIDE DEF n
<1>2. step \in [1 .. n -> [Seq(X) -> Seq(X)]]
  <2>1. ASSUME NEW k \in 1 .. n, NEW a \in Seq(X) PROVE a \o seqs[k] \in Seq(X)
    BY <1>1, ConcatProperties
  <2> QED BY <2>1
<1>3. PICK f : IsIteration(f, n, Seq(X), <<>>, step)
  <2>1. <<>> \in Seq(X)
    OBVIOUS
  <2> HIDE DEF step
  <2> QED BY <1>1, <1>2, <2>1, IterationExists
<1>4. /\ f \in [0 .. n -> Seq(X)] /\ f[0] = <<>>
      /\ \A k \in 1 .. n : f[k] = f[k - 1] \o seqs[k]
  <2>1. \A k \in 1 .. n : k - 1 \in 0 .. n
    BY <1>1
  <2> QED BY <1>3, <2>1 DEF IsIteration
<1> DEFINE ends == [j \in 0 .. n |-> Len(f[j])]
           size == [j \in 1 .. n |-> Len(seqs[j])]
<1>5. /\ ends \in [0 .. n -> Nat] /\ size \in [1 .. n -> Nat]
      /\ ends[0] = 0 /\ ends[n] = Len(f[n]) /\ f[n] \in Seq(X)
      /\ \A k \in 0 .. n : Len(f[k]) = ends[k]
      /\ \A k \in 1 .. n : Len(seqs[k]) = size[k]
      /\ \A k \in 1 .. n :
           /\ k - 1 \in 0 .. n /\ ends[k] = ends[k - 1] + size[k]
           /\ \A i \in 1 .. ends[k] :
                f[k][i] = IF i <= ends[k - 1] THEN f[k - 1][i] ELSE seqs[k][i - ends[k - 1]]
  <2>1. ASSUME NEW j \in 0 .. n PROVE f[j] \in Seq(X) /\ Len(f[j]) \in Nat
    <3>1. f[j] \in Seq(X)
      BY <1>4
    <3> QED BY <3>1
  <2>2. ASSUME NEW j \in 1 .. n PROVE Len(seqs[j]) \in Nat
    <3>1. seqs[j] \in Seq(X)
      BY <1>1
    <3> QED BY <3>1
  <2>3. Len(f[0]) = 0 /\ 0 \in 0 .. n /\ n \in 0 .. n
    BY <1>1, <1>4
  <2>4. ASSUME NEW k \in 1 .. n
        PROVE  /\ k - 1 \in 0 .. n /\ Len(f[k]) = Len(f[k - 1]) + Len(seqs[k])
               /\ \A i \in 1 .. Len(f[k]) :
                    f[k][i] = IF i <= Len(f[k - 1]) THEN f[k - 1][i]
                              ELSE seqs[k][i - Len(f[k - 1])]
    <3>1. k - 1 \in 0 .. n
      BY <1>1
    <3>2. f[k - 1] \in Seq(X) /\ seqs[k] \in Seq(X) /\ f[k] = f[k - 1] \o seqs[k]
      BY <1>1, <1>4, <2>1, <3>1
    <3> DEFINE a == f[k - 1]
               c == seqs[k]
    <3>3. a \in Seq(X) /\ c \in Seq(X) /\ f[k] = a \o c
      BY <3>2
    <3> HIDE DEF a, c
    <3>4. /\ Len(a \o c) = Len(a) + Len(c)
          /\ \A i \in 1 .. Len(a) + Len(c) : (a \o c)[i] = IF i <= Len(a) THEN a[i] ELSE c[i - Len(a)]
      BY <3>3, ConcatProperties
    <3>5. /\ Len(f[k]) = Len(a) + Len(c)
          /\ \A i \in 1 .. Len(f[k]) : f[k][i] = IF i <= Len(a) THEN a[i] ELSE c[i - Len(a)]
      BY <3>3, <3>4
    <3> QED BY <3>1, <3>5 DEF a, c
  <2>5. \A k \in 1 .. n : k \in 0 .. n
    BY <1>1
  <2> QED BY <2>1, <2>2, <2>3, <2>4, <2>5
<1> HIDE DEF ends, size
<1>6. FlattenSeq(seqs) = f[n]
  <2>1. CASE n = 0
    <3>1. FlattenSeq(seqs) = seqs /\ seqs = <<>>
      BY <2>1 DEF FlattenSeq, n
    <3> QED BY <1>4, <2>1, <3>1
  <2>2. CASE n # 0
    <3> DEFINE IsRun(g) == g = [i \in 1 .. n |-> IF i = 1 THEN seqs[i] ELSE g[i - 1] \o seqs[i]]
               run == CHOOSE g : IsRun(g)
    <3>1. FlattenSeq(seqs) = run[n]
      BY <2>2 DEF FlattenSeq, n
    <3>2. IsRun([i \in 1 .. n |-> f[i]])
      <4>1. 0 + 1 = 1 /\ (1 \in 1 .. n => f[1] = seqs[1])
        <5>1. 1 \in 1 .. n /\ 1 - 1 = 0
          BY <1>1, <2>2
        <5>2. f[1] = <<>> \o seqs[1] /\ seqs[1] \in Seq(X)
          BY <1>1, <1>4, <5>1
        <5> QED BY <5>2
      <4>2. ASSUME NEW i \in 1 .. n
            PROVE  f[i] = IF i = 1 THEN seqs[i] ELSE [x \in 1 .. n |-> f[x]][i - 1] \o seqs[i]
        <5>1. i = 1 \/ i - 1 \in 1 .. n
          BY <1>1
        <5> QED BY <1>4, <4>1, <5>1
      <4> QED BY <4>2
    <3>3. IsRun(run)
      <4> HIDE DEF IsRun
      <4> QED BY <3>2
    <3>4. \A i \in 1 .. n : run[i] = IF i = 1 THEN seqs[i] ELSE run[i - 1] \o seqs[i]
      <4> HIDE DEF run
      <4> QED BY <3>3
    <3> HIDE DEF IsRun, run
    <3> DEFINE S == {k \in 0 .. n : k # 0 => run[k] = f[k]}
    <3>5. 0 \in S
      BY <1>1
    <3>6. ASSUME NEW k \in 0 .. n, k \in S, k < n PROVE k + 1 \in S
      <4>1. k + 1 \in 1 .. n /\ (k + 1) - 1 = k /\ k + 1 \in 0 .. n
        BY <1>1, <3>6
      <4>2. run[k + 1] = IF k + 1 = 1 THEN seqs[k + 1] ELSE run[k] \o seqs[k + 1]
        BY <3>4, <4>1
      <4>3. f[k + 1] = f[k] \o seqs[k + 1] /\ seqs[k + 1] \in Seq(X)
        BY <1>1, <1>4, <4>1
      <4>4. CASE k = 0
        <5>. k + 1 = 1
          BY <4>4
        <5>1. run[1] = seqs[1] /\ f[1] = <<>> \o seqs[1] /\ seqs[1] \in Seq(X)
          BY <1>4, <4>2, <4>3, <4>4
        <5>2. run[1] = f[1]
          BY <5>1
        <5> QED BY <4>1, <4>4, <5>2
      <4>5. CASE k # 0
        <5>1. run[k] = f[k] /\ k + 1 # 1
          BY <3>6, <4>5
        <5>2. run[k + 1] = f[k + 1]
          BY <4>2, <4>3, <5>1
        <5> QED BY <4>1, <5>2
      <4> QED BY <4>4, <4>5
    <3> HIDE DEF S
    <3>7. \A k \in 0 .. n : k \in S
      BY <1>1, <3>5, <3>6, UpTo
    <3> QED BY <1>1, <2>2, <3>1, <3>7 DEF S
  <2> QED BY <2>1, <2>2
(* What is in f[j] stays where it is.                                      *)
<1> DEFINE Kept(m) == \A j \in 0 .. m : /\ ends[j] <= ends[m]
                                        /\ \A i \in 1 .. ends[j] : f[m][i] = f[j][i]
           Covered(m) == \A k \in 1 .. ends[m] : \E j \in 1 .. m :
                           k - ends[j - 1] \in 1 .. size[j]
           S == {m \in 0 .. n : Kept(m) /\ Covered(m)}
<1>7. 0 \in S
  <2>1. \A j \in 0 .. 0 : j = 0
    OBVIOUS
  <2> QED BY <1>1, <1>5, <2>1
<1>8. ASSUME NEW m \in 0 .. n, m \in S, m < n PROVE m + 1 \in S
  <2>1. m + 1 \in 1 .. n /\ (m + 1) - 1 = m /\ m + 1 \in 0 .. n /\ m \in Nat
    BY <1>1, <1>8
  <2>2. /\ ends[m + 1] = ends[m] + size[m + 1]
        /\ ends[m] \in Nat /\ size[m + 1] \in Nat /\ ends[m + 1] \in Nat
        /\ \A i \in 1 .. ends[m + 1] :
             f[m + 1][i] = IF i <= ends[m] THEN f[m][i] ELSE seqs[m + 1][i - ends[m]]
    BY <1>5, <2>1
  <2>3. Kept(m) /\ Covered(m)
    BY <1>8
  <2>4. ASSUME NEW j \in 0 .. (m + 1)
        PROVE  ends[j] <= ends[m + 1] /\ \A i \in 1 .. ends[j] : f[m + 1][i] = f[j][i]
    <3>1. CASE j = m + 1
      BY <2>2, <3>1
    <3>2. CASE j # m + 1
      <4>1. j \in 0 .. m /\ j \in 0 .. n
        BY <1>1, <2>1, <3>2
      <4>2. ends[j] \in Nat
        BY <1>5, <4>1
      <4>3. ends[j] <= ends[m] /\ \A i \in 1 .. ends[j] : f[m][i] = f[j][i]
        BY <2>3, <4>1
      <4>4. ASSUME NEW i \in 1 .. ends[j]
            PROVE  i \in 1 .. ends[m + 1] /\ i <= ends[m]
        BY <2>2, <4>2, <4>3
      <4> QED BY <2>2, <4>2, <4>3, <4>4
    <3> QED BY <3>1, <3>2
  <2>5. ASSUME NEW k \in 1 .. ends[m + 1]
        PROVE  \E j \in 1 .. (m + 1) : k - ends[j - 1] \in 1 .. size[j]
    <3>1. CASE k <= ends[m]
      <4>1. k \in 1 .. ends[m]
        BY <2>2, <3>1
      <4>2. PICK j \in 1 .. m : k - ends[j - 1] \in 1 .. size[j]
        BY <2>3, <4>1
      <4>3. j \in 1 .. (m + 1)
        BY <2>1
      <4> QED BY <4>2, <4>3
    <3>2. CASE ~(k <= ends[m])
      <4>1. k - ends[m] \in 1 .. size[m + 1]
        BY <2>2, <3>2
      <4>2. m + 1 \in 1 .. (m + 1)
        BY <2>1
      <4> QED BY <2>1, <4>1, <4>2
    <3> QED BY <3>1, <3>2
  <2> QED BY <2>1, <2>4, <2>5
<1> HIDE DEF S, Kept, Covered
<1>9. Kept(n) /\ Covered(n)
  <2>1. \A m \in 0 .. n : m \in S
    BY <1>1, <1>7, <1>8, UpTo
  <2> QED BY <1>1, <2>1 DEF S
<1>10. ASSUME NEW j \in 1 .. n
       PROVE  \A i \in 1 .. size[j] :
                ends[j - 1] + i \in 1 .. ends[n] /\ f[n][ends[j - 1] + i] = seqs[j][i]
  <2>1. j \in 0 .. n /\ j - 1 \in 0 .. n /\ n \in 0 .. n
    BY <1>1
  <2>2. ends[j] <= ends[n] /\ \A i \in 1 .. ends[j] : f[n][i] = f[j][i]
    BY <1>9, <2>1 DEF Kept
  <2>3. /\ ends[j] = ends[j - 1] + size[j]
        /\ ends[j] \in Nat /\ ends[j - 1] \in Nat /\ size[j] \in Nat /\ ends[n] \in Nat
        /\ \A i \in 1 .. ends[j] :
             f[j][i] = IF i <= ends[j - 1] THEN f[j - 1][i] ELSE seqs[j][i - ends[j - 1]]
    BY <1>5, <2>1
  <2>4. ASSUME NEW i \in 1 .. size[j]
        PROVE  ends[j - 1] + i \in 1 .. ends[n] /\ f[n][ends[j - 1] + i] = seqs[j][i]
    <3>1. /\ ends[j - 1] + i \in 1 .. ends[j] /\ ~(ends[j - 1] + i <= ends[j - 1])
          /\ (ends[j - 1] + i) - ends[j - 1] = i /\ ends[j - 1] + i \in 1 .. ends[n]
      BY <2>2, <2>3
    <3> QED BY <2>2, <2>3, <3>1
  <2> QED BY <2>4
<1>11. \A k \in 1 .. Len(f[n]) : \E j \in 1 .. n : k - ends[j - 1] \in 1 .. Len(seqs[j])
  BY <1>5, <1>9 DEF Covered
<1>12. ends \in [0 .. n -> Nat] /\ f[n] \in Seq(X) /\ ends[0] = 0 /\ ends[n] = Len(f[n])
  BY <1>5
<1>13. \A j \in 1 .. n :
         /\ ends[j] = ends[j - 1] + Len(seqs[j])
         /\ \A i \in 1 .. Len(seqs[j]) :
              ends[j - 1] + i \in 1 .. Len(f[n]) /\ f[n][ends[j - 1] + i] = seqs[j][i]
  BY <1>5, <1>10
<1>14. IsFlattened(f[n], seqs, X, ends)
  BY <1>11, <1>12, <1>13 DEF IsFlattened, n
<1> QED BY <1>6, <1>14
=============================================================================
