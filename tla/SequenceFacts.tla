---------------------------- MODULE SequenceFacts ----------------------------
(***************************************************************************)
(* Induction over sets of numbers and of sequences, and what it shows: what *)
(* a fold of the community modules with addition computes, that functions   *)
(* defined step by step exist, and how the concatenation of a sequence of   *)
(* sequences grows.  The induction theorems of the library take a predicate *)
(* as a parameter; these take the set of those that have it, and follow     *)
(* from the library's theorem on minimal elements.                          *)
(***************************************************************************)
EXTENDS Integers, Sequences, SequencesExt, SequenceTheorems, FiniteSetTheorems,
        WellFoundedInduction, TLAPS

LEMMA Induction ==
  ASSUME NEW S \in SUBSET Nat, 0 \in S, \A n \in S : n + 1 \in S
  PROVE  S = Nat
<1> SUFFICES ASSUME Nat \ S # {} PROVE FALSE
  OBVIOUS
<1> DEFINE R == {p \in Nat \X Nat : p[1] < p[2]}
<1>1. IsWellFoundedOn(R, Nat)
  BY NatLessThanWellFounded DEF OpToRel
<1>2. PICK x \in Nat \ S : \A y \in Nat \ S : ~(<<y, x>> \in R)
  BY <1>1, WFMin
<1>3. x - 1 \in Nat /\ x - 1 < x
  <2>1. x # 0
    OBVIOUS
  <2> QED
    BY <2>1
<1>4. <<x - 1, x>> \in R
  BY <1>3
<1> QED
  BY <1>2, <1>3, <1>4

LEMMA SequenceInduction ==
  ASSUME NEW A, NEW S \in SUBSET Seq(A), <<>> \in S, \A s \in S, e \in A : Append(s, e) \in S
  PROVE  S = Seq(A)
<1> DEFINE N == {n \in Nat : \A s \in Seq(A) : Len(s) = n => s \in S}
<1>1. 0 \in N
  BY EmptySeq
<1>2. ASSUME NEW n \in N PROVE n + 1 \in N
  <2> SUFFICES ASSUME NEW s \in Seq(A), Len(s) = n + 1 PROVE s \in S
    OBVIOUS
  <2>1. s # <<>>
    BY EmptySeq
  <2>2. PICK t \in Seq(A), e \in A : s = Append(t, e)
    BY <2>1, SequenceEmptyOrAppend
  <2>3. Len(t) = n
    BY <2>2, AppendProperties, LenProperties
  <2> QED
    BY <2>2, <2>3
<1> HIDE DEF N
<1>3. N = Nat
  BY <1>1, <1>2, Induction DEF N
<1> QED
  BY <1>3, LenProperties DEF N
-----------------------------------------------------------------------------
(* Sums                                                                     *)

PickOf(s) == CHOOSE x \in s : TRUE

(* Does g give for each set s of indexes b plus the sum of v over s, taking *)
(* them in the order in which the folds do?                                 *)
IsSum(g, v, D, b) ==
  g = [s \in SUBSET D |-> IF s = {} THEN b ELSE v[PickOf(s)] + g[s \ {PickOf(s)}]]

SumOf(v, b) ==
  LET g == CHOOSE g : IsSum(g, v, DOMAIN v, b) IN g[DOMAIN v]

LEMMA PickIn == \A s : s # {} => PickOf(s) \in s
BY DEF PickOf

LEMMA SumExists ==
  ASSUME NEW D, IsFiniteSet(D), NEW v, NEW b
  PROVE  \E g : IsSum(g, v, D, b)
<1> DEFINE Small(n) == {s \in SUBSET D : Cardinality(s) <= n}
           Sums(g, n) == g = [s \in Small(n) |->
                                IF s = {} THEN b ELSE v[PickOf(s)] + g[s \ {PickOf(s)}]]
           N == {n \in Nat : \E g : Sums(g, n)}
<1>1. \A s \in SUBSET D : IsFiniteSet(s) /\ Cardinality(s) \in Nat
                          /\ Cardinality(s) <= Cardinality(D)
  BY FS_Subset, FS_CardinalityType
<1>2. 0 \in N
  <2>1. Small(0) = {{}}
    BY <1>1, FS_EmptySet
  <2>2. Sums([s \in {{}} |-> b], 0)
    BY <2>1
  <2> QED
    BY <2>2
<1>3. ASSUME NEW n \in N PROVE n + 1 \in N
  <2>1. PICK g : Sums(g, n)
    OBVIOUS
  <2> DEFINE h == [s \in Small(n + 1) |->
                     IF s = {} THEN b ELSE v[PickOf(s)] + g[s \ {PickOf(s)}]]
  <2>2. n \in Nat
    BY <1>3
  <2>3. ASSUME NEW s \in Small(n)
        PROVE  s \in Small(n + 1) /\ h[s] = g[s]
    <3>1. Cardinality(s) \in Nat /\ Cardinality(s) <= n
      BY <1>1, <2>3
    <3>2. s \in Small(n + 1)
      BY <2>2, <3>1
    <3> QED
      BY <2>1, <3>2
  <2>4. ASSUME NEW s \in Small(n + 1), s # {}
        PROVE  s \ {PickOf(s)} \in Small(n)
    <3>1. /\ PickOf(s) \in s /\ IsFiniteSet(s) /\ Cardinality(s) \in Nat
          /\ Cardinality(s) <= n + 1
      BY <1>1, <2>4, PickIn
    <3>2. Cardinality(s \ {PickOf(s)}) = Cardinality(s) - 1
      BY <3>1, FS_RemoveElement
    <3> QED
      BY <2>2, <3>1, <3>2
  <2>5. Sums(h, n + 1)
    BY <2>3, <2>4
  <2>6. n + 1 \in Nat
    BY <2>2
  <2> HIDE DEF Sums, h
  <2> QED
    BY <2>5, <2>6
<1> HIDE DEF N
<1>4. N = Nat
  BY <1>2, <1>3, Induction DEF N
<1>5. PICK g : Sums(g, Cardinality(D))
  BY <1>4, FS_CardinalityType DEF N
<1>6. Small(Cardinality(D)) = SUBSET D
  BY <1>1
<1> QED
  BY <1>5, <1>6 DEF IsSum

(* g sums the numbers of v over the subsets of D, any element first.        *)
SumsAnyFirst(g, v, D) ==
  \A s \in SUBSET D : /\ g[s] \in Int
                      /\ \A x \in s : g[s] = v[x] + g[s \ {x}]

(* The order does not matter: any element can be taken first.               *)
LEMMA SumAny ==
  ASSUME NEW D, IsFiniteSet(D), NEW v \in [D -> Int], NEW b \in Int, NEW g, IsSum(g, v, D, b)
  PROVE  SumsAnyFirst(g, v, D)
<1> DEFINE Right(s) == g[s] \in Int /\ \A x \in s : g[s] = v[x] + g[s \ {x}]
           N == {n \in Nat : \A s \in SUBSET D : Cardinality(s) <= n => Right(s)}
<1>1. \A s \in SUBSET D : IsFiniteSet(s) /\ Cardinality(s) \in Nat
  BY FS_Subset, FS_CardinalityType
<1>2. \A s \in SUBSET D : g[s] = IF s = {} THEN b ELSE v[PickOf(s)] + g[s \ {PickOf(s)}]
  BY DEF IsSum
<1>3. 0 \in N
  <2> SUFFICES ASSUME NEW s \in SUBSET D, Cardinality(s) <= 0 PROVE Right(s)
    OBVIOUS
  <2>1. s = {}
    BY <1>1, FS_EmptySet
  <2> QED
    BY <1>2, <2>1
<1>4. ASSUME NEW n \in N PROVE n + 1 \in N
  <2>1. n \in Nat /\ \A t \in SUBSET D : Cardinality(t) <= n => Right(t)
    BY <1>4
  <2> HIDE DEF N
  <2>2. ASSUME NEW s \in SUBSET D, Cardinality(s) = n + 1 PROVE Right(s)
    <3> DEFINE y == PickOf(s)
    <3>1. s # {} /\ y \in s
      <4>1. n \in Nat /\ Cardinality(s) # 0
        BY <2>1, <2>2
      <4> QED
        BY <4>1, FS_EmptySet, PickIn
    <3>2. ASSUME NEW x \in s PROVE s \ {x} \in SUBSET D /\ Cardinality(s \ {x}) = n
      BY <1>1, <2>1, <2>2, <3>2, FS_RemoveElement
    <3>3. ASSUME NEW x \in s PROVE Right(s \ {x})
      BY <2>1, <3>2
    <3> HIDE DEF y
    <3>4. g[s] = v[y] + g[s \ {y}] /\ g[s \ {y}] \in Int /\ v[y] \in Int
      BY <1>2, <3>1, <3>3 DEF y
    <3>5. ASSUME NEW x \in s PROVE g[s] = v[x] + g[s \ {x}]
      <4>1. CASE x = y
        BY <3>4, <4>1
      <4>2. CASE x # y
        <5> DEFINE t == (s \ {y}) \ {x}
        <5>1. t = (s \ {x}) \ {y}
          OBVIOUS
        <5>2. /\ t \in SUBSET D
              /\ Cardinality(t) <= n
          <6>1. x \in s \ {y} /\ IsFiniteSet(s \ {y}) /\ Cardinality(s \ {y}) = n
            BY <1>1, <3>1, <3>2, <3>5, <4>2
          <6>2. n \in Nat /\ t \in SUBSET D
            BY <2>1
          <6>3. Cardinality(t) = n - 1
            BY <6>1, FS_RemoveElement
          <6> HIDE DEF t
          <6> QED
            BY <6>2, <6>3
        <5>3. g[t] \in Int
          BY <2>1, <5>2
        <5>4. g[s \ {y}] = v[x] + g[t]
          BY <3>1, <3>3, <3>5, <4>2
        <5>5. g[s \ {x}] = v[y] + g[t]
          BY <3>1, <3>3, <3>5, <4>2, <5>1
        <5>6. v[x] \in Int /\ v[y] \in Int
          BY <3>1, <3>5
        <5> HIDE DEF t
        <5> QED
          BY <3>4, <5>3, <5>4, <5>5, <5>6
      <4> QED
        BY <4>1, <4>2
    <3>6. g[s] \in Int
      BY <3>4
    <3> QED
      BY <3>5, <3>6
  <2>3. ASSUME NEW s \in SUBSET D, Cardinality(s) <= n + 1 PROVE Right(s)
    <3>1. n \in Nat /\ Cardinality(s) \in Nat
      BY <1>1, <2>1
    <3>2. CASE Cardinality(s) <= n
      BY <2>1, <3>2
    <3>3. CASE Cardinality(s) = n + 1
      BY <2>2, <3>3
    <3> QED
      BY <2>3, <3>1, <3>2, <3>3
  <2>4. n + 1 \in Nat
    BY <2>1
  <2> HIDE DEF Right
  <2> QED
    BY <2>3, <2>4 DEF N
<1> HIDE DEF N
<1>5. N = Nat
  <2>1. N \in SUBSET Nat
    BY DEF N
  <2> QED
    BY <1>3, <1>4, <2>1, Induction
<1>6. ASSUME NEW s \in SUBSET D PROVE Right(s)
  <2>1. Cardinality(s) \in N
    BY <1>1, <1>5
  <2>2. Cardinality(s) <= Cardinality(s)
    BY <1>1
  <2> HIDE DEF Right
  <2> QED
    BY <2>1, <2>2 DEF N
<1> QED
  BY <1>6 DEF SumsAnyFirst
-----------------------------------------------------------------------------
(* Running totals                                                           *)

(* T[k] is b plus the sum of the first k numbers of v.                      *)
Totals(T, v, b) ==
  /\ T \in [0..Len(v) -> Int]
  /\ T[0] = b
  /\ \A k \in 1..Len(v) : T[k] = T[k - 1] + v[k]

(* What the folds compute on a sequence is its last total.                  *)
LEMMA SumTotals ==
  ASSUME NEW v \in Seq(Int), NEW b \in Int, NEW g, IsSum(g, v, DOMAIN v, b)
  PROVE  Totals([k \in 0..Len(v) |-> g[1..k]], v, b)
<1> DEFINE T == [k \in 0..Len(v) |-> g[1..k]]
<1>1. Len(v) \in Nat /\ DOMAIN v = 1..Len(v) /\ v \in [DOMAIN v -> Int]
  BY LenProperties
<1>0. IsFiniteSet(DOMAIN v)
  <2>1. 1 \in Int /\ Len(v) \in Int
    BY <1>1
  <2>2. IsFiniteSet(1..Len(v))
    BY <2>1, FS_Interval
  <2> QED
    BY <1>1, <2>2
<1>2. \A s \in SUBSET DOMAIN v : g[s] \in Int /\ \A x \in s : g[s] = v[x] + g[s \ {x}]
  <2> DEFINE D == DOMAIN v
  <2>1. IsFiniteSet(D) /\ v \in [D -> Int] /\ IsSum(g, v, D, b)
    BY <1>0, <1>1
  <2> HIDE DEF D
  <2>2. SumsAnyFirst(g, v, D)
    BY ONLY <2>1, b \in Int, SumAny
  <2> QED
    BY <2>2 DEF D, SumsAnyFirst
<1>3. g[{}] = b
  <2>1. {} \in SUBSET DOMAIN v
    OBVIOUS
  <2> QED
    BY <2>1 DEF IsSum
<1>4. ASSUME NEW k \in 0..Len(v) PROVE T[k] = g[1..k] /\ T[k] \in Int
  <2>1. 1..k \in SUBSET DOMAIN v
    BY <1>1
  <2> QED
    BY <1>2, <2>1
<1>5. T[0] = b
  <2>1. 1..0 = {} /\ 0 \in 0..Len(v)
    BY <1>1
  <2> QED
    BY <1>3, <2>1
<1>6. ASSUME NEW k \in 1..Len(v) PROVE T[k] = T[k - 1] + v[k]
  <2>1. 1..k \in SUBSET DOMAIN v /\ k \in 1..k /\ k \in 0..Len(v) /\ k - 1 \in 0..Len(v)
    BY <1>1
  <2>2. (1..k) \ {k} = 1..(k - 1)
    BY <1>1
  <2>3. g[1..k] = v[k] + g[1..(k - 1)]
    BY <1>2, <2>1, <2>2
  <2>4. T[k] = g[1..k] /\ T[k - 1] = g[1..(k - 1)] /\ T[k - 1] \in Int /\ v[k] \in Int
    BY <1>1, <1>4, <2>1
  <2> QED
    BY <2>3, <2>4
<1> HIDE DEF T
<1>7. T \in [0..Len(v) -> Int]
  BY <1>4 DEF T
<1> QED
  BY <1>5, <1>6, <1>7 DEF T, Totals

(* Totals of sequences that agree up to m differ by their bases only.       *)
LEMMA TotalsAgree ==
  ASSUME NEW v \in Seq(Int), NEW w \in Seq(Int), NEW b \in Int, NEW c \in Int, NEW T, NEW U,
         Totals(T, v, b), Totals(U, w, c),
         NEW m \in Nat, m <= Len(v), m <= Len(w), \A k \in 1..m : v[k] = w[k]
  PROVE  T[m] - b = U[m] - c
<1> DEFINE N == {k \in Nat : k <= m => T[k] - b = U[k] - c}
<1>1. 0 \in N
  BY LenProperties DEF Totals
<1>2. ASSUME NEW k \in N PROVE k + 1 \in N
  <2>1. k \in Nat /\ k + 1 \in Nat /\ Len(v) \in Nat /\ Len(w) \in Nat
    BY LenProperties
  <2>2. SUFFICES ASSUME k + 1 <= m PROVE T[k + 1] - b = U[k + 1] - c
    BY <2>1
  <2>3. T[k] - b = U[k] - c
    BY <2>1, <2>2
  <2>4. k + 1 \in 1..m /\ k + 1 \in 1..Len(v) /\ k + 1 \in 1..Len(w)
        /\ k \in 0..Len(v) /\ k \in 0..Len(w) /\ (k + 1) - 1 = k
    BY <2>1, <2>2
  <2>5. T[k + 1] = T[k] + v[k + 1] /\ U[k + 1] = U[k] + w[k + 1] /\ v[k + 1] = w[k + 1]
    BY <2>4 DEF Totals
  <2>6. T[k] \in Int /\ U[k] \in Int /\ v[k + 1] \in Int
    BY <2>4, ElementOfSeq DEF Totals
  <2>7. \A x, y, z \in Int : x - b = y - c => (x + z) - b = (y + z) - c
    OBVIOUS
  <2>8. (T[k] + v[k + 1]) - b = (U[k] + v[k + 1]) - c
    BY <2>3, <2>6, <2>7
  <2> QED
    BY <2>5, <2>8
<1> HIDE DEF N
<1>3. N = Nat
  <2>1. N \in SUBSET Nat
    BY DEF N
  <2> QED
    BY <1>1, <1>2, <2>1, Induction
<1> QED
  BY <1>3 DEF N
-----------------------------------------------------------------------------
(* Recursion                                                                *)

Steps(F, S, b, n, step) ==
  /\ F \in [0..n -> S]
  /\ F[0] = b
  /\ \A k \in 1..n : F[k] = step[k][F[k - 1]]

(* A function defined step by step from its value at 0 exists.              *)
LEMMA Recursion ==
  ASSUME NEW S, NEW b \in S, NEW n \in Nat, NEW step \in [1..n -> [S -> S]]
  PROVE  \E F : Steps(F, S, b, n, step)
<1> DEFINE N == {m \in Nat : m <= n => \E F : Steps(F, S, b, m, step)}
<1>1. 0 \in N
  <2>1. Steps([k \in 0..0 |-> b], S, b, 0, step)
    BY DEF Steps
  <2> QED
    BY <2>1
<1>2. ASSUME NEW m \in N PROVE m + 1 \in N
  <2>1. m \in Nat /\ m + 1 \in Nat
    OBVIOUS
  <2> SUFFICES ASSUME m + 1 <= n PROVE \E F : Steps(F, S, b, m + 1, step)
    BY <2>1
  <2>2. PICK F : Steps(F, S, b, m, step)
    BY <2>1
  <2> DEFINE G == [k \in 0..m + 1 |-> IF k = m + 1 THEN step[m + 1][F[m]] ELSE F[k]]
  <2>3. F[m] \in S /\ m + 1 \in 1..n /\ step[m + 1][F[m]] \in S
    BY <2>1, <2>2 DEF Steps
  <2>4. ASSUME NEW k \in 0..m PROVE G[k] = F[k] /\ F[k] \in S
    BY <2>1, <2>2 DEF Steps
  <2>5. G[m + 1] = step[m + 1][F[m]]
    BY <2>1
  <2>6. ASSUME NEW k \in 0..m + 1 PROVE G[k] \in S
    <3>1. k = m + 1 \/ k \in 0..m
      BY <2>1
    <3> QED
      BY <2>3, <2>4, <2>5, <3>1
  <2>7. ASSUME NEW k \in 1..m + 1 PROVE G[k] = step[k][G[k - 1]]
    <3>1. CASE k = m + 1
      <4>1. k - 1 = m /\ m \in 0..m
        BY <2>1, <3>1
      <4>2. G[m] = F[m]
        BY <2>4, <4>1
      <4> QED
        BY <2>5, <3>1, <4>1, <4>2
    <3>2. CASE k # m + 1
      <4>1. k \in 1..m /\ k \in 0..m /\ k - 1 \in 0..m
        BY <2>1, <3>2
      <4>2. G[k] = F[k] /\ G[k - 1] = F[k - 1]
        BY <2>4, <4>1
      <4> QED
        BY <2>2, <4>1, <4>2 DEF Steps
    <3> QED
      BY <3>1, <3>2
  <2>8. G[0] = b /\ G = [k \in 0..m + 1 |-> G[k]]
    BY <2>1, <2>2, <2>4 DEF Steps
  <2> HIDE DEF G
  <2>9. G \in [0..m + 1 -> S]
    BY <2>6, <2>8
  <2> QED
    BY <2>7, <2>8, <2>9 DEF Steps
<1> HIDE DEF N
<1>3. N = Nat
  <2>1. N \in SUBSET Nat
    BY DEF N
  <2> QED
    BY <1>1, <1>2, <2>1, Induction
<1>4. n \in N
  BY <1>3
<1> QED
  BY <1>4 DEF N

-----------------------------------------------------------------------------
(* Concatenations                                                           *)

(* F[k] is the concatenation of the first k of the sequences.               *)
Joins(F, seqs, A) ==
  /\ F \in [0..Len(seqs) -> Seq(A)]
  /\ F[0] = <<>>
  /\ \A k \in 1..Len(seqs) : F[k] = F[k - 1] \o seqs[k]

LEMMA FlattenJoins ==
  ASSUME NEW A, NEW seqs \in Seq(Seq(A))
  PROVE  \E F : Joins(F, seqs, A) /\ FlattenSeq(seqs) = F[Len(seqs)]
<1>1. Len(seqs) \in Nat /\ \A k \in 1..Len(seqs) : seqs[k] \in Seq(A)
  BY LenProperties, ElementOfSeq
<1>2. \E F : Joins(F, seqs, A)
  <2> DEFINE step == [k \in 1..Len(seqs) |-> [s \in Seq(A) |-> s \o seqs[k]]]
  <2>1. step \in [1..Len(seqs) -> [Seq(A) -> Seq(A)]]
    BY <1>1, ConcatProperties
  <2>2. <<>> \in Seq(A)
    OBVIOUS
  <2>3. \A k \in 1..Len(seqs), s \in Seq(A) : step[k][s] = s \o seqs[k]
    OBVIOUS
  <2> HIDE DEF step
  <2>4. \E F : Steps(F, Seq(A), <<>>, Len(seqs), step)
    <3> DEFINE S == Seq(A)
               n == Len(seqs)
    <3>1. n \in Nat /\ step \in [1..n -> [S -> S]] /\ <<>> \in S
      BY <1>1, <2>1, <2>2
    <3> HIDE DEF S, n
    <3>2. \E F : Steps(F, S, <<>>, n, step)
      BY ONLY <3>1, Recursion
    <3> QED
      BY <3>2 DEF S, n
  <2>5. PICK F : Steps(F, Seq(A), <<>>, Len(seqs), step)
    BY <2>4
  <2>6. ASSUME NEW k \in 1..Len(seqs) PROVE F[k] = F[k - 1] \o seqs[k]
    <3>1. k - 1 \in 0..Len(seqs)
      BY <1>1
    <3> QED
      BY <2>3, <2>5, <3>1 DEF Steps
  <2> QED
    BY <2>5, <2>6 DEF Joins, Steps
<1>3. PICK F : Joins(F, seqs, A)
  BY <1>2
<1>4. CASE Len(seqs) = 0
  BY <1>3, <1>4, EmptySeq DEF FlattenSeq, Joins
<1>5. CASE Len(seqs) # 0
  <2> DEFINE Flat(f) == f = [i \in 1..Len(seqs) |->
                               IF i = 1 THEN seqs[i] ELSE f[i - 1] \o seqs[i]]
  <2>0. F[1] = seqs[1]
    <3>1. 1 \in 1..Len(seqs) /\ 1 - 1 = 0
      BY <1>1, <1>5
    <3>2. F[1] = F[1 - 1] \o seqs[1] /\ F[0] = <<>>
      BY <1>3, <3>1 DEF Joins
    <3>3. F[1] = <<>> \o seqs[1] /\ seqs[1] \in Seq(A)
      BY <1>1, <3>1, <3>2
    <3> QED
      BY <3>3, ConcatEmptySeq
  <2>1. Flat([i \in 1..Len(seqs) |-> F[i]])
    <3> DEFINE f == [i \in 1..Len(seqs) |-> F[i]]
    <3>1. ASSUME NEW i \in 1..Len(seqs)
          PROVE  F[i] = IF i = 1 THEN seqs[i] ELSE f[i - 1] \o seqs[i]
      <4>1. CASE i = 1
        BY <2>0, <4>1
      <4>2. CASE i # 1
        <5>1. i - 1 \in 1..Len(seqs)
          BY <1>1, <4>2
        <5>2. f[i - 1] = F[i - 1]
          BY <5>1
        <5> QED
          BY <1>3, <4>2, <5>2 DEF Joins
      <4> QED
        BY <4>1, <4>2
    <3> QED
      BY <3>1
  <2> DEFINE g == CHOOSE f : Flat(f)
  <2>2. Flat(g)
    <3> HIDE DEF Flat
    <3> QED
      BY <2>1
  <2>3. FlattenSeq(seqs) = g[Len(seqs)]
    BY <1>5 DEF FlattenSeq
  <2> HIDE DEF g
  <2> DEFINE N == {i \in Nat : i + 1 \in 1..Len(seqs) => g[i + 1] = F[i + 1]}
  <2>4. 0 \in N
    <3> SUFFICES ASSUME 1 \in 1..Len(seqs) PROVE g[1] = F[1]
      OBVIOUS
    <3>1. g[1] = seqs[1]
      BY <2>2
    <3> QED
      BY <2>0, <3>1
  <2>5. ASSUME NEW i \in N PROVE i + 1 \in N
    <3>1. i \in Nat /\ i + 1 \in Nat
      OBVIOUS
    <3> SUFFICES ASSUME (i + 1) + 1 \in 1..Len(seqs)
                 PROVE  g[(i + 1) + 1] = F[(i + 1) + 1]
      BY <3>1
    <3>2. i + 1 \in 1..Len(seqs) /\ (i + 1) + 1 # 1 /\ ((i + 1) + 1) - 1 = i + 1
      BY <1>1, <3>1
    <3>3. g[(i + 1) + 1] = g[i + 1] \o seqs[(i + 1) + 1]
      BY <2>2, <3>2
    <3>4. F[(i + 1) + 1] = F[i + 1] \o seqs[(i + 1) + 1]
      BY <1>3, <3>2 DEF Joins
    <3>5. g[i + 1] = F[i + 1]
      BY <3>2
    <3> QED
      BY <3>3, <3>4, <3>5
  <2> HIDE DEF N
  <2>6. N = Nat
    <3>1. N \in SUBSET Nat
      BY DEF N
    <3> QED
      BY <2>4, <2>5, <3>1, Induction
  <2>7. Len(seqs) - 1 \in Nat /\ (Len(seqs) - 1) + 1 = Len(seqs)
        /\ Len(seqs) \in 1..Len(seqs)
    BY <1>1, <1>5
  <2>8. g[Len(seqs)] = F[Len(seqs)]
    BY <2>6, <2>7 DEF N
  <2> QED
    BY <1>3, <2>3, <2>8
<1> QED
  BY <1>4, <1>5

LEMMA FlattenType ==
  ASSUME NEW A, NEW seqs \in Seq(Seq(A))
  PROVE  FlattenSeq(seqs) \in Seq(A)
<1>1. PICK F : Joins(F, seqs, A) /\ FlattenSeq(seqs) = F[Len(seqs)]
  BY FlattenJoins
<1>2. Len(seqs) \in 0..Len(seqs)
  BY LenProperties
<1> QED
  BY <1>1, <1>2 DEF Joins

LEMMA FlattenNothing ==
  ASSUME NEW A, NEW seqs \in Seq(Seq(A)), \A k \in 1..Len(seqs) : seqs[k] = <<>>
  PROVE  FlattenSeq(seqs) = <<>>
<1>1. PICK F : Joins(F, seqs, A) /\ FlattenSeq(seqs) = F[Len(seqs)]
  BY FlattenJoins
<1> DEFINE N == {k \in Nat : k <= Len(seqs) => F[k] = <<>>}
<1>2. 0 \in N
  BY <1>1 DEF Joins
<1>3. ASSUME NEW k \in N PROVE k + 1 \in N
  <2>1. k \in Nat /\ Len(seqs) \in Nat /\ k + 1 \in Nat
    BY LenProperties
  <2> SUFFICES ASSUME k + 1 <= Len(seqs) PROVE F[k + 1] = <<>>
    BY <2>1
  <2>2. k + 1 \in 1..Len(seqs) /\ (k + 1) - 1 = k /\ F[k] = <<>>
    BY <2>1
  <2>3. F[k + 1] = F[k] \o seqs[k + 1]
    BY <1>1, <2>2 DEF Joins
  <2>4. F[k + 1] = <<>> \o <<>>
    BY <2>2, <2>3
  <2> QED
    BY <2>4
<1> HIDE DEF N
<1>4. N = Nat
  <2>1. N \in SUBSET Nat
    BY DEF N
  <2> QED
    BY <1>2, <1>3, <2>1, Induction
<1>5. Len(seqs) \in N /\ Len(seqs) <= Len(seqs)
  BY <1>4, LenProperties
<1> QED
  BY <1>1, <1>5 DEF N

(* What is put into an empty sequence that only empty ones follow goes to   *)
(* the end.                                                                 *)
LEMMA FlattenAtEnd ==
  ASSUME NEW A, NEW seqs \in Seq(Seq(A)), NEW i \in 1..Len(seqs), NEW x \in Seq(A),
         \A k \in i..Len(seqs) : seqs[k] = <<>>
  PROVE  /\ [seqs EXCEPT ![i] = x] \in Seq(Seq(A))
         /\ FlattenSeq([seqs EXCEPT ![i] = x]) = FlattenSeq(seqs) \o x
<1> DEFINE after == [seqs EXCEPT ![i] = x]
<1>1. Len(seqs) \in Nat /\ i \in Nat /\ seqs \in [1..Len(seqs) -> Seq(A)]
  BY LenProperties
<1>2. /\ after \in Seq(Seq(A)) /\ Len(after) = Len(seqs)
      /\ \A k \in 1..Len(seqs) : after[k] = IF k = i THEN x ELSE seqs[k]
  <2>1. after \in Seq(Seq(A)) /\ Len(after) = Len(seqs)
    BY ExceptSeq
  <2>2. ASSUME NEW k \in 1..Len(seqs) PROVE after[k] = IF k = i THEN x ELSE seqs[k]
    BY <1>1
  <2> QED
    BY <2>1, <2>2
<1> HIDE DEF after
<1>3. PICK F : Joins(F, seqs, A) /\ FlattenSeq(seqs) = F[Len(seqs)]
  BY FlattenJoins
<1>4. PICK G : Joins(G, after, A) /\ FlattenSeq(after) = G[Len(after)]
  BY <1>2, FlattenJoins
<1> DEFINE Same(k) == G[k] = IF k < i THEN F[k] ELSE F[k] \o x
           N == {k \in Nat : k <= Len(seqs) => Same(k)}
<1>5. 0 \in N
  BY <1>1, <1>2, <1>3, <1>4 DEF Joins
<1>6. ASSUME NEW k \in N PROVE k + 1 \in N
  <2>1. k \in Nat /\ k + 1 \in Nat
    OBVIOUS
  <2> SUFFICES ASSUME k + 1 <= Len(seqs) PROVE Same(k + 1)
    BY <2>1
  <2>2. /\ k + 1 \in 1..Len(seqs) /\ k \in 0..Len(seqs) /\ (k + 1) - 1 = k
        /\ Same(k)
    BY <1>1, <2>1
  <2>3. /\ F[k + 1] = F[k] \o seqs[k + 1] /\ F[k] \in Seq(A)
        /\ G[k + 1] = G[k] \o after[k + 1] /\ G[k] \in Seq(A)
    BY <1>2, <1>3, <1>4, <2>2 DEF Joins
  <2>4. CASE k + 1 < i
    <3>1. k < i /\ k + 1 # i
      BY <1>1, <2>1, <2>4
    <3>2. G[k] = F[k] /\ after[k + 1] = seqs[k + 1]
      BY <1>2, <2>2, <3>1
    <3> QED
      BY <2>3, <2>4, <3>2
  <2>5. CASE k + 1 = i
    <3>1. seqs[k + 1] = <<>> /\ after[k + 1] = x /\ G[k] = F[k]
      BY <1>1, <1>2, <2>1, <2>2, <2>5
    <3>2. F[k + 1] = F[k]
      BY <2>3, <3>1, ConcatEmptySeq
    <3> QED
      BY <1>1, <2>1, <2>3, <2>5, <3>1, <3>2
  <2>6. CASE k + 1 > i
    <3>1. k + 1 \in i..Len(seqs) /\ ~(k < i) /\ ~(k + 1 < i) /\ k + 1 # i
      BY <1>1, <2>1, <2>2, <2>6
    <3>2. seqs[k + 1] = <<>> /\ after[k + 1] = <<>> /\ G[k] = F[k] \o x
      BY <1>2, <2>2, <3>1
    <3>3. F[k + 1] = F[k] /\ G[k + 1] = G[k]
      BY <2>3, <3>2, ConcatEmptySeq
    <3> QED
      BY <3>1, <3>2, <3>3
  <2> QED
    BY <1>1, <2>1, <2>4, <2>5, <2>6
<1> HIDE DEF N
<1>7. N = Nat
  <2>1. N \in SUBSET Nat
    BY DEF N
  <2> QED
    BY <1>5, <1>6, <2>1, Induction
<1>8. Len(seqs) \in N /\ Len(seqs) <= Len(seqs) /\ ~(Len(seqs) < i)
  BY <1>1, <1>7
<1>9. G[Len(seqs)] = F[Len(seqs)] \o x
  BY <1>8 DEF N
<1> QED
  BY <1>2, <1>3, <1>4, <1>9 DEF after

FoundAt(F, seqs, k) ==
  /\ Len(F[k - 1]) \in Nat /\ Len(F[k]) = Len(F[k - 1]) + Len(seqs[k])
  /\ Len(F[k]) <= Len(F[Len(seqs)])
  /\ \A i \in 1..Len(seqs[k]) : F[Len(seqs)][Len(F[k - 1]) + i] = seqs[k][i]

(* Each sequence is found in the concatenation where the ones before it     *)
(* end.                                                                     *)
LEMMA FlattenIndex ==
  ASSUME NEW A, NEW seqs \in Seq(Seq(A)), NEW F, Joins(F, seqs, A), NEW k \in 1..Len(seqs)
  PROVE  FoundAt(F, seqs, k)
<1> DEFINE n == Len(seqs)
<1>1. /\ n \in Nat /\ k \in Nat /\ k - 1 \in 0..n /\ k \in 0..n
      /\ F[k - 1] \in Seq(A) /\ F[k] \in Seq(A) /\ seqs[k] \in Seq(A)
      /\ F[k] = F[k - 1] \o seqs[k]
  <2>1. n \in Nat /\ k \in Nat /\ k - 1 \in 0..n /\ k \in 0..n
    BY LenProperties
  <2>2. seqs[k] \in Seq(A)
    BY ElementOfSeq
  <2> QED
    BY <2>1, <2>2 DEF Joins
<1>2. /\ Len(F[k - 1]) \in Nat /\ Len(seqs[k]) \in Nat /\ Len(F[k]) \in Nat
      /\ Len(F[k]) = Len(F[k - 1]) + Len(seqs[k])
      /\ \A i \in 1..Len(seqs[k]) : F[k][Len(F[k - 1]) + i] = seqs[k][i]
  <2> DEFINE s == F[k - 1]
             t == seqs[k]
  <2>1. s \in Seq(A) /\ t \in Seq(A)
    BY <1>1
  <2> HIDE DEF s, t
  <2>2. /\ Len(s) \in Nat /\ Len(t) \in Nat /\ Len(s \o t) = Len(s) + Len(t)
        /\ \A i \in 1..Len(s) + Len(t) : (s \o t)[i] = IF i <= Len(s) THEN s[i] ELSE t[i - Len(s)]
    BY <2>1, ConcatProperties, LenProperties
  <2>3. ASSUME NEW i \in 1..Len(t) PROVE (s \o t)[Len(s) + i] = t[i]
    <3>1. Len(s) + i \in 1..Len(s) + Len(t) /\ ~(Len(s) + i <= Len(s)) /\ (Len(s) + i) - Len(s) = i
      BY <2>2
    <3> QED
      BY <2>2, <3>1
  <2>4. Len(s \o t) \in Nat
    BY <2>2
  <2> QED
    BY <1>1, <2>2, <2>3, <2>4 DEF s, t
<1> DEFINE Extends(m) == /\ Len(F[k]) <= Len(F[m])
                         /\ \A i \in 1..Len(F[k]) : F[m][i] = F[k][i]
           N == {m \in Nat : k + m <= n => Extends(k + m)}
<1>3. 0 \in N
  <2>1. k + 0 = k /\ Len(F[k]) <= Len(F[k])
    BY <1>1, <1>2
  <2> QED
    BY <2>1
<1>4. ASSUME NEW m \in N PROVE m + 1 \in N
  <2>1. m \in Nat /\ m + 1 \in Nat
    OBVIOUS
  <2> SUFFICES ASSUME k + (m + 1) <= n PROVE Extends(k + (m + 1))
    BY <2>1
  <2> DEFINE s == F[k + m]
             t == seqs[k + (m + 1)]
             r == F[k]
  <2>2. Extends(k + m)
    <3>1. k + m <= n
      BY <1>1, <2>1
    <3> HIDE DEF Extends
    <3> QED
      BY <3>1
  <2>3. /\ k + m \in 0..n /\ k + (m + 1) \in 1..n /\ (k + (m + 1)) - 1 = k + m
    BY <1>1, <2>1
  <2>4. s \in Seq(A) /\ t \in Seq(A) /\ F[k + (m + 1)] = s \o t
    BY <2>3, ElementOfSeq DEF Joins
  <2>5. r \in Seq(A) /\ Len(r) <= Len(s) /\ \A i \in 1..Len(r) : s[i] = r[i]
    BY <1>1, <2>2
  <2> HIDE DEF s, t, r
  <2>6. /\ Len(r) \in Nat /\ Len(s) \in Nat /\ Len(t) \in Nat /\ Len(s \o t) = Len(s) + Len(t)
        /\ \A i \in 1..Len(s) + Len(t) : (s \o t)[i] = IF i <= Len(s) THEN s[i] ELSE t[i - Len(s)]
    BY <2>4, <2>5, ConcatProperties, LenProperties
  <2>7. ASSUME NEW i \in 1..Len(r) PROVE (s \o t)[i] = r[i]
    <3>1. i \in 1..Len(s) + Len(t) /\ i <= Len(s)
      BY <2>5, <2>6
    <3> QED
      BY <2>5, <2>6, <3>1
  <2>8. Len(r) <= Len(s \o t)
    BY <2>5, <2>6
  <2> QED
    BY <2>4, <2>7, <2>8 DEF r
<1> HIDE DEF N
<1>5. N = Nat
  <2>1. N \in SUBSET Nat
    BY DEF N
  <2> QED
    BY <1>3, <1>4, <2>1, Induction
<1>6. Extends(n)
  <2>1. n - k \in N /\ k + (n - k) = n
    BY <1>1, <1>5
  <2> QED
    BY <1>1, <2>1 DEF N
<1>7. ASSUME NEW i \in 1..Len(seqs[k]) PROVE F[n][Len(F[k - 1]) + i] = seqs[k][i]
  <2> DEFINE a == Len(F[k - 1])
             b == Len(seqs[k])
             c == Len(F[k])
  <2>1. a \in Nat /\ b \in Nat /\ c = a + b /\ i \in 1..b
    BY <1>2
  <2> HIDE DEF a, b, c
  <2>2. a + i \in 1..c
    BY <2>1
  <2>3. F[n][a + i] = F[k][a + i]
    BY <1>6, <2>2 DEF c
  <2> QED
    BY <1>2, <2>3 DEF a
<1> QED
  BY <1>2, <1>6, <1>7 DEF FoundAt
===============================================================================
