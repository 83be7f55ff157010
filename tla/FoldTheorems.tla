---------------------------- MODULE FoldTheorems -----------------------------
(***************************************************************************)
(* Facts about folds, sums, finite sets of numbers, sequences, their order *)
(* and quotients that the proofs about the model's operators rest on.      *)
(*                                                                         *)
(* A fold of the community modules is CHOOSE g : g = [s \in SUBSET S |->   *)
(* ... g[s \ {x}] ...], taken at S.  FoldExists says that there is such a  *)
(* g, so that its equation holds at every subset; what it computes is then *)
(* proved by induction over the subsets (BySubset, FoldInduction), with    *)
(* the smallest counterexample in place of an induction rule.              *)
(***************************************************************************)
EXTENDS Integers, Sequences, FiniteSetsExt, SequencesExt, FiniteSetTheorems, WellFoundedInduction, TLAPS

-----------------------------------------------------------------------------
(* Induction *)

\* A set of naturals has a least.
LEMMA LeastNat ==
  ASSUME NEW S \in SUBSET Nat, S # {}
  PROVE  /\ Min(S) \in S /\ \A a \in S : Min(S) <= a
<1>1. PICK x \in S : \A y \in S : <<y, x>> \notin OpToRel(<, Nat)
  BY WFMin, NatLessThanWellFounded, Zenon
<1>2. \A y \in S : ~(y < x)
  BY <1>1, Zenon DEF OpToRel
<1>3. \E z \in S : \A y \in S : z =< y
  <2>1. \A y \in S : x \in Nat /\ y \in Nat
    OBVIOUS
  <2> QED BY <1>2, <2>1
<1> QED BY <1>3 DEF Min

\* Induction over the naturals: what holds of 0 and of a number after those it
\* holds of, holds of all.
LEMMA ByNumber ==
  ASSUME NEW G, 0 \in G, \A n \in Nat : n \in G => n + 1 \in G
  PROVE  \A n \in Nat : n \in G
<1> DEFINE Bad == Nat \ G
<1> SUFFICES ASSUME Bad # {} PROVE FALSE
  OBVIOUS
<1>1. PICK x \in Bad : \A y \in Bad : <<y, x>> \notin OpToRel(<, Nat)
  <2>1. Bad \subseteq Nat
    OBVIOUS
  <2> HIDE DEF Bad
  <2> QED BY <2>1, WFMin, NatLessThanWellFounded, Zenon
<1>2. \A y \in Bad : ~(y < x)
  BY <1>1, Zenon DEF OpToRel
<1>3. x # 0 /\ x - 1 \in Nat /\ x - 1 < x
  OBVIOUS
<1>4. x - 1 \in G
  BY <1>2, <1>3
<1>5. (x - 1) + 1 \in G
  BY <1>3, <1>4
<1> QED BY <1>5

\* Induction over the subsets of a finite set.
LEMMA BySubset ==
  ASSUME NEW S, IsFiniteSet(S), NEW G,
         \A s \in SUBSET S : (\A r \in SUBSET s : r # s => r \in G) => s \in G
  PROVE  \A s \in SUBSET S : s \in G
<1> DEFINE Bad == (SUBSET S) \ G
<1> SUFFICES ASSUME Bad # {} PROVE FALSE
  OBVIOUS
<1>1. PICK x \in Bad : \A y \in Bad : ~(<<y, x>> \in StrictSubsetOrdering(S))
  <2>1. Bad \subseteq FiniteSubsetsOf(S)
    BY FS_FiniteSubsetsOfFinite
  <2> HIDE DEF Bad
  <2> QED BY <2>1, WFMin, FS_StrictSubsetOrderingWellFounded
<1>2. x \in SUBSET S /\ x \notin G
  OBVIOUS
<1>3. \A r \in SUBSET x : r # x => r \in G
  BY <1>1, <1>2 DEF StrictSubsetOrdering
<1> QED BY <1>2, <1>3

\* What takes an element from every set that has one.
Takes(c, S) == \A s \in SUBSET S : s # {} => c[s] \in s

\* A fold: the base of the empty set, a step for the element taken last.
IsFold(g, S, c, base, step) ==
  \A s \in SUBSET S : g[s] = IF s = {} THEN base ELSE step[c[s]][g[s \ {c[s]}]]

\* Folds exist, for steps that stay among some states.
LEMMA FoldExists ==
  ASSUME NEW S, IsFiniteSet(S), NEW c, Takes(c, S),
         NEW States, NEW base \in States, NEW step \in [S -> [States -> States]]
  PROVE  \E g \in [SUBSET S -> States] : IsFold(g, S, c, base, step)
<1> DEFINE Value(g, s) == IF s = {} THEN base ELSE step[c[s]][g[s \ {c[s]}]]
           Partial(g, n) == \A s \in SUBSET S : Cardinality(s) <= n => g[s] = Value(g, s)
           Good == {n \in Nat : \E g \in [SUBSET S -> States] : Partial(g, n)}
<1>1. ASSUME NEW s \in SUBSET S
      PROVE  /\ Cardinality(s) \in Nat /\ Cardinality(s) <= Cardinality(S)
             /\ Cardinality(s) = 0 => s = {}
  <2>1. IsFiniteSet(s) /\ Cardinality(s) \in Nat /\ Cardinality(s) <= Cardinality(S)
    BY FS_Subset, FS_CardinalityType
  <2> QED BY <2>1, FS_EmptySet
<1>2. ASSUME NEW s \in SUBSET S, s # {}
      PROVE  /\ c[s] \in s /\ c[s] \in S /\ s \ {c[s]} \in SUBSET S
             /\ Cardinality(s \ {c[s]}) = Cardinality(s) - 1
  <2>1. c[s] \in s /\ IsFiniteSet(s)
    BY <1>2, FS_Subset DEF Takes
  <2> QED BY <2>1, FS_RemoveElement
<1>3. 0 \in Good
  <2> DEFINE g == [s \in SUBSET S |-> base]
  <2>1. g \in [SUBSET S -> States]
    OBVIOUS
  <2>2. ASSUME NEW s \in SUBSET S, Cardinality(s) <= 0 PROVE g[s] = Value(g, s)
    <3>1. s = {}
      BY <1>1, <2>2
    <3> QED BY <3>1
  <2> HIDE DEF g, Value
  <2> QED BY <2>1, <2>2
<1>4. ASSUME NEW n \in Nat, n \in Good PROVE n + 1 \in Good
  <2>1. PICK g \in [SUBSET S -> States] : Partial(g, n)
    BY <1>4
  <2> DEFINE h == [s \in SUBSET S |-> Value(g, s)]
  <2>2. h \in [SUBSET S -> States]
    <3>1. ASSUME NEW s \in SUBSET S, s # {} PROVE step[c[s]][g[s \ {c[s]}]] \in States
      <4>1. c[s] \in S /\ s \ {c[s]} \in SUBSET S
        BY <1>2, <3>1
      <4>2. step[c[s]] \in [States -> States] /\ g[s \ {c[s]}] \in States
        BY <4>1
      <4> QED BY <4>2
    <3>2. \A s \in SUBSET S : Value(g, s) \in States
      BY <3>1
    <3> HIDE DEF Value
    <3> QED BY <3>2
  <2>3. ASSUME NEW s \in SUBSET S, Cardinality(s) <= n + 1 PROVE h[s] = Value(h, s)
    <3>1. CASE s = {}
      BY <3>1
    <3>2. CASE s # {}
      <4> DEFINE r == s \ {c[s]}
      <4>1. r \in SUBSET S /\ Cardinality(r) <= n
        BY <1>1, <1>2, <2>3, <3>2
      <4>2. g[r] = Value(g, r)
        <5> HIDE DEF r, Value
        <5> QED BY <2>1, <4>1
      <4>3. h[r] = g[r]
        BY <4>1, <4>2
      <4> QED BY <3>2, <4>3
    <3> QED BY <3>1, <3>2
  <2> HIDE DEF h, Value
  <2> QED BY <2>2, <2>3
<1>5. Cardinality(S) \in Good
  <2>1. Cardinality(S) \in Nat
    BY FS_CardinalityType
  <2> HIDE DEF Good
  <2> QED BY <1>3, <1>4, <2>1, ByNumber
<1>6. PICK g \in [SUBSET S -> States] : Partial(g, Cardinality(S))
  BY <1>5
<1>7. \A s \in SUBSET S : g[s] = Value(g, s)
  <2> HIDE DEF Value
  <2> QED BY <1>1, <1>6
<1> QED BY <1>7 DEF IsFold

\* Induction along a fold.
LEMMA FoldInduction ==
  ASSUME NEW S, IsFiniteSet(S), NEW c, Takes(c, S), NEW G, {} \in G,
         \A s \in SUBSET S : s # {} /\ s \ {c[s]} \in G => s \in G
  PROVE  S \in G
<1>1. ASSUME NEW s \in SUBSET S, \A r \in SUBSET s : r # s => r \in G PROVE s \in G
  <2>1. CASE s = {}
    BY <2>1
  <2>2. CASE s # {}
    <3>1. c[s] \in s
      BY <2>2 DEF Takes
    <3>2. s \ {c[s]} \in G
      BY <1>1, <3>1
    <3> QED BY <2>2, <3>2
  <2> QED BY <2>1, <2>2
<1>2. \A s \in SUBSET S : s \in G
  BY <1>1, BySubset
<1> QED BY <1>2

\* What takes the last number.
LEMMA TakesLast ==
  ASSUME NEW n \in Nat
  PROVE  /\ IsFiniteSet(1..n)
         /\ \A s \in SUBSET (1..n) : s # {} => Max(s) \in s
         /\ \A k \in 1..n : Max(1..k) = k
<1>1. IsFiniteSet(1..n)
  BY FS_Interval
<1>2. ASSUME NEW s \in SUBSET (1..n), s # {} PROVE Max(s) \in s
  <2> DEFINE Good == {m \in Nat : \A r \in SUBSET (1..m) : r # {} => \E x \in r : \A y \in r : x >= y}
  <2>1. 0 \in Good
    <3>1. 1..0 = {}
      OBVIOUS
    <3> QED BY <3>1
  <2>2. ASSUME NEW m \in Nat, m \in Good PROVE m + 1 \in Good
    <3> SUFFICES ASSUME NEW r \in SUBSET (1..(m + 1)), r # {} PROVE \E x \in r : \A y \in r : x >= y
      OBVIOUS
    <3>1. CASE m + 1 \in r
      BY <3>1
    <3>2. CASE m + 1 \notin r
      <4>1. r \in SUBSET (1..m)
        <5>1. ASSUME NEW y \in r PROVE y \in 1..m
          <6>1. y \in 1..(m + 1) /\ y # m + 1
            BY <3>2
          <6> QED BY <6>1
        <5> QED BY <5>1
      <4> QED BY <2>2, <4>1
    <3> QED BY <3>1, <3>2
  <2>3. n \in Good
    <3> HIDE DEF Good
    <3> QED BY <2>1, <2>2, ByNumber
  <2>4. PICK x \in s : \A y \in s : x >= y
    BY <1>2, <2>3
  <2> QED BY <2>4 DEF Max
<1>3. ASSUME NEW k \in 1..n PROVE Max(1..k) = k
  <2>1. k \in 1..k /\ \A y \in 1..k : k >= y
    OBVIOUS
  <2>2. \A x \in 1..k : (\A y \in 1..k : x >= y) => x = k
    OBVIOUS
  <2> QED BY <2>1, <2>2 DEF Max
<1> QED BY <1>1, <1>2, <1>3

\* Taking the greatest takes from every subset one of its own.
LEMMA LastTakes ==
  ASSUME NEW n \in Nat
  PROVE  Takes([s \in SUBSET (1..n) |-> Max(s)], 1..n)
BY TakesLast DEF Takes

\* Folding from left to right is going through states, one for every prefix.
LEMMA FoldOverPrefixes ==
  ASSUME NEW n \in Nat, NEW g, NEW base, NEW step,
         \A s \in SUBSET (1..n) : g[s] = IF s = {} THEN base ELSE step[Max(s)][g[s \ {Max(s)}]]
  PROVE  /\ g[1..0] = base
         /\ \A k \in 1..n : g[1..k] = step[k][g[1..(k - 1)]]
<1>1. 1..0 = {} /\ 1..0 \in SUBSET (1..n)
  OBVIOUS
<1>2. ASSUME NEW k \in 1..n PROVE g[1..k] = step[k][g[1..(k - 1)]]
  <2>1. 1..k \in SUBSET (1..n) /\ k \in 1..k /\ (1..k) \ {k} = 1..(k - 1)
    OBVIOUS
  <2>2. Max(1..k) = k
    BY TakesLast
  <2> QED BY <2>1, <2>2
<1> QED BY <1>1, <1>2

-----------------------------------------------------------------------------
(* Sums *)

First(s) == CHOOSE x \in s : TRUE

\* The function behind a sum over a set: from every subset its sum.
SumsOver(f, S) ==
  CHOOSE g : g = [s \in SUBSET S |-> IF s = {} THEN 0 ELSE f[First(s)] + g[s \ {First(s)}]]

SumOf(f, S) == SumsOver(f, S)[S]

\* There is the function behind a sum.
LEMMA SumsExist ==
  ASSUME NEW S, IsFiniteSet(S), NEW f, \A x \in S : f[x] \in Int
  PROVE  /\ SumsOver(f, S) \in [SUBSET S -> Int]
         /\ \A s \in SUBSET S : SumsOver(f, S)[s] = IF s = {} THEN 0 ELSE f[First(s)] + SumsOver(f, S)[s \ {First(s)}]
<1> DEFINE c == [s \in SUBSET S |-> First(s)]
           step == [x \in S |-> [n \in Int |-> f[x] + n]]
           IsSums(g) == g = [s \in SUBSET S |-> IF s = {} THEN 0 ELSE f[First(s)] + g[s \ {First(s)}]]
<1>1. Takes(c, S)
  BY DEF Takes, First
<1>2. step \in [S -> [Int -> Int]]
  OBVIOUS
<1>3. PICK g \in [SUBSET S -> Int] : IsFold(g, S, c, 0, step)
  <2>1. 0 \in Int
    OBVIOUS
  <2> HIDE DEF c, step
  <2> QED BY <1>1, <1>2, <2>1, FoldExists
<1>4. ASSUME NEW s \in SUBSET S PROVE g[s] = IF s = {} THEN 0 ELSE f[First(s)] + g[s \ {First(s)}]
  <2>1. CASE s = {}
    BY <1>3, <2>1 DEF IsFold
  <2>2. CASE s # {}
    <3>1. First(s) \in S /\ s \ {First(s)} \in SUBSET S
      BY <2>2 DEF First
    <3>2. g[s] = step[First(s)][g[s \ {First(s)}]]
      <4>1. g[s] = step[c[s]][g[s \ {c[s]}]] /\ c[s] = First(s)
        BY <1>3, <2>2 DEF IsFold
      <4> HIDE DEF c, step
      <4> QED BY <4>1
    <3>3. g[s \ {First(s)}] \in Int
      BY <3>1
    <3> QED BY <2>2, <3>1, <3>2, <3>3
  <2> QED BY <2>1, <2>2
<1>5. \E h : IsSums(h)
  <2>1. IsSums(g)
    BY <1>4
  <2> QED BY <2>1
<1>6. IsSums(SumsOver(f, S))
  BY <1>5 DEF SumsOver
<1> DEFINE h == SumsOver(f, S)
<1>7. \A s \in SUBSET S : h[s] = IF s = {} THEN 0 ELSE f[First(s)] + h[s \ {First(s)}]
  BY <1>6
<1>8. DOMAIN h = SUBSET S /\ h = [s \in SUBSET S |-> h[s]]
  BY <1>6
<1> HIDE DEF h
<1>9. \A s \in SUBSET S : h[s] \in Int
  <2> DEFINE G == {s \in SUBSET S : h[s] \in Int}
  <2>1. ASSUME NEW s \in SUBSET S, \A r \in SUBSET s : r # s => r \in G PROVE s \in G
    <3>1. CASE s = {}
      <4>1. h[s] = 0
        BY <1>7, <3>1
      <4> QED BY <4>1
    <3>2. CASE s # {}
      <4>1. First(s) \in s
        BY <3>2 DEF First
      <4>2. s \ {First(s)} \in G /\ f[First(s)] \in Int
        BY <2>1, <4>1
      <4>3. h[s] = f[First(s)] + h[s \ {First(s)}]
        BY <1>7, <3>2
      <4>4. h[s \ {First(s)}] \in Int
        BY <4>2
      <4>5. h[s] \in Int
        BY <4>2, <4>3, <4>4
      <4> QED BY <4>5
    <3> QED BY <3>1, <3>2
  <2>2. \A s \in SUBSET S : s \in G
    <3> HIDE DEF G
    <3> QED BY <2>1, BySubset
  <2> QED BY <2>2
<1>10. h \in [SUBSET S -> Int]
  BY <1>8, <1>9
<1> QED BY <1>7, <1>10 DEF h

\* The sum of a part does not depend on the whole.
LEMMA SumOfPart ==
  ASSUME NEW S, IsFiniteSet(S), NEW R \in SUBSET S,
         NEW f, \A x \in S : f[x] \in Int, NEW e, \A x \in R : e[x] = f[x]
  PROVE  SumOf(e, R) = SumsOver(f, S)[R]
<1> DEFINE g == SumsOver(f, S)
           h == SumsOver(e, R)
           G == {s \in SUBSET R : h[s] = g[s]}
<1>1. \A s \in SUBSET S : g[s] = IF s = {} THEN 0 ELSE f[First(s)] + g[s \ {First(s)}]
  BY SumsExist
<1>2. \A s \in SUBSET R : h[s] = IF s = {} THEN 0 ELSE e[First(s)] + h[s \ {First(s)}]
  <2>1. IsFiniteSet(R) /\ \A x \in R : e[x] \in Int
    BY FS_Subset
  <2> QED BY <2>1, SumsExist
<1> HIDE DEF g, h
<1>3. ASSUME NEW s \in SUBSET R, \A r \in SUBSET s : r # s => r \in G PROVE s \in G
  <2>1. CASE s = {}
    BY <1>1, <1>2, <2>1
  <2>2. CASE s # {}
    <3>1. First(s) \in s
      BY <2>2 DEF First
    <3>2. s \ {First(s)} \in G
      BY <1>3, <3>1
    <3> QED BY <1>1, <1>2, <2>2, <3>1, <3>2
  <2> QED BY <2>1, <2>2
<1>4. \A s \in SUBSET R : s \in G
  <2>1. IsFiniteSet(R)
    BY FS_Subset
  <2> HIDE DEF G
  <2> QED BY <1>3, <2>1, BySubset
<1> QED BY <1>4 DEF SumOf, g, h

\* A sum may be taken apart at any element.
LEMMA SumsAt ==
  ASSUME NEW S, IsFiniteSet(S), NEW f, \A x \in S : f[x] \in Int, NEW x \in S
  PROVE  SumOf(f, S) = f[x] + SumOf(f, S \ {x})
<1> DEFINE g == SumsOver(f, S)
           G == {s \in SUBSET S : \A y \in s : g[s] = f[y] + g[s \ {y}]}
<1>1. \A s \in SUBSET S : g[s] \in Int /\ g[s] = IF s = {} THEN 0 ELSE f[First(s)] + g[s \ {First(s)}]
  BY SumsExist
<1> HIDE DEF g
<1>2. ASSUME NEW s \in SUBSET S, \A r \in SUBSET s : r # s => r \in G PROVE s \in G
  <2> SUFFICES ASSUME NEW y \in s PROVE g[s] = f[y] + g[s \ {y}]
    OBVIOUS
  <2> DEFINE z == First(s)
             r == s \ {z}
             q == s \ {y}
             p == s \ {y, z}
  <2>1. z \in s
    BY DEF First
  <2> HIDE DEF z
  <2>2. g[s] = f[z] + g[r]
    BY <1>1 DEF z
  <2>3. CASE y = z
    BY <2>2, <2>3
  <2>4. CASE y # z
    <3>1. r \in G /\ q \in G /\ y \in r /\ z \in q /\ r \ {y} = p /\ q \ {z} = p
      BY <1>2, <2>1, <2>4
    <3>2. g[r] = f[y] + g[p] /\ g[q] = f[z] + g[p]
      BY <3>1
    <3>3. f[y] \in Int /\ f[z] \in Int /\ g[p] \in Int
      BY <1>1, <2>1
    <3> HIDE DEF p, q, r
    <3>4. g[s] = f[y] + g[q]
      BY <2>2, <3>2, <3>3
    <3> QED BY <3>4 DEF q
  <2> QED BY <2>3, <2>4
<1>3. \A s \in SUBSET S : s \in G
  <2> HIDE DEF G
  <2> QED BY <1>2, BySubset
<1>4. g[S] = f[x] + g[S \ {x}]
  BY <1>3
<1>5. SumOf(f, S \ {x}) = g[S \ {x}]
  BY SumOfPart DEF g
<1> QED BY <1>4, <1>5 DEF SumOf, g

\* The laws of sums.
LEMMA SumLaws ==
  ASSUME NEW S, IsFiniteSet(S), NEW f, \A x \in S : f[x] \in Int
  PROVE  /\ SumOf(f, {}) = 0
         /\ SumOf(f, S) \in Int
         /\ \A x \in S : SumOf(f, S) = f[x] + SumOf(f, S \ {x})
         /\ (\A x \in S : f[x] >= 0) => SumOf(f, S) >= 0
         /\ \A e : (\A x \in S : e[x] = f[x]) => SumOf(e, S) = SumOf(f, S)
<1>1. SumOf(f, {}) = 0
  <2>1. IsFiniteSet({})
    BY FS_EmptySet
  <2> QED BY <2>1, SumsExist DEF SumOf
<1>2. SumOf(f, S) \in Int
  <2>1. SumsOver(f, S) \in [SUBSET S -> Int]
    BY SumsExist
  <2> QED BY <2>1 DEF SumOf
<1>3. \A x \in S : SumOf(f, S) = f[x] + SumOf(f, S \ {x})
  BY SumsAt
<1>4. ASSUME \A x \in S : f[x] >= 0 PROVE SumOf(f, S) >= 0
  <2> DEFINE g == SumsOver(f, S)
             G == {s \in SUBSET S : g[s] >= 0}
  <2>1. \A s \in SUBSET S : g[s] \in Int /\ g[s] = IF s = {} THEN 0 ELSE f[First(s)] + g[s \ {First(s)}]
    BY SumsExist
  <2> HIDE DEF g
  <2>2. ASSUME NEW s \in SUBSET S, \A r \in SUBSET s : r # s => r \in G PROVE s \in G
    <3>1. CASE s = {}
      <4>1. g[s] = 0
        BY <2>1, <3>1
      <4> QED BY <4>1
    <3>2. CASE s # {}
      <4>1. First(s) \in s /\ First(s) \in S
        BY <3>2 DEF First
      <4>2. s \ {First(s)} \in G
        BY <2>2, <4>1
      <4>3. g[s] = f[First(s)] + g[s \ {First(s)}]
        BY <2>1, <3>2
      <4>4. f[First(s)] >= 0 /\ f[First(s)] \in Int /\ g[s \ {First(s)}] \in Int /\ g[s \ {First(s)}] >= 0
        BY <1>4, <2>1, <4>1, <4>2
      <4>5. g[s] >= 0
        BY <4>3, <4>4
      <4> QED BY <4>5
    <3> QED BY <3>1, <3>2
  <2>3. \A s \in SUBSET S : s \in G
    <3> HIDE DEF G
    <3> QED BY <2>2, BySubset
  <2> QED BY <2>3 DEF SumOf, g
<1>5. ASSUME NEW e, \A x \in S : e[x] = f[x] PROVE SumOf(e, S) = SumOf(f, S)
  BY <1>5, SumOfPart DEF SumOf
<1> QED BY <1>1, <1>2, <1>3, <1>4, <1>5

\* Induction by taking any element away.
LEMMA ByElement ==
  ASSUME NEW S, IsFiniteSet(S), NEW G, {} \in G,
         \A s \in SUBSET S : \A x \in s : s \ {x} \in G => s \in G
  PROVE  S \in G
<1>1. ASSUME NEW s \in SUBSET S, \A r \in SUBSET s : r # s => r \in G PROVE s \in G
  <2>1. CASE s = {}
    BY <2>1
  <2>2. CASE s # {}
    <3>1. PICK x : x \in s
      BY <2>2
    <3>2. s \ {x} \in G
      BY <1>1, <3>1
    <3> QED BY <3>1, <3>2
  <2> QED BY <2>1, <2>2
<1>2. \A s \in SUBSET S : s \in G
  BY <1>1, BySubset
<1> QED BY <1>2

\* The sums of the parts of a set.
LEMMA SumSteps ==
  ASSUME NEW S, IsFiniteSet(S), NEW f, \A x \in S : f[x] \in Int
  PROVE  /\ SumOf(f, {}) = 0
         /\ \A s \in SUBSET S : /\ IsFiniteSet(s) /\ SumOf(f, s) \in Int
                                /\ \A x \in s : SumOf(f, s) = f[x] + SumOf(f, s \ {x})
<1>1. ASSUME NEW s \in SUBSET S
      PROVE  /\ IsFiniteSet(s) /\ SumOf(f, s) \in Int
             /\ \A x \in s : SumOf(f, s) = f[x] + SumOf(f, s \ {x})
  <2>1. IsFiniteSet(s) /\ \A x \in s : f[x] \in Int
    BY FS_Subset
  <2> QED BY <2>1, SumLaws
<1> QED BY <1>1, SumLaws

HasSums(f, S) ==
  \A s \in SUBSET S : SumOf(f, s) \in Int /\ \A x \in s : SumOf(f, s) = f[x] + SumOf(f, s \ {x})

\* Every function into the integers has such.
LEMMA SumParts ==
  ASSUME NEW S, IsFiniteSet(S), NEW f, \A x \in S : f[x] \in Int
  PROVE  HasSums(f, S)
BY SumSteps DEF HasSums

\* A sum of multiples.
Combines(e, S, a, f, b, g) ==
  a \in Int /\ b \in Int /\ \A x \in S : f[x] \in Int /\ g[x] \in Int /\ e[x] = a * f[x] + b * g[x]

\* It is as many times the sums.
LEMMA Combined ==
  ASSUME NEW S, IsFiniteSet(S), NEW e, NEW a, NEW f, NEW b, NEW g, Combines(e, S, a, f, b, g)
  PROVE  SumOf(e, S) = a * SumOf(f, S) + b * SumOf(g, S)
<1> USE DEF Combines
<1> DEFINE G == {s \in SUBSET S : SumOf(e, s) = a * SumOf(f, s) + b * SumOf(g, s)}
<1>0. \A x \in S : e[x] \in Int
  OBVIOUS
<1>1. {} \in G
  <2>1. SumOf(e, {}) = 0 /\ SumOf(f, {}) = 0 /\ SumOf(g, {}) = 0
    BY <1>0, SumSteps
  <2> QED BY <2>1
<1>2. ASSUME NEW s \in SUBSET S, NEW x \in s, s \ {x} \in G PROVE s \in G
  <2> DEFINE r == s \ {x}
  <2>1. SumOf(e, s) = e[x] + SumOf(e, r)
    BY <1>0, SumSteps
  <2>2. SumOf(f, s) = f[x] + SumOf(f, r) /\ SumOf(f, r) \in Int
    BY SumSteps
  <2>3. SumOf(g, s) = g[x] + SumOf(g, r) /\ SumOf(g, r) \in Int
    <3>1. \A u \in SUBSET S : SumOf(g, u) \in Int /\ \A y \in u : SumOf(g, u) = g[y] + SumOf(g, u \ {y})
      BY SumSteps
    <3> QED BY <3>1
  <2>4. SumOf(e, r) = a * SumOf(f, r) + b * SumOf(g, r)
    BY <1>2
  <2>5. f[x] \in Int /\ g[x] \in Int /\ e[x] = a * f[x] + b * g[x]
    OBVIOUS
  <2> HIDE DEF r
  <2>6. a * (f[x] + SumOf(f, r)) = a * f[x] + a * SumOf(f, r)
    BY <2>2, <2>5
  <2>7. b * (g[x] + SumOf(g, r)) = b * g[x] + b * SumOf(g, r)
    BY <2>3, <2>5
  <2>8. SumOf(e, s) = a * SumOf(f, s) + b * SumOf(g, s)
    <3>1. a * f[x] \in Int /\ a * SumOf(f, r) \in Int /\ b * g[x] \in Int /\ b * SumOf(g, r) \in Int
      BY <2>2, <2>3, <2>5
    <3> QED BY <2>1, <2>2, <2>3, <2>4, <2>5, <2>6, <2>7, <3>1
  <2> QED BY <2>8
<1>3. S \in G
  <2> HIDE DEF G
  <2> QED BY <1>1, <1>2, ByElement
<1> QED BY <1>3

\* The same of functions given one by one.
LEMMA SumLinear ==
  ASSUME NEW S, IsFiniteSet(S), NEW f, NEW g, \A x \in S : f[x] \in Int /\ g[x] \in Int,
         NEW a \in Int, NEW b \in Int, NEW e, \A x \in S : e[x] = a * f[x] + b * g[x]
  PROVE  SumOf(e, S) = a * SumOf(f, S) + b * SumOf(g, S)
<1>1. Combines(e, S, a, f, b, g)
  BY DEF Combines
<1> QED BY <1>1, Combined

\* What is nowhere less has no less a sum.
LEMMA SumMono ==
  ASSUME NEW S, IsFiniteSet(S), NEW f, NEW g, \A x \in S : f[x] \in Int /\ g[x] \in Int /\ f[x] <= g[x]
  PROVE  SumOf(f, S) <= SumOf(g, S)
<1> DEFINE G == {s \in SUBSET S : SumOf(f, s) <= SumOf(g, s)}
<1>1. {} \in G
  <2>1. SumOf(f, {}) = 0 /\ SumOf(g, {}) = 0
    BY SumSteps
  <2> QED BY <2>1
<1>2. ASSUME NEW s \in SUBSET S, NEW x \in s, s \ {x} \in G PROVE s \in G
  <2>2. SumOf(f, s) = f[x] + SumOf(f, s \ {x}) /\ SumOf(f, s \ {x}) \in Int
    BY SumSteps
  <2>3. SumOf(g, s) = g[x] + SumOf(g, s \ {x}) /\ SumOf(g, s \ {x}) \in Int
    BY SumSteps
  <2>4. SumOf(f, s) <= SumOf(g, s)
    BY <1>2, <2>2, <2>3
  <2> QED BY <2>4
<1>3. S \in G
  <2> HIDE DEF G
  <2> QED BY <1>1, <1>2, ByElement
<1> QED BY <1>3

\* What comes to something comes to it somewhere.
LEMMA SumPositive ==
  ASSUME NEW S, IsFiniteSet(S), NEW f, \A x \in S : f[x] \in Nat
  PROVE  SumOf(f, S) \in Nat /\ (SumOf(f, S) > 0 <=> \E x \in S : f[x] > 0)
<1> DEFINE G == {s \in SUBSET S : SumOf(f, s) \in Nat /\ (SumOf(f, s) > 0 <=> \E x \in s : f[x] > 0)}
<1>0. \A x \in S : f[x] \in Int
  OBVIOUS
<1>1. {} \in G
  <2>1. SumOf(f, {}) = 0
    BY <1>0, SumSteps
  <2> QED BY <2>1
<1>2. ASSUME NEW s \in SUBSET S, NEW x \in s, s \ {x} \in G PROVE s \in G
  <2>1. SumOf(f, s) = f[x] + SumOf(f, s \ {x})
    BY <1>0, SumSteps
  <2>2. SumOf(f, s \ {x}) \in Nat /\ (SumOf(f, s \ {x}) > 0 <=> \E y \in s \ {x} : f[y] > 0)
    BY <1>2
  <2>3. f[x] \in Nat
    OBVIOUS
  <2>4. (\E y \in s : f[y] > 0) <=> f[x] > 0 \/ \E y \in s \ {x} : f[y] > 0
    OBVIOUS
  <2>5. SumOf(f, s) \in Nat /\ (SumOf(f, s) > 0 <=> \E y \in s : f[y] > 0)
    BY <2>1, <2>2, <2>3, <2>4
  <2> QED BY <2>5
<1>3. S \in G
  <2> HIDE DEF G
  <2> QED BY <1>1, <1>2, ByElement
<1> QED BY <1>3

\* A sum of multiples of a number is one.
LEMMA SumMultiple ==
  ASSUME NEW S, IsFiniteSet(S), NEW f, NEW q \in Nat, \A x \in S : \E k \in Nat : f[x] = k * q
  PROVE  \E k \in Nat : SumOf(f, S) = k * q
<1> DEFINE G == {s \in SUBSET S : \E k \in Nat : SumOf(f, s) = k * q}
<1>0. \A x \in S : f[x] \in Int
  OBVIOUS
<1>1. {} \in G
  <2>1. SumOf(f, {}) = 0 * q
    BY <1>0, SumSteps
  <2> QED BY <2>1
<1>2. ASSUME NEW s \in SUBSET S, NEW x \in s, s \ {x} \in G PROVE s \in G
  <2>1. SumOf(f, s) = f[x] + SumOf(f, s \ {x})
    BY <1>0, SumSteps
  <2>2. PICK k \in Nat : SumOf(f, s \ {x}) = k * q
    BY <1>2
  <2>3. PICK m \in Nat : f[x] = m * q
    OBVIOUS
  <2>4. m * q + k * q = (m + k) * q /\ m + k \in Nat
    OBVIOUS
  <2>5. SumOf(f, s) = (m + k) * q
    BY <2>1, <2>2, <2>3, <2>4
  <2> QED BY <2>4, <2>5
<1>3. S \in G
  <2> HIDE DEF G
  <2> QED BY <1>1, <1>2, ByElement
<1> QED BY <1>3

\* The sum of what is the same everywhere.
LEMMA SumConst ==
  ASSUME NEW S, IsFiniteSet(S), NEW c \in Int, NEW f, \A x \in S : f[x] = c
  PROVE  SumOf(f, S) = Cardinality(S) * c
<1> DEFINE G == {s \in SUBSET S : SumOf(f, s) = Cardinality(s) * c}
<1>0. \A x \in S : f[x] \in Int
  OBVIOUS
<1>1. {} \in G
  <2>1. SumOf(f, {}) = 0 /\ Cardinality({}) = 0
    BY <1>0, SumSteps, FS_EmptySet
  <2> QED BY <2>1
<1>2. ASSUME NEW s \in SUBSET S, NEW x \in s, s \ {x} \in G PROVE s \in G
  <2> DEFINE n == Cardinality(s \ {x})
  <2>1. SumOf(f, s) = f[x] + SumOf(f, s \ {x}) /\ IsFiniteSet(s)
    BY <1>0, SumSteps
  <2>2. n = Cardinality(s) - 1 /\ Cardinality(s) \in Nat
    BY <2>1, FS_RemoveElement, FS_CardinalityType
  <2>3. SumOf(f, s \ {x}) = n * c /\ f[x] = c
    BY <1>2
  <2> HIDE DEF n
  <2>4. Cardinality(s) = n + 1 /\ n \in Int
    BY <2>2
  <2>5. (n + 1) * c = c + n * c
    BY <2>4
  <2>6. SumOf(f, s) = Cardinality(s) * c
    BY <2>1, <2>3, <2>4, <2>5
  <2> QED BY <2>6
<1>3. S \in G
  <2> HIDE DEF G
  <2> QED BY <1>1, <1>2, ByElement
<1> QED BY <1>3

\* The sum over a part.
Restricts(e, S, f, R) == (\A x \in R : f[x] \in Int) /\ \A x \in S : e[x] = IF x \in R THEN f[x] ELSE 0

\* What is left out adds nothing.
LEMMA Restricted ==
  ASSUME NEW S, IsFiniteSet(S), NEW R \in SUBSET S, NEW e, NEW f, Restricts(e, S, f, R)
  PROVE  SumOf(e, S) = SumOf(f, R)
<1> USE DEF Restricts
<1> DEFINE G == {s \in SUBSET S : SumOf(e, s) = SumOf(f, R \cap s)}
<1>0. (\A x \in S : e[x] \in Int) /\ IsFiniteSet(R)
  BY FS_Subset
<1>1. {} \in G
  <2>1. SumOf(e, {}) = 0 /\ SumOf(f, {}) = 0 /\ R \cap {} = {}
    BY <1>0, SumSteps
  <2> QED BY <2>1
<1>2. ASSUME NEW s \in SUBSET S, NEW x \in s, s \ {x} \in G PROVE s \in G
  <2> DEFINE t == R \cap s
             r == R \cap (s \ {x})
  <2>1. SumOf(e, s) = e[x] + SumOf(e, s \ {x}) /\ x \in S
    BY <1>0, SumSteps
  <2>2. SumOf(e, s \ {x}) = SumOf(f, r)
    BY <1>2
  <2>3. SumOf(e, s) = SumOf(f, t)
    <3>0. t \in SUBSET R /\ r \in SUBSET R
      OBVIOUS
    <3>1. CASE x \in R
      <4>1. t \ {x} = r /\ x \in t /\ e[x] = f[x]
        BY <2>1, <3>1
      <4> HIDE DEF t, r
      <4>2. SumOf(f, t) = f[x] + SumOf(f, t \ {x})
        BY <1>0, <3>0, <4>1, SumSteps
      <4> QED BY <2>1, <2>2, <4>1, <4>2
    <3>2. CASE x \notin R
      <4>1. t = r /\ e[x] = 0
        BY <2>1, <3>2
      <4> HIDE DEF t, r
      <4>2. SumOf(f, r) \in Int
        BY <1>0, <3>0, SumSteps
      <4> QED BY <2>1, <2>2, <4>1, <4>2
    <3> QED BY <3>1, <3>2
  <2> QED BY <2>3
<1>3. S \in G
  <2> HIDE DEF G
  <2> QED BY <1>1, <1>2, ByElement
<1>4. R \cap S = R
  OBVIOUS
<1> QED BY <1>3, <1>4

\* The same of functions given one by one.
LEMMA SumOverPart ==
  ASSUME NEW S, IsFiniteSet(S), NEW R \in SUBSET S, NEW f, \A x \in R : f[x] \in Int,
         NEW e, \A x \in S : e[x] = IF x \in R THEN f[x] ELSE 0
  PROVE  SumOf(e, S) = SumOf(f, R)
<1>1. Restricts(e, S, f, R)
  BY DEF Restricts
<1> QED BY <1>1, Restricted

\* A sum is at most the sum of how far from nothing its parts are.
LEMMA SumAbs ==
  ASSUME NEW S, IsFiniteSet(S), NEW f, \A x \in S : f[x] \in Int,
         NEW e, \A x \in S : e[x] = IF f[x] > 0 THEN f[x] ELSE -f[x]
  PROVE  SumOf(f, S) <= SumOf(e, S) /\ -SumOf(f, S) <= SumOf(e, S) /\ SumOf(f, S) \in Int /\ SumOf(e, S) \in Int
<1> DEFINE G == {s \in SUBSET S : SumOf(f, s) <= SumOf(e, s) /\ -SumOf(f, s) <= SumOf(e, s)}
<1>0. \A x \in S : e[x] \in Int
  OBVIOUS
<1>1. {} \in G
  <2>1. SumOf(f, {}) = 0 /\ SumOf(e, {}) = 0
    BY <1>0, SumSteps
  <2> QED BY <2>1
<1>2. ASSUME NEW s \in SUBSET S, NEW x \in s, s \ {x} \in G PROVE s \in G
  <2>1. SumOf(e, s) = e[x] + SumOf(e, s \ {x}) /\ SumOf(e, s \ {x}) \in Int
    BY <1>0, SumSteps
  <2>2. SumOf(f, s) = f[x] + SumOf(f, s \ {x}) /\ SumOf(f, s \ {x}) \in Int
    BY SumSteps
  <2>3. f[x] \in Int /\ e[x] \in Int /\ f[x] <= e[x] /\ -f[x] <= e[x]
    OBVIOUS
  <2>4. SumOf(f, s) <= SumOf(e, s) /\ -SumOf(f, s) <= SumOf(e, s)
    BY <1>2, <2>1, <2>2, <2>3
  <2> QED BY <2>4
<1>3. S \in G
  <2> HIDE DEF G
  <2> QED BY <1>1, <1>2, ByElement
<1>4. SumOf(f, S) \in Int /\ SumOf(e, S) \in Int
  BY <1>0, SumSteps
<1> QED BY <1>3, <1>4

\* What goes along the arrows of a graph may be added up at their ends or at
\* their starts.
LEMMA CountBothWays ==
  ASSUME NEW H, IsFiniteSet(H), NEW in, NEW out,
         \A h \in H : in[h] \in SUBSET H /\ out[h] \in SUBSET H,
         \A a, b \in H : a \in in[b] <=> b \in out[a],
         NEW f, \A h \in H : f[h] \in Int,
         NEW gets, \A h \in H : gets[h] = SumOf(f, in[h]),
         NEW gives, \A h \in H : gives[h] = Cardinality(out[h]) * f[h]
  PROVE  SumOf(gets, H) = SumOf(gives, H)
<1> DEFINE part(s) == [h \in H |-> SumOf(f, in[h] \cap s)]
           G == {s \in SUBSET H : SumOf(part(s), H) = SumOf(gives, s)}
<1>0. \A h \in H : /\ IsFiniteSet(in[h]) /\ IsFiniteSet(out[h]) /\ Cardinality(out[h]) \in Nat
                   /\ gives[h] \in Int
  BY FS_Subset, FS_CardinalityType
<1>f. \A u \in SUBSET H : SumOf(f, u) \in Int /\ \A y \in u : SumOf(f, u) = f[y] + SumOf(f, u \ {y})
  BY SumSteps
<1>g. \A u \in SUBSET H : SumOf(gives, u) \in Int /\ \A y \in u : SumOf(gives, u) = gives[y] + SumOf(gives, u \ {y})
  <2>1. \A h \in H : gives[h] \in Int
    BY <1>0
  <2>2. HasSums(gives, H)
    BY <2>1, SumParts, Zenon
  <2> QED BY <2>2 DEF HasSums
<1>p. ASSUME NEW s \in SUBSET H PROVE \A h \in H : part(s)[h] \in Int
  <2> SUFFICES ASSUME NEW h \in H PROVE part(s)[h] \in Int
    OBVIOUS
  <2> DEFINE t == in[h] \cap s
  <2>1. t \in SUBSET H
    OBVIOUS
  <2> HIDE DEF t
  <2>2. SumOf(f, t) \in Int
    BY <2>1, SumSteps
  <2> QED BY <2>2 DEF t
<1>1. {} \in G
  <2>1. SumOf(gives, {}) = 0 /\ SumOf(f, {}) = 0
    BY <1>0, SumSteps
  <2>2. \A h \in H : part({})[h] = 0
    <3>1. \A h \in H : in[h] \cap {} = {}
      OBVIOUS
    <3> QED BY <2>1, <3>1
  <2> DEFINE p == part({})
  <2> HIDE DEF p
  <2>3. SumOf(p, H) = Cardinality(H) * 0
    <3>1. 0 \in Int /\ \A h \in H : p[h] = 0
      BY <2>2 DEF p
    <3> QED BY <3>1, SumConst
  <2>4. Cardinality(H) * 0 = 0
    BY FS_CardinalityType
  <2> QED BY <2>1, <2>3, <2>4 DEF p
<1>2. ASSUME NEW s \in SUBSET H, NEW x \in s, s \ {x} \in G PROVE s \in G
  <2> DEFINE r == s \ {x}
             p == part(s)
             q == part(r)
             one == [h \in H |-> IF h \in out[x] THEN f[x] ELSE 0]
             c == [h \in H |-> f[x]]
  <2>0. x \in H /\ r \in SUBSET H /\ f[x] \in Int
    OBVIOUS
  <2>1. ASSUME NEW h \in H PROVE p[h] = 1 * q[h] + 1 * one[h] /\ q[h] \in Int /\ one[h] \in Int
    <3> DEFINE t == in[h] \cap s
               u == in[h] \cap r
    <3>0. t \in SUBSET H /\ u \in SUBSET H /\ q[h] = SumOf(f, u) /\ p[h] = SumOf(f, t) /\ one[h] = IF h \in out[x] THEN f[x] ELSE 0
      OBVIOUS
    <3>1. q[h] \in Int
      <4> HIDE DEF u, q
      <4> QED BY <3>0, SumSteps
    <3>2. CASE h \in out[x]
      <4>1. x \in in[h]
        BY <2>0, <3>2
      <4>2. x \in t /\ t \ {x} = u
        BY <4>1
      <4> HIDE DEF t, u, p, q, one
      <4>3. SumOf(f, t) = f[x] + SumOf(f, t \ {x})
        BY <1>f, <3>0, <4>2
      <4>4. p[h] = f[x] + q[h] /\ one[h] = f[x]
        BY <3>0, <3>2, <4>2, <4>3
      <4> QED BY <2>0, <3>1, <4>4
    <3>3. CASE h \notin out[x]
      <4>1. x \notin in[h]
        BY <2>0, <3>3
      <4>2. t = u
        BY <4>1
      <4> HIDE DEF t, u, p, q, one
      <4> QED BY <2>0, <3>0, <3>1, <3>3, <4>2
    <3> QED BY <3>2, <3>3
  <2>2. SumOf(q, H) = SumOf(gives, r)
    BY <1>2
  <2>3. SumOf(gives, s) = gives[x] + SumOf(gives, r) /\ SumOf(gives, r) \in Int
    BY <1>g
  <2>4. SumOf(one, H) = Cardinality(out[x]) * f[x]
    <3>1. out[x] \in SUBSET H /\ IsFiniteSet(out[x]) /\ \A h \in out[x] : c[h] = f[x]
      BY <1>0, <2>0
    <3>2. \A h \in H : one[h] = IF h \in out[x] THEN c[h] ELSE 0
      OBVIOUS
    <3> HIDE DEF one, c
    <3>3. SumOf(one, H) = SumOf(c, out[x])
      <4> DEFINE o == out[x]
      <4>1. o \in SUBSET H /\ (\A h \in o : c[h] \in Int) /\ \A h \in H : one[h] = IF h \in o THEN c[h] ELSE 0
        BY <2>0, <3>1, <3>2
      <4> HIDE DEF o
      <4>2. SumOf(one, H) = SumOf(c, o)
        BY <4>1, SumOverPart
      <4> QED BY <4>2 DEF o
    <3>4. SumOf(c, out[x]) = Cardinality(out[x]) * f[x]
      <4> DEFINE o == out[x]
                 v == f[x]
      <4>1. IsFiniteSet(o) /\ v \in Int /\ \A h \in o : c[h] = v
        BY <2>0, <3>1
      <4> HIDE DEF o, v
      <4>2. SumOf(c, o) = Cardinality(o) * v
        BY <4>1, SumConst
      <4> QED BY <4>2 DEF o, v
    <3> QED BY <3>3, <3>4
  <2>5. SumOf(p, H) = 1 * SumOf(q, H) + 1 * SumOf(one, H)
    <3>1. \A h \in H : p[h] = 1 * q[h] + 1 * one[h] /\ q[h] \in Int /\ one[h] \in Int
      BY <2>1
    <3> HIDE DEF p, q, one
    <3> QED BY <3>1, SumLinear
  <2>6. gives[x] = Cardinality(out[x]) * f[x] /\ gives[x] \in Int
    BY <1>0, <2>0
  <2>7. SumOf(p, H) = SumOf(gives, s)
    <3> HIDE DEF p, q, one, r
    <3> QED BY <2>2, <2>3, <2>4, <2>5, <2>6
  <2> QED BY <2>7
<1>3. H \in G
  <2> HIDE DEF G
  <2> QED BY <1>1, <1>2, ByElement
<1>4. SumOf(part(H), H) = SumOf(gets, H)
  <2>1. \A h \in H : in[h] \cap H = in[h]
    OBVIOUS
  <2> DEFINE p == part(H)
  <2>2. \A h \in H : gets[h] = p[h] /\ p[h] \in Int
    BY <1>p, <2>1
  <2> HIDE DEF p
  <2>3. SumOf(gets, H) = SumOf(p, H)
    BY <2>2, SumLaws
  <2> QED BY <2>3 DEF p
<1> QED BY <1>3, <1>4

-----------------------------------------------------------------------------
(* Finite sets of numbers *)

\* What comes of a finite set is finite.
LEMMA ImageIsFinite ==
  ASSUME NEW S, IsFiniteSet(S), NEW f
  PROVE  IsFiniteSet({f[x] : x \in S})
<1> DEFINE T == {f[x] : x \in S}
           g == [x \in S |-> f[x]]
<1>1. g \in Surjection(S, T)
  BY DEF Surjection
<1> HIDE DEF g, T
<1>2. IsFiniteSet(T)
  BY <1>1, FS_Surjection
<1> QED BY <1>2 DEF T

\* The lesser of two numbers.
LEMMA LeastOfTwo == ASSUME NEW a \in Nat, NEW b \in Nat PROVE Min({a, b}) = IF a <= b THEN a ELSE b
<1> DEFINE S == {a, b}
<1>1. S \in SUBSET Nat /\ S # {}
  OBVIOUS
<1>2. Min(S) \in S /\ \A x \in S : Min(S) <= x
  <2> HIDE DEF S
  <2> QED BY <1>1, LeastNat
<1> QED BY <1>2

\* A finite set of numbers that is not empty has a greatest.
LEMMA GreatestNat ==
  ASSUME NEW S \in SUBSET Nat, IsFiniteSet(S), S # {}
  PROVE  \E m \in S : \A x \in S : x <= m
<1> DEFINE G == {s \in SUBSET S : s # {} => \E m \in s : \A x \in s : x <= m}
<1>1. ASSUME NEW s \in SUBSET S, \A r \in SUBSET s : r # s => r \in G PROVE s \in G
  <2> SUFFICES ASSUME s # {} PROVE \E m \in s : \A x \in s : x <= m
    OBVIOUS
  <2>1. PICK y \in s : TRUE
    OBVIOUS
  <2>2. s \ {y} \in G
    BY <1>1, <2>1
  <2>3. CASE s \ {y} = {}
    <3>1. \A x \in s : x = y
      BY <2>3
    <3> QED BY <2>1, <3>1
  <2>4. CASE s \ {y} # {}
    <3>1. PICK m \in s \ {y} : \A x \in s \ {y} : x <= m
      BY <2>2, <2>4
    <3>2. CASE y <= m
      BY <3>1, <3>2
    <3>3. CASE ~(y <= m)
      <4>1. y \in Nat /\ m \in Nat /\ \A x \in s : x \in Nat
        OBVIOUS
      <4>2. \A x \in s : x <= y
        BY <2>1, <3>1, <3>3, <4>1
      <4> QED BY <2>1, <4>2
    <3> QED BY <3>2, <3>3
  <2> QED BY <2>3, <2>4
<1>2. \A s \in SUBSET S : s \in G
  <2> HIDE DEF G
  <2> QED BY <1>1, BySubset
<1> QED BY <1>2

\* The elements of a finite set of numbers are numbered by how many are less.
LEMMA RanksExist ==
  ASSUME NEW S \in SUBSET Nat, IsFiniteSet(S)
  PROVE  \A i \in 1..Cardinality(S) : \E p \in S : Cardinality({q \in S : q < p}) = i - 1
<1> DEFINE Before(s, p) == {q \in s : q < p}
           G == {s \in SUBSET S : \A i \in 1..Cardinality(s) : \E p \in s : Cardinality(Before(s, p)) = i - 1}
<1>1. ASSUME NEW s \in SUBSET S, \A r \in SUBSET s : r # s => r \in G PROVE s \in G
  <2>1. IsFiniteSet(s) /\ Cardinality(s) \in Nat
    BY FS_Subset, FS_CardinalityType
  <2>2. CASE s = {}
    BY <2>2, FS_EmptySet
  <2>3. CASE s # {}
    <3>1. PICK m \in s : \A x \in s : x <= m
      BY <2>1, <2>3, GreatestNat
    <3> DEFINE r == s \ {m}
    <3>2. r \in G
      BY <1>1, <3>1
    <3>3. Cardinality(r) = Cardinality(s) - 1 /\ IsFiniteSet(r) /\ Cardinality(r) \in Nat
      BY <2>1, <3>1, FS_RemoveElement, FS_CardinalityType
    <3>4. Before(s, m) = r
      <4>1. \A q \in s : q < m <=> q # m
        <5> SUFFICES ASSUME NEW q \in s PROVE q < m <=> q # m
          OBVIOUS
        <5>1. q \in Nat /\ m \in Nat /\ q <= m
          BY <3>1
        <5> QED BY <5>1
      <4> QED BY <4>1
    <3>5. \A p \in r : Before(s, p) = Before(r, p)
      <4>1. \A p \in r : ~(m < p)
        <5> SUFFICES ASSUME NEW p \in r PROVE ~(m < p)
          OBVIOUS
        <5>1. p \in Nat /\ m \in Nat /\ p <= m
          BY <3>1
        <5> QED BY <5>1
      <4> QED BY <4>1
    <3>6. ASSUME NEW i \in 1..Cardinality(s) PROVE \E p \in s : Cardinality(Before(s, p)) = i - 1
      <4>1. CASE i = Cardinality(s)
        <5>1. Cardinality(Before(s, m)) = i - 1
          BY <3>3, <3>4, <4>1
        <5> QED BY <5>1
      <4>2. CASE i # Cardinality(s)
        <5>1. i \in 1..Cardinality(r)
          BY <2>1, <3>3, <4>2
        <5>2. PICK p \in r : Cardinality(Before(r, p)) = i - 1
          BY <3>2, <5>1
        <5>3. Cardinality(Before(s, p)) = i - 1
          BY <3>5, <5>2
        <5> QED BY <5>3
      <4> QED BY <4>1, <4>2
    <3> HIDE DEF Before
    <3> QED BY <3>6
  <2> QED BY <2>2, <2>3
<1>2. \A s \in SUBSET S : s \in G
  <2> HIDE DEF G
  <2> QED BY <1>1, BySubset
<1>3. S \in G
  <2> HIDE DEF G
  <2> QED BY <1>2
<1> QED BY <1>3

-----------------------------------------------------------------------------
(* Iteration *)

\* Going through the same step again and again.
IsIterating(v, n, base, step) ==
  v = [s \in SUBSET (1..n) |-> IF s = {} THEN base ELSE step[v[s \ {Max(s)}]]]

\* There are such states.
LEMMA IteratingExists ==
  ASSUME NEW n \in Nat, NEW States, NEW base \in States, NEW step \in [States -> States]
  PROVE  \E v \in [SUBSET (1..n) -> States] : IsIterating(v, n, base, step)
<1> DEFINE c == [s \in SUBSET (1..n) |-> Max(s)]
           steps == [i \in 1..n |-> step]
<1>1. PICK g \in [SUBSET (1..n) -> States] : IsFold(g, 1..n, c, base, steps)
  <2>1. Takes(c, 1..n) /\ IsFiniteSet(1..n) /\ steps \in [1..n -> [States -> States]]
    BY LastTakes, TakesLast
  <2> HIDE DEF c, steps
  <2> QED BY <2>1, FoldExists
<1>2. ASSUME NEW s \in SUBSET (1..n) PROVE g[s] = IF s = {} THEN base ELSE step[g[s \ {Max(s)}]]
  <2>1. g[s] = IF s = {} THEN base ELSE steps[c[s]][g[s \ {c[s]}]]
    BY <1>1 DEF IsFold
  <2>2. CASE s # {}
    <3>1. Max(s) \in 1..n /\ c[s] = Max(s)
      BY <2>2, TakesLast
    <3>2. steps[Max(s)] = step
      BY <3>1
    <3> HIDE DEF c, steps
    <3> QED BY <2>1, <2>2, <3>1, <3>2
  <2> QED BY <2>1, <2>2
<1>3. IsIterating(g, n, base, step)
  BY <1>2 DEF IsIterating
<1> QED BY <1>3

\* What they are after each of the steps.
LEMMA IteratingSteps ==
  ASSUME NEW n \in Nat, NEW base, NEW step, NEW v, IsIterating(v, n, base, step)
  PROVE  v[1..0] = base /\ \A k \in 1..n : v[1..k] = step[v[1..(k - 1)]]
<1>0. \A s \in SUBSET (1..n) : v[s] = IF s = {} THEN base ELSE step[v[s \ {Max(s)}]]
  BY DEF IsIterating
<1>1. 1..0 = {} /\ 1..0 \in SUBSET (1..n)
  OBVIOUS
<1>2. ASSUME NEW k \in 1..n PROVE v[1..k] = step[v[1..(k - 1)]]
  <2>1. 1..k \in SUBSET (1..n) /\ k \in 1..k /\ (1..k) \ {k} = 1..(k - 1)
    OBVIOUS
  <2>2. Max(1..k) = k
    BY TakesLast
  <2> QED BY <1>0, <2>1, <2>2
<1> QED BY <1>0, <1>1, <1>2

\* States that are base at first and afterwards what f gives.
ComesTo(u, f, n, base) == u = [s \in SUBSET (1..n) |-> IF s = {} THEN base ELSE f[s]]

\* What f gives is a step on from the states before.
StepsTo(u, f, n, States, step) ==
  \A s \in SUBSET (1..n) : s # {} /\ u[s \ {Max(s)}] \in States => f[s] = step[u[s \ {Max(s)}]]

\* Steps through states, given by what they come to.
LEMMA IteratingIs ==
  ASSUME NEW n \in Nat, NEW States, NEW base \in States, NEW step \in [States -> States],
         NEW u, NEW f, ComesTo(u, f, n, base), StepsTo(u, f, n, States, step)
  PROVE  IsIterating(u, n, base, step)
<1>0. /\ u = [s \in SUBSET (1..n) |-> IF s = {} THEN base ELSE f[s]]
      /\ \A s \in SUBSET (1..n) : s # {} /\ u[s \ {Max(s)}] \in States => f[s] = step[u[s \ {Max(s)}]]
  BY DEF ComesTo, StepsTo
<1> DEFINE G == {s \in SUBSET (1..n) : u[s] \in States}
<1>1. ASSUME NEW s \in SUBSET (1..n), \A r \in SUBSET s : r # s => r \in G PROVE s \in G
  <2>1. CASE s = {}
    BY <1>0, <2>1
  <2>2. CASE s # {}
    <3>1. Max(s) \in s
      BY <2>2, TakesLast
    <3>2. u[s \ {Max(s)}] \in States
      BY <1>1, <3>1
    <3>3. u[s] = step[u[s \ {Max(s)}]]
      BY <1>0, <2>2, <3>2
    <3>4. u[s] \in States
      BY <3>2, <3>3
    <3> QED BY <3>4
  <2> QED BY <2>1, <2>2
<1>2. \A s \in SUBSET (1..n) : s \in G
  <2>1. IsFiniteSet(1..n)
    BY TakesLast
  <2> HIDE DEF G
  <2> QED BY <1>1, <2>1, BySubset
<1>3. \A s \in SUBSET (1..n) : s # {} => f[s] = step[u[s \ {Max(s)}]]
  <2> SUFFICES ASSUME NEW s \in SUBSET (1..n), s # {} PROVE f[s] = step[u[s \ {Max(s)}]]
    OBVIOUS
  <2>1. s \ {Max(s)} \in SUBSET (1..n)
    OBVIOUS
  <2>2. u[s \ {Max(s)}] \in States
    BY <1>2, <2>1
  <2> QED BY <1>0, <2>2
<1> QED BY <1>0, <1>3 DEF IsIterating

\* Iterations of every length, each a step on from the one before.
Iterates(w, States, base, step) ==
  /\ w[0][1..0] = base
  /\ \A n \in Nat : w[n][1..n] \in States /\ w[n + 1][1..(n + 1)] = step[w[n][1..n]]

\* What they come to does not depend on how many more steps follow.
LEMMA IterationSteps ==
  ASSUME NEW States, NEW base \in States, NEW step \in [States -> States],
         NEW w, \A n \in Nat : IsIterating(w[n], n, base, step)
  PROVE  Iterates(w, States, base, step)
<1>1. \A n \in Nat : w[n][1..0] = base /\ \A k \in 1..n : w[n][1..k] = step[w[n][1..(k - 1)]]
  BY IteratingSteps
<1>2. ASSUME NEW n \in Nat PROVE w[n][1..n] \in States /\ w[n + 1][1..(n + 1)] = step[w[n][1..n]]
  <2> DEFINE v == w[n]
             u == w[n + 1]
             G == {k \in Nat : k <= n => v[1..k] \in States /\ v[1..k] = u[1..k]}
  <2>1. v[1..0] = base /\ u[1..0] = base
    BY <1>1
  <2>2. (\A k \in 1..n : v[1..k] = step[v[1..(k - 1)]]) /\ \A k \in 1..(n + 1) : u[1..k] = step[u[1..(k - 1)]]
    BY <1>1
  <2> HIDE DEF v, u
  <2>3. 0 \in G
    BY <2>1
  <2>4. ASSUME NEW k \in Nat, k \in G PROVE k + 1 \in G
    <3> SUFFICES ASSUME k + 1 <= n PROVE v[1..(k + 1)] \in States /\ v[1..(k + 1)] = u[1..(k + 1)]
      OBVIOUS
    <3>1. k + 1 \in 1..n /\ k + 1 \in 1..(n + 1) /\ (k + 1) - 1 = k /\ k <= n
      OBVIOUS
    <3>2. v[1..(k + 1)] = step[v[1..((k + 1) - 1)]] /\ u[1..(k + 1)] = step[u[1..((k + 1) - 1)]]
      BY <2>2, <3>1
    <3>3. v[1..k] \in States /\ v[1..k] = u[1..k]
      BY <2>4, <3>1
    <3> QED BY <3>1, <3>2, <3>3
  <2>5. \A k \in Nat : k \in G
    <3> HIDE DEF G
    <3> QED BY <2>3, <2>4, ByNumber
  <2>6. v[1..n] \in States /\ v[1..n] = u[1..n]
    BY <2>5
  <2>7. u[1..(n + 1)] = step[u[1..n]]
    <3>1. n + 1 \in 1..(n + 1) /\ (n + 1) - 1 = n
      OBVIOUS
    <3>2. u[1..(n + 1)] = step[u[1..((n + 1) - 1)]]
      BY <2>2, <3>1
    <3> QED BY <3>1, <3>2
  <2> QED BY <2>6, <2>7 DEF v, u
<1>3. 0 \in Nat
  OBVIOUS
<1> QED BY <1>1, <1>2, <1>3 DEF Iterates

-----------------------------------------------------------------------------
(* Sequences *)

\* A sequence with an element more.
LEMMA Appended ==
  ASSUME NEW A, NEW s \in Seq(A), NEW c \in A
  PROVE  /\ Append(s, c) \in Seq(A) /\ Len(Append(s, c)) = Len(s) + 1 /\ Append(s, c)[Len(s) + 1] = c
         /\ \A i \in 1..Len(s) : Append(s, c)[i] = s[i]
OBVIOUS

\* A sequence with another last element.
LEMMA LastChanged ==
  ASSUME NEW A, NEW s \in Seq(A), s # <<>>, NEW c \in A
  PROVE  /\ [s EXCEPT ![Len(s)] = c] \in Seq(A) /\ Len([s EXCEPT ![Len(s)] = c]) = Len(s)
         /\ [s EXCEPT ![Len(s)] = c][Len(s)] = c
         /\ \A i \in 1..(Len(s) - 1) : [s EXCEPT ![Len(s)] = c][i] = s[i]
OBVIOUS

\* A sequence without its last element.
LEMMA FrontIs ==
  ASSUME NEW A, NEW s \in Seq(A), s # <<>>
  PROVE  Front(s) \in Seq(A) /\ Len(Front(s)) = Len(s) - 1 /\ \A i \in 1..(Len(s) - 1) : Front(s)[i] = s[i]
<1>1. Len(s) \in Nat /\ Len(s) # 0 /\ Front(s) = SubSeq(s, 1, Len(s) - 1)
  BY DEF Front
<1>2. SubSeq(s, 1, Len(s) - 1) \in Seq(A) /\ Len(SubSeq(s, 1, Len(s) - 1)) = Len(s) - 1
  <2> DEFINE n == Len(s) - 1
  <2>1. n \in Nat /\ n <= Len(s) /\ n - 1 + 1 = n
    BY <1>1
  <2> HIDE DEF n
  <2>2. SubSeq(s, 1, n) \in Seq(A)
    BY <2>1
  <2>3. Len(SubSeq(s, 1, n)) = n
    BY <2>1
  <2> QED BY <2>2, <2>3 DEF n
<1>3. \A i \in 1..(Len(s) - 1) : SubSeq(s, 1, Len(s) - 1)[i] = s[i]
  BY <1>1
<1> QED BY <1>1, <1>2, <1>3

-----------------------------------------------------------------------------
(* Going through a sequence *)

\* The function behind a fold from the left, a step for each place.
IsLeftFold(g, n, base, step) ==
  \A s \in SUBSET (1..n) : g[s] = IF s = {} THEN base ELSE step[Max(s)][g[s \ {Max(s)}]]

\* There is one, for steps that stay among some states.
LEMMA LeftFoldExists ==
  ASSUME NEW n \in Nat, NEW States, NEW base \in States, NEW step \in [1..n -> [States -> States]]
  PROVE  \E g \in [SUBSET (1..n) -> States] : IsLeftFold(g, n, base, step)
<1> DEFINE c == [s \in SUBSET (1..n) |-> Max(s)]
<1>1. PICK g \in [SUBSET (1..n) -> States] : IsFold(g, 1..n, c, base, step)
  <2>1. Takes(c, 1..n) /\ IsFiniteSet(1..n)
    BY LastTakes, TakesLast
  <2> HIDE DEF c
  <2> QED BY <2>1, FoldExists
<1>2. ASSUME NEW s \in SUBSET (1..n) PROVE g[s] = IF s = {} THEN base ELSE step[Max(s)][g[s \ {Max(s)}]]
  BY <1>1 DEF IsFold
<1> QED BY <1>2 DEF IsLeftFold

\* What f gives is a step on, by the last of a set, from the states before.
StepsOn(u, f, n, States, step) ==
  \A s \in SUBSET (1..n) : s # {} /\ u[s \ {Max(s)}] \in States => f[s] = step[Max(s)][u[s \ {Max(s)}]]

\* States, one for every prefix, each a step on from the one before.
IsWalk(v, n, base, step) == v[0] = base /\ \A k \in 1..n : v[k] = step[k][v[k - 1]]

\* A fold from the left walks through such states.
LEMMA LeftFoldWalks ==
  ASSUME NEW n \in Nat, NEW States, NEW base \in States, NEW step \in [1..n -> [States -> States]],
         NEW u, NEW f, ComesTo(u, f, n, base), StepsOn(u, f, n, States, step)
  PROVE  \E v \in [0..n -> States] : IsWalk(v, n, base, step) /\ v[n] = u[1..n]
<1>0. /\ u = [s \in SUBSET (1..n) |-> IF s = {} THEN base ELSE f[s]]
      /\ \A s \in SUBSET (1..n) : s # {} /\ u[s \ {Max(s)}] \in States => f[s] = step[Max(s)][u[s \ {Max(s)}]]
  BY DEF ComesTo, StepsOn
<1> DEFINE G == {k \in Nat : k <= n => u[1..k] \in States /\ (k > 0 => u[1..k] = step[k][u[1..(k - 1)]])}
<1>1. u[1..0] = base
  <2>1. 1..0 = {} /\ 1..0 \in SUBSET (1..n)
    OBVIOUS
  <2> QED BY <1>0, <2>1
<1>2. 0 \in G
  BY <1>1
<1>3. ASSUME NEW k \in Nat, k \in G PROVE k + 1 \in G
  <2> SUFFICES ASSUME k + 1 <= n PROVE u[1..(k + 1)] \in States /\ u[1..(k + 1)] = step[k + 1][u[1..k]]
    OBVIOUS
  <2>1. 1..(k + 1) \in SUBSET (1..n) /\ 1..(k + 1) # {} /\ (1..(k + 1)) \ {k + 1} = 1..k /\ k + 1 \in 1..n
    <3>1. k + 1 \in 1..n /\ k + 1 \in 1..(k + 1)
      OBVIOUS
    <3>2. 1..(k + 1) \in SUBSET (1..n) /\ (1..(k + 1)) \ {k + 1} = 1..k
      OBVIOUS
    <3> QED BY <3>1, <3>2
  <2>2. Max(1..(k + 1)) = k + 1
    BY <2>1, TakesLast
  <2>3. u[1..k] \in States
    BY <1>3
  <2>4. u[1..(k + 1)] = step[k + 1][u[1..k]]
    BY <1>0, <2>1, <2>2, <2>3
  <2> QED BY <2>1, <2>3, <2>4
<1>4. \A k \in Nat : k \in G
  <2> HIDE DEF G
  <2> QED BY <1>2, <1>3, ByNumber
<1> DEFINE v == [k \in 0..n |-> u[1..k]]
<1>5. \A k \in 0..n : v[k] = u[1..k] /\ v[k] \in States
  BY <1>4
<1>6. \A k \in 1..n : v[k] = step[k][v[k - 1]]
  <2> SUFFICES ASSUME NEW k \in 1..n PROVE v[k] = step[k][v[k - 1]]
    OBVIOUS
  <2>1. k \in Nat /\ k > 0 /\ k <= n /\ k - 1 \in 0..n /\ k \in 0..n
    OBVIOUS
  <2>2. u[1..k] = step[k][u[1..(k - 1)]]
    BY <1>4, <2>1
  <2> QED BY <2>1, <2>2
<1>7. v[0] = base /\ v[n] = u[1..n] /\ v \in [0..n -> States]
  BY <1>1, <1>5
<1> QED BY <1>6, <1>7 DEF IsWalk

\* What is gathered step by step is what was found at each of the steps.
GathersFrom(m, n, S, f) == m[0] = {} /\ \A k \in 1..n : m[k] = m[k - 1] \cup (IF k \in S THEN {f[k]} ELSE {})

\* Gathering finds all of them.
LEMMA GathersAll ==
  ASSUME NEW n \in Nat, NEW S \in SUBSET (1..n), NEW f, NEW m, GathersFrom(m, n, S, f)
  PROVE  m[n] = {f[i] : i \in S}
<1> DEFINE Before(k) == {i \in S : i <= k}
           Upto(k) == {f[i] : i \in Before(k)}
           G == {k \in Nat : k <= n => m[k] = Upto(k)}
<1>0. \A i \in S : i \in Nat /\ i > 0 /\ i <= n
  OBVIOUS
<1>1. Before(0) = {} /\ Before(n) = S
  <2>1. \A i \in S : ~(i <= 0) /\ i <= n
    BY <1>0
  <2> QED BY <2>1
<1>2. ASSUME NEW k \in Nat PROVE Before(k + 1) = Before(k) \cup (IF k + 1 \in S THEN {k + 1} ELSE {})
  <2>1. \A i \in S : i <= k + 1 <=> i <= k \/ i = k + 1
    BY <1>0
  <2> QED BY <2>1
<1> HIDE DEF Before
<1>3. Upto(0) = {} /\ Upto(n) = {f[i] : i \in S}
  BY <1>1
<1>4. ASSUME NEW k \in Nat PROVE Upto(k + 1) = Upto(k) \cup (IF k + 1 \in S THEN {f[k + 1]} ELSE {})
  BY <1>2
<1> HIDE DEF Upto
<1>5. 0 \in G
  BY <1>3 DEF GathersFrom
<1>6. ASSUME NEW k \in Nat, k \in G PROVE k + 1 \in G
  <2> SUFFICES ASSUME k + 1 <= n PROVE m[k + 1] = Upto(k + 1)
    OBVIOUS
  <2>1. m[k] = Upto(k)
    BY <1>6
  <2>2. m[k + 1] = m[k] \cup (IF k + 1 \in S THEN {f[k + 1]} ELSE {})
    <3>1. k + 1 \in 1..n /\ k + 1 - 1 = k
      OBVIOUS
    <3> QED BY <3>1 DEF GathersFrom
  <2> QED BY <1>4, <2>1, <2>2
<1>7. \A k \in Nat : k \in G
  <2> HIDE DEF G
  <2> QED BY <1>5, <1>6, ByNumber
<1> QED BY <1>3, <1>7

\* What is kept until the next time is what was found the last time.
KeepsLast(d, n, S, f) == \A k \in 1..n : d[k] = IF k \in S THEN f[k] ELSE d[k - 1]

\* Keeping keeps the last, or what was there when there is none.
LEMMA KeptLast ==
  ASSUME NEW n \in Nat, NEW S \in SUBSET (1..n), NEW f, NEW d, KeepsLast(d, n, S, f)
  PROVE  /\ S = {} => d[n] = d[0]
         /\ \A j \in S : (\A i \in S : i <= j) => d[n] = f[j]
<1> DEFINE Good(k) == /\ (\A i \in S : ~(i <= k)) => d[k] = d[0]
                      /\ \A j \in S : j <= k /\ (\A i \in S : i <= k => i <= j) => d[k] = f[j]
           G == {k \in Nat : k <= n => Good(k)}
<1>1. 0 \in G
  <2>1. \A i \in S : ~(i <= 0)
    OBVIOUS
  <2> QED BY <2>1
<1>2. ASSUME NEW k \in Nat, k \in G PROVE k + 1 \in G
  <2> SUFFICES ASSUME k + 1 <= n PROVE Good(k + 1)
    OBVIOUS
  <2>1. Good(k)
    <3> HIDE DEF Good
    <3> QED BY <1>2
  <2>2. d[k + 1] = IF k + 1 \in S THEN f[k + 1] ELSE d[k]
    <3>1. k + 1 \in 1..n /\ k + 1 - 1 = k
      OBVIOUS
    <3> QED BY <3>1 DEF KeepsLast
  <2>3. \A i \in S : i \in Nat /\ (i <= k + 1 <=> i <= k \/ i = k + 1)
    OBVIOUS
  <2>4. CASE k + 1 \in S
    <3>1. ASSUME NEW j \in S, j <= k + 1, \A i \in S : i <= k + 1 => i <= j PROVE j = k + 1
      BY <2>3, <2>4, <3>1
    <3> QED BY <2>2, <2>4, <3>1
  <2>5. CASE k + 1 \notin S
    <3>1. \A i \in S : i <= k + 1 <=> i <= k
      BY <2>3, <2>5
    <3> QED BY <2>1, <2>2, <2>5, <3>1
  <2> QED BY <2>4, <2>5
<1>3. \A k \in Nat : k \in G
  <2> HIDE DEF G
  <2> QED BY <1>1, <1>2, ByNumber
<1>4. Good(n)
  <2> HIDE DEF Good
  <2> QED BY <1>3
<1>5. \A i \in S : i <= n
  OBVIOUS
<1>6. S = {} => d[n] = d[0]
  BY <1>4
<1>7. ASSUME NEW j \in S, \A i \in S : i <= j PROVE d[n] = f[j]
  BY <1>4, <1>5, <1>7
<1> QED BY <1>6, <1>7

\* Of the values at some places one is the greatest, and there is a first
\* place where it stands.
LEMMA FirstGreatest ==
  ASSUME NEW n \in Nat, NEW S \in SUBSET (0..n), S # {}, NEW f, \A i \in S : f[i] \in Int
  PROVE  \E i \in S : \A j \in S : f[i] > f[j] \/ (f[i] = f[j] /\ i <= j)
<1> DEFINE Best(i, k) == i <= k /\ \A j \in S : j <= k => f[i] > f[j] \/ (f[i] = f[j] /\ i <= j)
           G == {k \in Nat : (\E i \in S : i <= k) => \E i \in S : Best(i, k)}
<1>0. \A i \in S : i \in Nat /\ i <= n
  OBVIOUS
<1>1. 0 \in G
  <2>1. \A i \in S : i <= 0 => i = 0
    BY <1>0
  <2>2. ASSUME 0 \in S PROVE Best(0, 0)
    BY <2>1, <2>2
  <2>3. (\E i \in S : i <= 0) => 0 \in S
    BY <2>1
  <2> HIDE DEF Best
  <2> QED BY <2>2, <2>3
<1>2. ASSUME NEW k \in Nat, k \in G PROVE k + 1 \in G
  <2>1. \A i \in S : i <= k + 1 <=> i <= k \/ i = k + 1
    BY <1>0
  <2>2. CASE k + 1 \notin S
    <3>1. \A i \in S : i <= k + 1 <=> i <= k
      BY <2>1, <2>2
    <3>2. \A i \in S : Best(i, k + 1) <=> Best(i, k)
      BY <3>1
    <3> HIDE DEF Best
    <3> QED BY <1>2, <3>1, <3>2
  <2>3. CASE k + 1 \in S /\ ~\E i \in S : i <= k
    <3>1. \A i \in S : i <= k + 1 => i = k + 1
      BY <2>1, <2>3
    <3>2. Best(k + 1, k + 1)
      BY <3>1, <2>3
    <3> HIDE DEF Best
    <3> QED BY <2>3, <3>2
  <2>4. CASE k + 1 \in S /\ \E i \in S : i <= k
    <3>1. PICK i \in S : Best(i, k)
      BY <1>2, <2>4
    <3>2. f[i] \in Int /\ f[k + 1] \in Int /\ i <= k /\ i <= k + 1 /\ i \in Nat
      BY <1>0, <2>4, <3>1
    <3>3. CASE f[k + 1] > f[i]
      <4>1. \A j \in S : j <= k => f[k + 1] > f[j]
        BY <2>4, <3>1, <3>2, <3>3
      <4>2. Best(k + 1, k + 1)
        BY <2>1, <4>1
      <4> HIDE DEF Best
      <4> QED BY <2>4, <4>2
    <3>4. CASE ~(f[k + 1] > f[i])
      <4>1. f[i] > f[k + 1] \/ (f[i] = f[k + 1] /\ i <= k + 1)
        BY <3>2, <3>4
      <4>2. Best(i, k + 1)
        BY <2>1, <3>1, <3>2, <4>1
      <4> HIDE DEF Best
      <4> QED BY <4>2
    <3> QED BY <3>3, <3>4
  <2> QED BY <2>2, <2>3, <2>4
<1>3. \A k \in Nat : k \in G
  <2> HIDE DEF G
  <2> QED BY <1>1, <1>2, ByNumber
<1>4. \E i \in S : Best(i, n)
  BY <1>0, <1>3
<1> QED BY <1>0, <1>4
-----------------------------------------------------------------------------

\* As many come of a set as it has elements, when no two come to the same.
LEMMA ImageCounts ==
  ASSUME NEW S, IsFiniteSet(S), NEW f, \A x, y \in S : f[x] = f[y] => x = y
  PROVE  IsFiniteSet({f[x] : x \in S}) /\ Cardinality({f[x] : x \in S}) = Cardinality(S)
<1> DEFINE T == {f[x] : x \in S}
           g == [x \in S |-> f[x]]
<1>1. g \in Surjection(S, T) /\ g \in Injection(S, T)
  BY DEF Surjection, Injection, IsInjective
<1> HIDE DEF g, T
<1>2. IsFiniteSet(T) /\ Cardinality(T) = Cardinality(S)
  BY <1>1, FS_Surjection
<1> QED BY <1>2 DEF T

\* Elements in an order, with what is before each of them.
IsOrder(D, before) ==
  /\ before \in [D -> SUBSET D]
  /\ \A i \in D : i \notin before[i]
  /\ \A i, j \in D : i = j \/ i \in before[j] \/ j \in before[i]
  /\ \A i, j \in D : j \in before[i] => before[j] \subseteq before[i]

\* They are numbered by how many are before them.
LEMMA OrderRanks ==
  ASSUME NEW D, IsFiniteSet(D), NEW before, IsOrder(D, before)
  PROVE  /\ \A i, j \in D : Cardinality(before[i]) = Cardinality(before[j]) => i = j
         /\ \A i, j \in D : j \in before[i] => Cardinality(before[j]) < Cardinality(before[i])
         /\ \A i \in D : Cardinality(before[i]) \in 0..(Cardinality(D) - 1)
         /\ \A k \in 1..Cardinality(D) : \E i \in D : Cardinality(before[i]) = k - 1
<1> DEFINE rank == [i \in D |-> Cardinality(before[i])]
<1>1. \A i \in D : before[i] \in SUBSET D /\ IsFiniteSet(before[i]) /\ rank[i] \in Nat
  <2> SUFFICES ASSUME NEW i \in D PROVE before[i] \in SUBSET D /\ IsFiniteSet(before[i]) /\ Cardinality(before[i]) \in Nat
    OBVIOUS
  <2>1. before[i] \in SUBSET D
    BY DEF IsOrder
  <2>2. IsFiniteSet(before[i])
    BY <2>1, FS_Subset
  <2> QED BY <2>1, <2>2, FS_CardinalityType
<1>2. ASSUME NEW s, NEW S, IsFiniteSet(S), s \subseteq S, s # S
      PROVE  Cardinality(s) < Cardinality(S) /\ Cardinality(s) \in Nat /\ Cardinality(S) \in Nat
  <2>1. IsFiniteSet(s) /\ Cardinality(s) <= Cardinality(S) /\ Cardinality(s) # Cardinality(S)
    BY <1>2, FS_Subset
  <2>2. Cardinality(s) \in Nat /\ Cardinality(S) \in Nat
    BY <1>2, <2>1, FS_CardinalityType
  <2> QED BY <2>1, <2>2
<1>3. ASSUME NEW i \in D, NEW j \in D, j \in before[i] PROVE rank[j] < rank[i]
  <2>1. before[j] \subseteq before[i] /\ before[j] # before[i]
    BY <1>3 DEF IsOrder
  <2> QED BY <1>1, <1>2, <2>1
<1>4. ASSUME NEW i \in D, NEW j \in D, rank[i] = rank[j] PROVE i = j
  <2>1. i = j \/ i \in before[j] \/ j \in before[i]
    BY DEF IsOrder
  <2>2. ~(rank[i] < rank[j]) /\ ~(rank[j] < rank[i])
    <3>1. rank[i] \in Nat /\ rank[j] \in Nat
      BY <1>1
    <3> HIDE DEF rank
    <3> QED BY <1>4, <3>1
  <2> HIDE DEF rank
  <2> QED BY <1>3, <2>1, <2>2
<1>5. \A i \in D : rank[i] \in 0..(Cardinality(D) - 1)
  <2> SUFFICES ASSUME NEW i \in D PROVE rank[i] \in 0..(Cardinality(D) - 1)
    OBVIOUS
  <2>1. before[i] \subseteq D /\ before[i] # D
    BY DEF IsOrder
  <2>2. Cardinality(before[i]) < Cardinality(D) /\ Cardinality(before[i]) \in Nat /\ Cardinality(D) \in Nat
    BY <1>2, <2>1
  <2> QED BY <2>2
<1> DEFINE Ranks == {rank[i] : i \in D}
           N == 0..(Cardinality(D) - 1)
<1>6. Ranks = N
  <2> HIDE DEF rank
  <2>1. Cardinality(Ranks) = Cardinality(D)
    BY <1>4, ImageCounts
  <2>2. Ranks \in SUBSET N
    BY <1>5
  <2>3. Cardinality(D) \in Nat
    BY FS_CardinalityType
  <2>4. IsFiniteSet(N) /\ Cardinality(N) = Cardinality(D)
    <3> DEFINE m == Cardinality(D)
    <3>1. m \in Nat /\ m - 1 \in Int
      BY <2>3
    <3> HIDE DEF m
    <3>2. IsFiniteSet(0..(m - 1)) /\ Cardinality(0..(m - 1)) = m
      BY <3>1, FS_Interval
    <3> QED BY <3>2 DEF m
  <2> HIDE DEF Ranks, N
  <2> QED BY <2>1, <2>2, <2>4, FS_Subset
<1>7. ASSUME NEW k \in 1..Cardinality(D) PROVE \E i \in D : rank[i] = k - 1
  <2>1. Cardinality(D) \in Nat
    BY FS_CardinalityType
  <2>2. k - 1 \in N
    BY <2>1
  <2> HIDE DEF rank, N
  <2> QED BY <1>6, <2>2
<1> QED BY <1>3, <1>4, <1>5, <1>7

\* The place of an element among those of a set of numbers.
PlaceIn(S, i) == Cardinality({j \in S : j <= i})

\* Each has a place, and each place is one's.
LEMMA NumberedPlaces ==
  ASSUME NEW S \in SUBSET Nat, IsFiniteSet(S)
  PROVE  /\ \A i \in S : PlaceIn(S, i) \in 1..Cardinality(S)
         /\ \A i, j \in S : PlaceIn(S, i) = PlaceIn(S, j) => i = j
         /\ \A m \in 1..Cardinality(S) : \E i \in S : PlaceIn(S, i) = m
<1> DEFINE before == [i \in S |-> {j \in S : j < i}]
<1>1. IsOrder(S, before)
  <2>1. before \in [S -> SUBSET S] /\ \A i, j \in S : j \in before[i] <=> j < i
    OBVIOUS
  <2>2. \A i \in S : i \in Int
    OBVIOUS
  <2> HIDE DEF before
  <2>3. \A i \in S : i \notin before[i]
    BY <2>1, <2>2
  <2>4. \A i, j \in S : i = j \/ i \in before[j] \/ j \in before[i]
    BY <2>1, <2>2
  <2>5. \A i, j \in S : j \in before[i] => before[j] \subseteq before[i]
    <3> SUFFICES ASSUME NEW i \in S, NEW j \in S, j \in before[i], NEW k \in before[j] PROVE k \in before[i]
      OBVIOUS
    <3>1. k \in S /\ k < j /\ j < i
      BY <2>1
    <3>2. k < i
      BY <2>2, <3>1
    <3> QED BY <2>1, <3>1, <3>2
  <2> QED BY <2>1, <2>3, <2>4, <2>5 DEF IsOrder
<1>2. \A i \in S : PlaceIn(S, i) = Cardinality(before[i]) + 1 /\ Cardinality(before[i]) \in Nat
  <2> SUFFICES ASSUME NEW i \in S PROVE PlaceIn(S, i) = Cardinality(before[i]) + 1 /\ Cardinality(before[i]) \in Nat
    OBVIOUS
  <2>1. {j \in S : j <= i} = before[i] \cup {i} /\ i \notin before[i] /\ before[i] \in SUBSET S
    <3>1. \A j \in S : j \in Nat /\ (j <= i <=> j < i \/ j = i) /\ ~(i < i)
      OBVIOUS
    <3> QED BY <3>1
  <2> HIDE DEF before
  <2>2. IsFiniteSet(before[i])
    BY <2>1, FS_Subset
  <2> QED BY <2>1, <2>2, FS_AddElement, FS_CardinalityType DEF PlaceIn
<1> HIDE DEF before
<1> DEFINE c == [i \in S |-> Cardinality(before[i])]
           n == Cardinality(S)
<1>3. /\ \A i, j \in S : c[i] = c[j] => i = j
      /\ \A i \in S : c[i] \in 0..(n - 1)
      /\ \A k \in 1..n : \E i \in S : c[i] = k - 1
  <2>1. \A i \in S : c[i] = Cardinality(before[i])
    OBVIOUS
  <2>2. /\ \A i, j \in S : Cardinality(before[i]) = Cardinality(before[j]) => i = j
        /\ \A i \in S : Cardinality(before[i]) \in 0..(n - 1)
        /\ \A k \in 1..n : \E i \in S : Cardinality(before[i]) = k - 1
    BY <1>1, OrderRanks
  <2> HIDE DEF c, n
  <2> QED BY <2>1, <2>2
<1>4. n \in Nat /\ \A i \in S : c[i] \in Nat /\ PlaceIn(S, i) = c[i] + 1
  BY <1>2, FS_CardinalityType
<1> HIDE DEF c, n
<1>5. \A i \in S : PlaceIn(S, i) \in 1..n
  BY <1>3, <1>4
<1>6. \A i, j \in S : PlaceIn(S, i) = PlaceIn(S, j) => i = j
  BY <1>3, <1>4
<1>7. ASSUME NEW m \in 1..n PROVE \E i \in S : PlaceIn(S, i) = m
  <2>1. PICK i \in S : c[i] = m - 1
    BY <1>3
  <2>2. PlaceIn(S, i) = m
    BY <1>4, <2>1
  <2> QED BY <2>2
<1> QED BY <1>5, <1>6, <1>7 DEF n

\* Keeping some elements of a sequence, one after the other.
KeepsSome(v, n, S, A, e) ==
  /\ n \in Nat /\ S \in SUBSET (1..n) /\ v \in [0..n -> Seq(A)] /\ \A i \in S : e[i] \in A
  /\ v[0] = <<>> /\ \A k \in 1..n : v[k] = IF k \in S THEN Append(v[k - 1], e[k]) ELSE v[k - 1]

\* Some elements of a sequence, each at its place.
AtPlaces(w, n, S, e) ==
  n \in Nat /\ S \in SUBSET (1..n) /\ Len(w) = Cardinality(S) /\ \A i \in S : w[PlaceIn(S, i)] = e[i]

\* Each is kept at its place.
LEMMA KeptPlaces ==
  ASSUME NEW n, NEW S, NEW A, NEW e, NEW v, KeepsSome(v, n, S, A, e)
  PROVE  AtPlaces(v[n], n, S, e)
<1> DEFINE Before(k) == {j \in S : j <= k}
           Good(k) == Len(v[k]) = Cardinality(Before(k)) /\ \A i \in Before(k) : v[k][PlaceIn(S, i)] = e[i]
           G == {k \in Nat : k <= n => Good(k)}
<1>0. n \in Nat /\ S \in SUBSET (1..n)
  BY DEF KeepsSome
<1>1. S \in SUBSET Nat /\ IsFiniteSet(S) /\ \A i \in S : i <= n
  <2>1. S \in SUBSET Nat /\ \A i \in S : i <= n
    BY <1>0
  <2>2. IsFiniteSet(1..n)
    BY <1>0, FS_Interval
  <2>3. IsFiniteSet(S)
    BY <1>0, <2>2, FS_Subset
  <2> QED BY <2>1, <2>3
<1>2. Before(0) = {} /\ Before(n) = S
  <2>1. \A i \in S : ~(i <= 0) /\ i <= n
    BY <1>0
  <2> QED BY <2>1
<1>3. \A k \in Nat : IsFiniteSet(Before(k)) /\ Cardinality(Before(k)) \in Nat
  <2>1. \A k \in Nat : Before(k) \in SUBSET S
    OBVIOUS
  <2> HIDE DEF Before
  <2> QED BY <1>1, <2>1, FS_Subset, FS_CardinalityType
<1>4. 0 \in G
  <2>1. v[0] = <<>>
    BY DEF KeepsSome
  <2> HIDE DEF Before
  <2> QED BY <1>2, <2>1, FS_EmptySet
<1>5. ASSUME NEW k \in Nat, k \in G PROVE k + 1 \in G
  <2> SUFFICES ASSUME k + 1 <= n PROVE Good(k + 1)
    OBVIOUS
  <2>1. Good(k)
    <3> HIDE DEF Good
    <3> QED BY <1>0, <1>5
  <2>2. v[k + 1] = (IF k + 1 \in S THEN Append(v[k], e[k + 1]) ELSE v[k]) /\ v[k] \in Seq(A)
    <3>1. k + 1 \in 1..n /\ k + 1 - 1 = k /\ k \in 0..n
      BY <1>0
    <3> QED BY <3>1 DEF KeepsSome
  <2>3. \A i \in S : i <= k + 1 <=> i <= k \/ i = k + 1
    BY <1>1
  <2>4. CASE k + 1 \in S
    <3>1. Before(k + 1) = Before(k) \cup {k + 1} /\ k + 1 \notin Before(k)
      <4>1. \A i \in S : i \in Nat
        BY <1>0
      <4>2. \A i : i \in Before(k + 1) <=> i \in S /\ (i <= k \/ i = k + 1)
        BY <2>3
      <4>3. \A i : i \in Before(k) <=> i \in S /\ i <= k
        OBVIOUS
      <4>4. ~(k + 1 <= k)
        OBVIOUS
      <4> HIDE DEF Before
      <4>5. \A i : i \in Before(k + 1) <=> i \in Before(k) \/ i = k + 1
        BY <2>4, <4>2, <4>3
      <4> QED BY <4>3, <4>4, <4>5
    <3>2. Cardinality(Before(k + 1)) = Cardinality(Before(k)) + 1 /\ PlaceIn(S, k + 1) = Cardinality(Before(k + 1))
      <4>1. PlaceIn(S, k + 1) = Cardinality(Before(k + 1))
        BY DEF PlaceIn
      <4> HIDE DEF Before
      <4> QED BY <1>3, <3>1, <4>1, FS_AddElement
    <3> DEFINE x == v[k]
               y == v[k + 1]
               p == e[k + 1]
    <3>3. Len(y) = Len(x) + 1 /\ y[Len(x) + 1] = p /\ \A i \in 1..Len(x) : y[i] = x[i]
      <4>1. x \in Seq(A) /\ p \in A /\ y = Append(x, p)
        BY <2>2, <2>4 DEF KeepsSome
      <4> HIDE DEF x, y, p
      <4> QED BY <4>1, Appended
    <3>4. \A i \in Before(k) : PlaceIn(S, i) \in 1..Len(x)
      <4> SUFFICES ASSUME NEW i \in Before(k) PROVE PlaceIn(S, i) \in 1..Len(x)
        OBVIOUS
      <4>1. PlaceIn(S, i) \in Nat /\ 1 <= PlaceIn(S, i)
        <5>1. \A j \in S : PlaceIn(S, j) \in 1..Cardinality(S)
          BY <1>1, NumberedPlaces
        <5>2. i \in S
          OBVIOUS
        <5>3. Cardinality(S) \in Nat
          BY <1>1, FS_CardinalityType
        <5> QED BY <5>1, <5>2, <5>3
      <4>2. {j \in S : j <= i} \in SUBSET Before(k)
        <5>1. \A j \in S : j <= i /\ i <= k => j <= k
          BY <1>1
        <5> QED BY <5>1
      <4>3. PlaceIn(S, i) <= Cardinality(Before(k))
        <5> HIDE DEF Before
        <5> QED BY <1>3, <4>2, FS_Subset DEF PlaceIn
      <4> QED BY <1>3, <2>1, <4>1, <4>3
    <3>5. Len(x) = Cardinality(Before(k)) /\ \A i \in Before(k) : x[PlaceIn(S, i)] = e[i]
      BY <2>1
    <3> HIDE DEF x, y, p, Before
    <3>6. Len(y) = Cardinality(Before(k + 1)) /\ \A i \in Before(k + 1) : y[PlaceIn(S, i)] = e[i]
      BY <3>1, <3>2, <3>3, <3>4, <3>5 DEF p
    <3> QED BY <3>6 DEF y
  <2>5. CASE k + 1 \notin S
    <3>1. Before(k + 1) = Before(k)
      BY <2>3, <2>5
    <3> HIDE DEF Before
    <3> QED BY <2>1, <2>2, <2>5, <3>1
  <2> QED BY <2>4, <2>5
<1>6. \A k \in Nat : k \in G
  <2> HIDE DEF G
  <2> QED BY <1>4, <1>5, ByNumber
<1>7. Good(n)
  <2> HIDE DEF Good
  <2> QED BY <1>0, <1>6
<1> QED BY <1>0, <1>2, <1>7 DEF AtPlaces

\* How often something is in a sequence, and at some of the places of one.
TimesIn(w, x) == Cardinality({m \in 1..Len(w) : w[m] = x})
TimesAt(e, S, x) == Cardinality({i \in S : e[i] = x})

\* As many of a sort have places as there are.
LEMMA PlacedCounts ==
  ASSUME NEW n, NEW S, NEW w, NEW e, AtPlaces(w, n, S, e), NEW x
  PROVE  TimesIn(w, x) = TimesAt(e, S, x)
<1> DEFINE T == {i \in S : e[i] = x}
           place == [i \in S |-> PlaceIn(S, i)]
<1>1. n \in Nat /\ S \in SUBSET (1..n) /\ Len(w) = Cardinality(S) /\ \A i \in S : w[place[i]] = e[i]
  BY DEF AtPlaces
<1>2. S \in SUBSET Nat /\ IsFiniteSet(S) /\ IsFiniteSet(T)
  <2>1. S \in SUBSET Nat /\ T \in SUBSET S
    BY <1>1
  <2>2. IsFiniteSet(1..n)
    BY <1>1, FS_Interval
  <2>3. IsFiniteSet(S)
    BY <1>1, <2>2, FS_Subset
  <2> HIDE DEF T
  <2>4. IsFiniteSet(T)
    BY <2>1, <2>3, FS_Subset
  <2> QED BY <2>1, <2>3, <2>4
<1>3. /\ \A i \in S : place[i] \in 1..Cardinality(S)
      /\ \A i, j \in S : place[i] = place[j] => i = j
      /\ \A m \in 1..Cardinality(S) : \E i \in S : place[i] = m
  BY <1>2, NumberedPlaces
<1> HIDE DEF place
<1>4. {m \in 1..Len(w) : w[m] = x} = {place[i] : i \in T}
  <2>1. ASSUME NEW m \in 1..Len(w), w[m] = x PROVE \E i \in T : m = place[i]
    <3>1. PICK i \in S : place[i] = m
      BY <1>1, <1>3
    <3> QED BY <1>1, <2>1, <3>1
  <2>2. ASSUME NEW i \in T PROVE place[i] \in 1..Len(w) /\ w[place[i]] = x
    BY <1>1, <1>3
  <2> HIDE DEF T
  <2> QED BY <2>1, <2>2
<1>5. Cardinality({place[i] : i \in T}) = Cardinality(T)
  <2>1. \A i, j \in T : place[i] = place[j] => i = j
    BY <1>3
  <2> HIDE DEF T
  <2> QED BY <1>2, <2>1, ImageCounts
<1> QED BY <1>4, <1>5 DEF TimesIn, TimesAt

-----------------------------------------------------------------------------
(* Sequences put in order *)

\* Elements in a total order.
IsTotal(L, P) ==
  \A p, q \in P : /\ p = q \/ <<p, q>> \in L \/ <<q, p>> \in L
                  /\ ~(<<p, q>> \in L /\ <<q, p>> \in L)
                  /\ \A r \in P : <<r, p>> \in L /\ <<p, q>> \in L => <<r, q>> \in L

\* None comes before a lesser.
Ordered(s, L) == \A k, l \in 1..Len(s) : k < l => <<s[l], s[k]>> \notin L

\* The places before each one, equals as they stand, and the place for each number.
WhatIsBefore(s, L, before) ==
  /\ before \in [1..Len(s) -> SUBSET (1..Len(s))]
  /\ \A i, j \in 1..Len(s) : j \in before[i] <=> <<s[j], s[i]>> \in L \/ (s[j] = s[i] /\ j < i)
Chosen(at, n, before) == \A k \in 1..n : at[k] = CHOOSE i \in 1..n : Cardinality(before[i]) = k - 1

\* Elements are put in their order and each stays as often as it was.
LEMMA PutInOrder ==
  ASSUME NEW P, NEW L, IsTotal(L, P), NEW s \in Seq(P), NEW before, WhatIsBefore(s, L, before), NEW at, Chosen(at, Len(s), before),
         NEW t, t = [k \in 1..Len(s) |-> s[at[k]]]
  PROVE  /\ t \in Seq(P) /\ Len(t) = Len(s) /\ Ordered(t, L)
         /\ \A x : TimesIn(t, x) = TimesIn(s, x)
<1> DEFINE n == Len(s)
           D == 1..n
<1>1. n \in Nat /\ DOMAIN s = D /\ \A i \in D : s[i] \in P
  OBVIOUS
<1>2. \A p, q \in P : /\ p = q \/ <<p, q>> \in L \/ <<q, p>> \in L
                      /\ ~(<<p, q>> \in L /\ <<q, p>> \in L)
                      /\ \A r \in P : <<r, p>> \in L /\ <<p, q>> \in L => <<r, q>> \in L
  BY DEF IsTotal
<1>3. \A i, j \in D : j \in before[i] <=> <<s[j], s[i]>> \in L \/ (s[j] = s[i] /\ j < i)
  BY DEF WhatIsBefore
<1>4. before \in [D -> SUBSET D]
  BY DEF WhatIsBefore
<1>5. t = [k \in D |-> s[at[k]]]
  OBVIOUS
<1>6. IsFiniteSet(D) /\ Cardinality(D) = n
  <2> HIDE DEF n
  <2> QED BY <1>1, FS_Interval
<1> DEFINE c == [i \in D |-> Cardinality(before[i])]
<1>7. \A k \in D : at[k] = CHOOSE i \in D : c[i] = k - 1
  <2> SUFFICES ASSUME NEW k \in D PROVE at[k] = CHOOSE i \in D : c[i] = k - 1
    OBVIOUS
  <2>1. at[k] = CHOOSE i \in D : Cardinality(before[i]) = k - 1
    BY DEF Chosen
  <2>2. \A i : i \in D /\ Cardinality(before[i]) = k - 1 <=> i \in D /\ c[i] = k - 1
    OBVIOUS
  <2> HIDE DEF D, c
  <2> QED BY <2>1, <2>2, Zenon
<1>8. IsOrder(D, before)
  <2>1. \A i \in D : i \in Int
    OBVIOUS
  <2> HIDE DEF D
  <2>2. \A i \in D : i \notin before[i]
    <3>1. \A p \in P : <<p, p>> \notin L
      BY <1>2
    <3>2. \A i \in D : <<s[i], s[i]>> \notin L /\ ~(i < i)
      BY <1>1, <2>1, <3>1
    <3> QED BY <1>3, <3>2
  <2>3. \A i, j \in D : i = j \/ i \in before[j] \/ j \in before[i]
    <3> SUFFICES ASSUME NEW i \in D, NEW j \in D, i # j, i \notin before[j], j \notin before[i] PROVE FALSE
      OBVIOUS
    <3>1. <<s[i], s[j]>> \notin L /\ <<s[j], s[i]>> \notin L
      BY <1>3
    <3>2. s[i] = s[j]
      BY <1>1, <1>2, <3>1
    <3>3. ~(i < j) /\ ~(j < i)
      BY <1>3, <3>2
    <3> QED BY <2>1, <3>3
  <2>4. \A i, j \in D : j \in before[i] => before[j] \subseteq before[i]
    <3> SUFFICES ASSUME NEW i \in D, NEW j \in D, j \in before[i], NEW k \in before[j] PROVE k \in before[i]
      OBVIOUS
    <3>1. k \in D
      BY <1>4
    <3>2. /\ <<s[k], s[j]>> \in L \/ (s[k] = s[j] /\ k < j)
          /\ <<s[j], s[i]>> \in L \/ (s[j] = s[i] /\ j < i)
      BY <1>3, <3>1
    <3>3. <<s[k], s[i]>> \in L \/ (s[k] = s[i] /\ k < i)
      <4>1. k < j /\ j < i => k < i
        BY <2>1, <3>1
      <4>2. <<s[k], s[j]>> \in L /\ <<s[j], s[i]>> \in L => <<s[k], s[i]>> \in L
        BY <1>1, <1>2, <3>1
      <4> QED BY <3>2, <4>1, <4>2
    <3> QED BY <1>3, <3>1, <3>3
  <2> QED BY <1>4, <2>2, <2>3, <2>4 DEF IsOrder
<1>9. /\ \A i, j \in D : c[i] = c[j] => i = j
      /\ \A i, j \in D : j \in before[i] => c[j] < c[i]
      /\ \A i \in D : c[i] \in 0..(n - 1)
      /\ \A k \in 1..n : \E i \in D : c[i] = k - 1
  <2>1. \A i \in D : c[i] = Cardinality(before[i])
    OBVIOUS
  <2>2. /\ \A i, j \in D : Cardinality(before[i]) = Cardinality(before[j]) => i = j
        /\ \A i, j \in D : j \in before[i] => Cardinality(before[j]) < Cardinality(before[i])
        /\ \A i \in D : Cardinality(before[i]) \in 0..(n - 1)
        /\ \A k \in 1..n : \E i \in D : Cardinality(before[i]) = k - 1
    <3> HIDE DEF D
    <3>1. /\ \A i, j \in D : Cardinality(before[i]) = Cardinality(before[j]) => i = j
          /\ \A i, j \in D : j \in before[i] => Cardinality(before[j]) < Cardinality(before[i])
          /\ \A i \in D : Cardinality(before[i]) \in 0..(Cardinality(D) - 1)
          /\ \A k \in 1..Cardinality(D) : \E i \in D : Cardinality(before[i]) = k - 1
      BY <1>6, <1>8, OrderRanks
    <3> QED BY <1>6, <3>1
  <2> HIDE DEF c
  <2> QED BY <2>1, <2>2
<1>10. \A k \in D : at[k] \in D /\ c[at[k]] = k - 1
  <2> HIDE DEF c
  <2> SUFFICES ASSUME NEW k \in D PROVE at[k] \in D /\ c[at[k]] = k - 1
    OBVIOUS
  <2>1. \E i \in D : c[i] = k - 1
    BY <1>9
  <2> HIDE DEF D
  <2> QED BY <1>7, <2>1
<1> HIDE DEF c
<1>11. t \in Seq(P) /\ Len(t) = n /\ \A k \in D : t[k] = s[at[k]]
  <2>1. t \in [1..n -> P]
    BY <1>1, <1>5, <1>10
  <2> HIDE DEF n
  <2> QED BY <1>1, <1>5, <2>1
<1>12. Ordered(t, L)
  <2> SUFFICES ASSUME NEW k \in D, NEW l \in D, k < l PROVE <<t[l], t[k]>> \notin L
    BY <1>11 DEF Ordered
  <2>1. k \in Int /\ l \in Int /\ k - 1 < l - 1 /\ at[k] \in D /\ at[l] \in D
    BY <1>10
  <2>2. c[at[k]] < c[at[l]] /\ ~(c[at[l]] < c[at[k]]) /\ at[k] # at[l]
    <3>1. c[at[k]] = k - 1 /\ c[at[l]] = l - 1
      BY <1>10
    <3> QED BY <2>1, <3>1
  <2>3. at[k] \in before[at[l]]
    <3> HIDE DEF D
    <3> QED BY <1>8, <1>9, <2>1, <2>2 DEF IsOrder
  <2> DEFINE a == at[k]
             b == at[l]
  <2>4. a \in D /\ b \in D /\ a \in before[b] /\ t[k] = s[a] /\ t[l] = s[b] /\ s[a] \in P /\ s[b] \in P
    BY <1>1, <1>11, <2>1, <2>3
  <2> HIDE DEF a, b, D
  <2>5. <<s[a], s[b]>> \in L \/ s[a] = s[b]
    BY <1>3, <2>4
  <2>6. <<s[b], s[a]>> \notin L
    BY <1>2, <2>4, <2>5
  <2> QED BY <2>4, <2>6
<1>13. ASSUME NEW x PROVE TimesIn(t, x) = TimesIn(s, x)
  <2> DEFINE K == {k \in D : t[k] = x}
             I == {i \in D : s[i] = x}
  <2>1. I = {at[k] : k \in K}
    <3>1. ASSUME NEW i \in I PROVE \E k \in K : i = at[k]
      <4> DEFINE k == c[i] + 1
      <4>1. i \in D /\ s[i] = x /\ c[i] \in 0..(n - 1)
        BY <1>9
      <4>2. k \in D /\ k - 1 = c[i]
        BY <1>1, <4>1
      <4>3. at[k] \in D /\ c[at[k]] = c[i]
        <5> HIDE DEF k
        <5> QED BY <1>10, <4>2
      <4>4. at[k] = i
        <5> HIDE DEF k
        <5> QED BY <1>9, <4>1, <4>3
      <4> HIDE DEF k
      <4> QED BY <1>11, <4>1, <4>2, <4>4
    <3>2. ASSUME NEW k \in K PROVE at[k] \in I
      BY <1>10, <1>11
    <3> HIDE DEF I, K
    <3> QED BY <3>1, <3>2
  <2>2. \A k, l \in K : at[k] = at[l] => k = l
    <3> SUFFICES ASSUME NEW k \in K, NEW l \in K, at[k] = at[l] PROVE k = l
      OBVIOUS
    <3>1. k \in D /\ l \in D /\ k \in Int /\ l \in Int
      OBVIOUS
    <3>2. k - 1 = l - 1
      BY <1>10, <3>1
    <3> QED BY <3>1, <3>2
  <2>3. IsFiniteSet(K)
    <3>1. K \in SUBSET D
      OBVIOUS
    <3> HIDE DEF K, D
    <3> QED BY <1>6, <3>1, FS_Subset
  <2>4. Cardinality(I) = Cardinality(K)
    <3> HIDE DEF I, K
    <3> QED BY <2>1, <2>2, <2>3, ImageCounts
  <2> QED BY <1>11, <2>4 DEF TimesIn
<1> QED BY <1>11, <1>12, <1>13

\* Where two such sequences agree so far, the first does not fall behind.
LEMMA NotBehind ==
  ASSUME NEW P, NEW L, IsTotal(L, P), NEW s \in Seq(P), NEW t \in Seq(P), Ordered(t, L),
         \A x \in P : TimesIn(s, x) = TimesIn(t, x),
         NEW k \in 1..Len(s), \A i \in 1..(k - 1) : i <= Len(t) /\ s[i] = t[i]
  PROVE  k <= Len(t) /\ <<s[k], t[k]>> \notin L
<1> SUFFICES ASSUME k <= Len(t) => <<s[k], t[k]>> \in L PROVE FALSE
  OBVIOUS
<1> DEFINE x == s[k]
           S == {i \in 1..Len(s) : s[i] = x}
           T == {i \in 1..Len(t) : t[i] = x}
<1>1. x \in P /\ Len(s) \in Nat /\ Len(t) \in Nat /\ k \in Int /\ k <= Len(s)
  OBVIOUS
<1>2. ASSUME NEW i \in T PROVE i \in S \ {k}
  <2>1. i \in 1..Len(t) /\ t[i] = x
    OBVIOUS
  <2>2. i < k
    <3> SUFFICES ASSUME k <= i PROVE FALSE
      BY <1>1, <2>1
    <3>1. k \in 1..Len(t) /\ <<x, t[k]>> \in L /\ t[k] \in P
      BY <1>1, <2>1
    <3>2. ~(x = t[k] /\ <<x, t[k]>> \in L)
      BY <1>1, <3>1 DEF IsTotal
    <3>3. k # i
      BY <2>1, <3>1, <3>2
    <3>4. k < i
      BY <1>1, <2>1, <3>3
    <3>5. <<t[i], t[k]>> \notin L
      BY <2>1, <3>1, <3>4 DEF Ordered
    <3> QED BY <2>1, <3>1, <3>5
  <2>3. i \in 1..(k - 1)
    BY <1>1, <2>1, <2>2
  <2> QED BY <1>1, <2>1, <2>2, <2>3
<1>3. k \in S
  OBVIOUS
<1>4. IsFiniteSet(S)
  <2>1. IsFiniteSet(1..Len(s)) /\ S \in SUBSET (1..Len(s))
    BY <1>1, FS_Interval
  <2> HIDE DEF S
  <2> QED BY <2>1, FS_Subset
<1>5. Cardinality(T) = Cardinality(S)
  BY <1>1 DEF TimesIn
<1> HIDE DEF S, T
<1>6. Cardinality(S \ {k}) = Cardinality(S) - 1 /\ IsFiniteSet(S \ {k}) /\ Cardinality(S) \in Nat
  BY <1>3, <1>4, FS_RemoveElement, FS_CardinalityType
<1>7. T \in SUBSET (S \ {k})
  BY <1>2
<1>8. Cardinality(T) <= Cardinality(S \ {k})
  BY <1>6, <1>7, FS_Subset
<1> QED BY <1>5, <1>6, <1>8

\* The same elements as often have one order.
LEMMA OneOrder ==
  ASSUME NEW P, NEW L, IsTotal(L, P), NEW s \in Seq(P), NEW t \in Seq(P), Ordered(s, L), Ordered(t, L),
         \A x \in P : TimesIn(s, x) = TimesIn(t, x)
  PROVE  s = t
<1> DEFINE G == {k \in Nat : k <= Len(s) => k <= Len(t) /\ \A i \in 1..k : s[i] = t[i]}
<1>0. Len(s) \in Nat /\ Len(t) \in Nat
  OBVIOUS
<1>1. 0 \in G
  BY <1>0
<1>2. ASSUME NEW k \in Nat, k \in G PROVE k + 1 \in G
  <2> SUFFICES ASSUME k + 1 <= Len(s) PROVE k + 1 <= Len(t) /\ \A i \in 1..(k + 1) : s[i] = t[i]
    OBVIOUS
  <2> DEFINE m == k + 1
  <2>1. k <= Len(t) /\ \A i \in 1..k : s[i] = t[i]
    BY <1>0, <1>2
  <2>2. m \in 1..Len(s) /\ \A i \in 1..(m - 1) : i <= Len(t) /\ i <= Len(s) /\ s[i] = t[i] /\ t[i] = s[i]
    BY <1>0, <2>1
  <2>3. \A i \in 1..m : i \in 1..k \/ i = m
    OBVIOUS
  <2> HIDE DEF m
  <2>4. m <= Len(t) /\ <<s[m], t[m]>> \notin L
    BY <2>2, NotBehind
  <2>5. m \in 1..Len(t)
    BY <1>0, <2>2, <2>4
  <2>6. <<t[m], s[m]>> \notin L
    BY <2>2, <2>5, NotBehind
  <2>7. s[m] \in P /\ t[m] \in P
    BY <2>2, <2>5
  <2>8. s[m] = t[m]
    BY <2>4, <2>6, <2>7 DEF IsTotal
  <2> QED BY <2>1, <2>3, <2>4, <2>8 DEF m
<1>3. \A k \in Nat : k \in G
  <2> HIDE DEF G
  <2> QED BY <1>1, <1>2, ByNumber
<1>4. Len(s) <= Len(t) /\ \A i \in 1..Len(s) : s[i] = t[i]
  BY <1>0, <1>3
<1>5. Len(t) <= Len(s)
  <2> SUFFICES ASSUME Len(s) < Len(t) PROVE FALSE
    BY <1>0
  <2> DEFINE m == Len(s) + 1
  <2>1. m \in 1..Len(t) /\ m - 1 = Len(s) /\ ~(m <= Len(s))
    BY <1>0
  <2>2. \A i \in 1..(m - 1) : i <= Len(s) /\ t[i] = s[i]
    BY <1>0, <1>4, <2>1
  <2> HIDE DEF m
  <2>3. m <= Len(s)
    BY <2>1, <2>2, NotBehind
  <2> QED BY <2>1, <2>3
<1>6. Len(s) = Len(t)
  BY <1>0, <1>4, <1>5
<1> QED BY <1>4, <1>6

-----------------------------------------------------------------------------
(* Sequences joined at a sign *)

\* One sequence after another.
AfterOther(w, s, t) ==
  /\ Len(w) = Len(s) + Len(t) /\ Len(s) \in Nat /\ Len(t) \in Nat
  /\ \A i \in 1..Len(s) : w[i] = s[i]
  /\ \A i \in 1..Len(t) : w[Len(s) + i] = t[i]

LEMMA Concatenated ==
  ASSUME NEW A, NEW s \in Seq(A), NEW t \in Seq(A)
  PROVE  s \o t \in Seq(A) /\ AfterOther(s \o t, s, t)
BY DEF AfterOther

\* It does not matter which are joined first.
LEMMA Associates ==
  ASSUME NEW A, NEW h \in Seq(A), NEW a \in Seq(A), NEW e \in Seq(A), NEW b \in Seq(A)
  PROVE  ((h \o a) \o e) \o b = h \o ((a \o e) \o b) /\ ((h \o a) \o e) \o b \in Seq(A)
<1>1. ASSUME NEW x \in Seq(A), NEW y \in Seq(A), NEW z \in Seq(A)
      PROVE  (x \o y) \o z = x \o (y \o z) /\ x \o y \in Seq(A)
  OBVIOUS
<1>2. h \o a \in Seq(A) /\ a \o e \in Seq(A) /\ (h \o a) \o e = h \o (a \o e)
  BY <1>1
<1>3. (h \o (a \o e)) \o b = h \o ((a \o e) \o b) /\ h \o (a \o e) \in Seq(A)
  <2> DEFINE m == a \o e
  <2>1. m \in Seq(A)
    BY <1>2
  <2> HIDE DEF m
  <2>2. (h \o m) \o b = h \o (m \o b) /\ h \o m \in Seq(A)
    BY <1>1, <2>1
  <2> QED BY <2>2 DEF m
<1>4. (h \o (a \o e)) \o b \in Seq(A)
  <2> DEFINE m == h \o (a \o e)
  <2>1. m \in Seq(A)
    BY <1>3
  <2> HIDE DEF m
  <2>2. m \o b \in Seq(A)
    BY <1>1, <2>1
  <2> QED BY <2>2 DEF m
<1> QED BY <1>2, <1>3, <1>4

\* Two with a sign between them.
Around(w, s, sign, t) ==
  /\ Len(w) = Len(s) + 1 + Len(t) /\ w[Len(s) + 1] = sign
  /\ \A i \in 1..Len(s) : w[i] = s[i]
  /\ \A i \in 1..Len(t) : w[Len(s) + 1 + i] = t[i]

LEMMA JoinedAround ==
  ASSUME NEW A, NEW s \in Seq(A), NEW t \in Seq(A), NEW sign \in A
  PROVE  (s \o <<sign>>) \o t \in Seq(A) /\ Around((s \o <<sign>>) \o t, s, sign, t)
<1> DEFINE e == <<sign>>
           x == s \o e
           w == x \o t
<1>1. e \in Seq(A) /\ Len(e) = 1 /\ e[1] = sign
  OBVIOUS
<1> HIDE DEF e
<1>2. /\ x \in Seq(A) /\ Len(x) = Len(s) + 1 /\ Len(s) \in Nat /\ \A i \in 1..Len(s) : x[i] = s[i]
      /\ \A i \in 1..Len(e) : x[Len(s) + i] = e[i]
  <2>1. x \in Seq(A) /\ AfterOther(x, s, e)
    BY <1>1, Concatenated
  <2> HIDE DEF x
  <2> QED BY <1>1, <2>1 DEF AfterOther
<1> HIDE DEF x
<1>3. /\ w \in Seq(A) /\ Len(w) = Len(x) + Len(t) /\ Len(t) \in Nat /\ \A i \in 1..Len(x) : w[i] = x[i]
      /\ \A i \in 1..Len(t) : w[Len(x) + i] = t[i]
  <2>1. w \in Seq(A) /\ AfterOther(w, x, t)
    BY <1>2, Concatenated
  <2> HIDE DEF w
  <2> QED BY <2>1 DEF AfterOther
<1> HIDE DEF w
<1>4. Around(w, s, sign, t)
  <2>1. Len(w) = Len(s) + 1 + Len(t)
    BY <1>2, <1>3
  <2>2. w[Len(s) + 1] = sign
    <3>1. x[Len(s) + 1] = e[1] /\ Len(s) + 1 \in 1..Len(x)
      BY <1>1, <1>2
    <3> QED BY <1>1, <1>3, <3>1
  <2>3. \A i \in 1..Len(s) : w[i] = s[i]
    BY <1>2, <1>3
  <2>4. \A i \in 1..Len(t) : w[Len(s) + 1 + i] = t[i]
    BY <1>2, <1>3
  <2> QED BY <2>1, <2>2, <2>3, <2>4 DEF Around
<1> QED BY <1>3, <1>4 DEF w, x, e

\* A sign is not in a sequence.
Without(t, sign) == \A i \in 1..Len(t) : t[i] # sign

\* Where a sign stands last tells what is before and after it.
LEMMA SplitAtLast ==
  ASSUME NEW A, NEW w, NEW sign, NEW s \in Seq(A), NEW t \in Seq(A), NEW p \in Seq(A), NEW q \in Seq(A),
         Around(w, s, sign, t), Around(w, p, sign, q), Without(t, sign), Without(q, sign)
  PROVE  s = p /\ t = q
<1>1. Len(s) \in Nat /\ Len(t) \in Nat /\ Len(p) \in Nat /\ Len(q) \in Nat /\ Len(s) + 1 + Len(t) = Len(p) + 1 + Len(q)
  <2>1. Len(s) \in Nat /\ Len(t) \in Nat /\ Len(p) \in Nat /\ Len(q) \in Nat
    OBVIOUS
  <2> QED BY <2>1 DEF Around
<1>2. ~(Len(s) < Len(p))
  <2> SUFFICES ASSUME Len(s) < Len(p) PROVE FALSE
    OBVIOUS
  <2> DEFINE i == Len(p) - Len(s)
  <2>1. i \in 1..Len(t) /\ Len(s) + 1 + i = Len(p) + 1
    BY <1>1
  <2> HIDE DEF i
  <2>2. w[Len(s) + 1 + i] = t[i] /\ w[Len(p) + 1] = sign
    BY <2>1 DEF Around
  <2> QED BY <2>1, <2>2 DEF Without
<1>3. ~(Len(p) < Len(s))
  <2> SUFFICES ASSUME Len(p) < Len(s) PROVE FALSE
    OBVIOUS
  <2> DEFINE i == Len(s) - Len(p)
  <2>1. i \in 1..Len(q) /\ Len(p) + 1 + i = Len(s) + 1
    BY <1>1
  <2> HIDE DEF i
  <2>2. w[Len(p) + 1 + i] = q[i] /\ w[Len(s) + 1] = sign
    BY <2>1 DEF Around
  <2> QED BY <2>1, <2>2 DEF Without
<1>4. Len(s) = Len(p) /\ Len(t) = Len(q)
  BY <1>1, <1>2, <1>3
<1>5. (\A i \in 1..Len(s) : s[i] = p[i]) /\ (\A i \in 1..Len(t) : t[i] = q[i])
  BY <1>4 DEF Around
<1> QED BY <1>4, <1>5

-----------------------------------------------------------------------------
(* More of sequences *)

\* The set of a sequence with an element more.
LEMMA ToSetAppended ==
  ASSUME NEW A, NEW s \in Seq(A), NEW c \in A
  PROVE  ToSet(Append(s, c)) = ToSet(s) \cup {c}
<1>1. DOMAIN Append(s, c) = 1..(Len(s) + 1) /\ DOMAIN s = 1..Len(s) /\ Len(s) \in Nat
  OBVIOUS
<1>2. Append(s, c)[Len(s) + 1] = c /\ \A i \in 1..Len(s) : Append(s, c)[i] = s[i]
  BY Appended
<1>3. \A i \in 1..(Len(s) + 1) : i \in 1..Len(s) \/ i = Len(s) + 1
  BY <1>1
<1>4. Len(s) + 1 \in 1..(Len(s) + 1) /\ \A i \in 1..Len(s) : i \in 1..(Len(s) + 1)
  BY <1>1
<1> QED BY <1>1, <1>2, <1>3, <1>4 DEF ToSet

\* The last of what is held is the last of the sequence.
LEMMA TheLast ==
  ASSUME NEW A, NEW s \in Seq(A), s # <<>>
  PROVE  Len(s) \in DOMAIN s /\ Len(s) \in Nat /\ Last(s) = s[Len(s)] /\ Last(s) \in A
<1>1. Len(s) \in DOMAIN s /\ Len(s) \in Nat /\ s[Len(s)] \in A
  OBVIOUS
<1>2. Last(s) = s[Len(s)]
  BY DEF Last
<1> QED BY <1>1, <1>2

\* A prefix grows by one.
LEMMA PrefixGrows ==
  ASSUME NEW S, NEW s \in Seq(S), NEW t \in Seq(S), NEW k \in Nat, k + 1 <= Len(t)
  PROVE  /\ s \o SubSeq(t, 1, k) \in Seq(S)
         /\ s \o SubSeq(t, 1, k + 1) = Append(s \o SubSeq(t, 1, k), t[k + 1])
<1> DEFINE a == SubSeq(t, 1, k)
           b == SubSeq(t, 1, k + 1)
<1>1. a \in Seq(S) /\ Len(a) = k /\ \A i \in 1..k : a[i] = t[i]
  OBVIOUS
<1>2. b \in Seq(S) /\ Len(b) = k + 1 /\ \A i \in 1..(k + 1) : b[i] = t[i]
  OBVIOUS
<1> HIDE DEF a, b
<1>3. s \o a \in Seq(S) /\ Len(s \o a) = Len(s) + k
  <2>1. a \in Seq(S)
    BY <1>1
  <2>2. s \o a \in Seq(S)
    BY <2>1
  <2>3. Len(s \o a) = Len(s) + Len(a)
    BY <2>1
  <2> QED BY <1>1, <2>2, <2>3
<1>4. DOMAIN (s \o b) = 1..(Len(s) + k + 1) /\ DOMAIN Append(s \o a, t[k + 1]) = 1..(Len(s) + k + 1)
  BY <1>1, <1>2
<1>5. ASSUME NEW i \in 1..(Len(s) + k + 1) PROVE (s \o b)[i] = Append(s \o a, t[k + 1])[i]
  <2>1. CASE i <= Len(s)
    BY <1>1, <1>2, <2>1
  <2>2. CASE Len(s) < i /\ i <= Len(s) + k
    <3>1. i - Len(s) \in 1..k /\ i - Len(s) \in 1..(k + 1)
      BY <2>2
    <3>2. (s \o b)[i] = t[i - Len(s)] /\ (s \o a)[i] = t[i - Len(s)]
      BY <1>1, <1>2, <2>2, <3>1
    <3>3. Append(s \o a, t[k + 1])[i] = (s \o a)[i]
      BY <1>1, <2>2
    <3> QED BY <3>2, <3>3
  <2>3. CASE i = Len(s) + k + 1
    <3>1. i - Len(s) = k + 1 /\ k + 1 \in 1..(k + 1)
      BY <2>3
    <3>2. (s \o b)[i] = t[k + 1]
      BY <1>2, <2>3, <3>1
    <3>3. Append(s \o a, t[k + 1])[i] = t[k + 1]
      BY <1>3, <2>3
    <3> QED BY <3>2, <3>3
  <2>4. Len(s) \in Nat
    OBVIOUS
  <2>5. i <= Len(s) \/ (Len(s) < i /\ i <= Len(s) + k) \/ i = Len(s) + k + 1
    BY <2>4
  <2> QED BY <2>1, <2>2, <2>3, <2>5
<1>6. s \o b \in Seq(S) /\ s \o a \in Seq(S) /\ t[k + 1] \in S
  BY <1>1, <1>2
<1>7. Append(s \o a, t[k + 1]) \in Seq(S)
  BY <1>6
<1> HIDE DEF a, b
<1>8. s \o b = Append(s \o a, t[k + 1])
  BY <1>4, <1>5, <1>6, <1>7
<1> QED BY <1>6, <1>8 DEF a, b

\* A sequence of some is a sequence of more.
LEMMA SeqOfMore ==
  ASSUME NEW S, NEW T, S \subseteq T, NEW s \in Seq(S)
  PROVE  s \in Seq(T)
OBVIOUS

\* The places where a sequence has one of some elements.
PlacesAmong(s, P) == {i \in DOMAIN s : s[i] \in P}

\* They are finitely many, and one more where one is appended.
LEMMA PlacesAppended ==
  ASSUME NEW T, NEW s \in Seq(T), NEW x \in T, NEW P
  PROVE  /\ Cardinality(PlacesAmong(s, P)) \in Nat
         /\ Cardinality(PlacesAmong(Append(s, x), P)) = Cardinality(PlacesAmong(s, P)) + (IF x \in P THEN 1 ELSE 0)
<1> DEFINE n == Len(s)
           S == PlacesAmong(s, P)
           A == PlacesAmong(Append(s, x), P)
<1>1. n \in Nat /\ DOMAIN s = 1..n /\ DOMAIN Append(s, x) = 1..(n + 1)
  OBVIOUS
<1>2. Append(s, x)[n + 1] = x /\ \A i \in 1..n : Append(s, x)[i] = s[i]
  BY Appended
<1>3. S \in SUBSET (1..n) /\ n + 1 \notin 1..n /\ \A i \in 1..(n + 1) : i \in 1..n \/ i = n + 1
  BY <1>1 DEF PlacesAmong
<1>4. n + 1 \in 1..(n + 1) /\ \A i \in 1..n : i \in 1..(n + 1)
  BY <1>1
<1>5. A = IF x \in P THEN S \cup {n + 1} ELSE S
  BY <1>1, <1>2, <1>3, <1>4 DEF PlacesAmong
<1>6. IsFiniteSet(S)
  <2>1. IsFiniteSet(1..n)
    BY <1>1, FS_Interval
  <2> QED BY <1>3, <2>1, FS_Subset
<1> HIDE DEF n, S, A
<1>7. Cardinality(S) \in Nat
  BY <1>6, FS_CardinalityType
<1>8. n + 1 \notin S
  BY <1>3
<1>9. Cardinality(S \cup {n + 1}) = Cardinality(S) + 1
  BY <1>6, <1>8, FS_AddElement
<1> QED BY <1>5, <1>7, <1>9 DEF S, A

\* A part of the places is no more.
LEMMA PlacesOfPart ==
  ASSUME NEW T, NEW s \in Seq(T), NEW P, NEW Q, P \subseteq Q
  PROVE  Cardinality(PlacesAmong(s, P)) <= Cardinality(PlacesAmong(s, Q)) /\ Cardinality(PlacesAmong(s, P)) \in Nat
           /\ Cardinality(PlacesAmong(s, Q)) \in Nat
<1>1. PlacesAmong(s, P) \subseteq PlacesAmong(s, Q) /\ PlacesAmong(s, Q) \subseteq 1..Len(s) /\ Len(s) \in Nat
  BY DEF PlacesAmong
<1>2. IsFiniteSet(PlacesAmong(s, Q))
  <2>1. IsFiniteSet(1..Len(s))
    BY <1>1, FS_Interval
  <2> QED BY <1>1, <2>1, FS_Subset
<1> QED BY <1>1, <1>2, FS_Subset, FS_CardinalityType

\* That a function takes each of the first k nodes to those above it.
Rises(g, up, k) == \A i \in 1..k : g[i] = IF up[i] = 0 THEN {} ELSE {up[i]} \cup g[up[i]]

\* There is a function that takes every node to those above it.
LEMMA AboveExists ==
  ASSUME NEW n \in Nat, NEW up, \A i \in 1..n : up[i] \in 0..(i - 1)
  PROVE  \E g \in [1..n -> SUBSET Nat] : Rises(g, up, n)
<1> DEFINE G == {k \in Nat : k <= n => \E g \in [1..k -> SUBSET Nat] : Rises(g, up, k)}
<1>1. 0 \in G
  <2>1. [i \in 1..0 |-> {}] \in [1..0 -> SUBSET Nat] /\ Rises([i \in 1..0 |-> {}], up, 0)
    BY DEF Rises
  <2> QED BY <2>1
<1>2. ASSUME NEW k \in Nat, k \in G PROVE k + 1 \in G
  <2> SUFFICES ASSUME k + 1 <= n PROVE \E g \in [1..(k + 1) -> SUBSET Nat] : Rises(g, up, k + 1)
    OBVIOUS
  <2>1. PICK g \in [1..k -> SUBSET Nat] : Rises(g, up, k)
    BY <1>2
  <2> DEFINE more == IF up[k + 1] = 0 THEN {} ELSE {up[k + 1]} \cup g[up[k + 1]]
             h == [i \in 1..(k + 1) |-> IF i = k + 1 THEN more ELSE g[i]]
  <2>2. up[k + 1] \in 0..k /\ k + 1 \in 1..n
    OBVIOUS
  <2>3. more \in SUBSET Nat
    BY <2>1, <2>2
  <2>4. \A i \in 1..(k + 1) : i = k + 1 \/ i \in 1..k
    OBVIOUS
  <2>5. \A i \in 1..k : i # k + 1 /\ i \in 1..(k + 1)
    OBVIOUS
  <2> HIDE DEF more
  <2>6. h \in [1..(k + 1) -> SUBSET Nat] /\ h[k + 1] = more /\ \A i \in 1..k : h[i] = g[i]
    BY <2>3, <2>4, <2>5
  <2>7. \A i \in 1..(k + 1) : up[i] # 0 => up[i] \in 1..k
    OBVIOUS
  <2> HIDE DEF h
  <2>8. Rises(h, up, k + 1)
    <3> SUFFICES ASSUME NEW i \in 1..(k + 1) PROVE h[i] = IF up[i] = 0 THEN {} ELSE {up[i]} \cup h[up[i]]
      BY DEF Rises
    <3>1. up[i] # 0 => h[up[i]] = g[up[i]]
      BY <2>6, <2>7
    <3>2. CASE i = k + 1
      BY <2>6, <3>1, <3>2 DEF more
    <3>3. CASE i \in 1..k
      BY <2>1, <2>6, <3>1, <3>3 DEF Rises
    <3> QED BY <2>4, <3>2, <3>3
  <2> QED BY <2>6, <2>8
<1>3. n \in G
  <2> HIDE DEF G
  <2> QED BY <1>1, <1>2, ByNumber
<1> QED BY <1>3

-----------------------------------------------------------------------------
(* Sums of weights, and sums along a sequence *)

\* Weights of the first n places: each less than the one before, none nothing.
Weights(D, n) == \A i \in 1..n : D[i] \in Nat /\ D[i] > 0 /\ \A j \in 1..n : i < j => D[i] > D[j]

\* A set is counted by a one for each that is in it.
LEMMA Counted ==
  ASSUME NEW S, IsFiniteSet(S), NEW X \in SUBSET S, NEW k, \A i \in S : k[i] = IF i \in X THEN 1 ELSE 0
  PROVE  SumOf(k, S) = Cardinality(X)
<1> DEFINE unit == 1
           one == [i \in S |-> unit]
<1>1. IsFiniteSet(X) /\ unit \in Int /\ \A i \in X : one[i] = unit
  BY FS_Subset
<1>2. Restricts(k, S, one, X)
  BY DEF Restricts
<1>3. SumOf(one, X) = Cardinality(X) * unit
  <2> HIDE DEF one, unit
  <2> QED BY <1>1, SumConst
<1>4. SumOf(k, S) = SumOf(one, X)
  <2> HIDE DEF one, unit
  <2> QED BY <1>2, Restricted
<1>5. Cardinality(X) \in Nat
  BY <1>1, FS_CardinalityType
<1> QED BY <1>3, <1>4, <1>5

\* Nothing weighs as much as the first places but they.
LEMMA FirstWeighMost ==
  ASSUME NEW n \in Nat, NEW D, Weights(D, n), NEW X \in SUBSET (1..n), NEW c \in 0..n, Cardinality(X) <= c
  PROVE  /\ SumOf(D, X) \in Int /\ SumOf(D, 1..c) \in Int /\ SumOf(D, X) <= SumOf(D, 1..c)
         /\ SumOf(D, X) = SumOf(D, 1..c) => X = 1..c
<1> DEFINE S == 1..n
           F == 1..c
           m == IF c = 0 THEN 0 ELSE D[c]
           a == [i \in S |-> IF i \in X THEN D[i] ELSE 0]
           b == [i \in S |-> IF i \in F THEN D[i] ELSE 0]
           k == [i \in S |-> IF i \in X THEN 1 ELSE 0]
           l == [i \in S |-> IF i \in F THEN 1 ELSE 0]
           p == [i \in S |-> 1 * a[i] + (-m) * k[i]]
           q == [i \in S |-> 1 * b[i] + (-m) * l[i]]
           d == [i \in S |-> 1 * q[i] + (-1) * p[i]]
<1>1. IsFiniteSet(S) /\ F \in SUBSET S /\ X \in SUBSET S /\ IsFiniteSet(X) /\ IsFiniteSet(F) /\ Cardinality(F) = c
  <2>1. IsFiniteSet(S) /\ IsFiniteSet(F) /\ F \in SUBSET S /\ X \in SUBSET S
    BY FS_Interval
  <2>2. IsFiniteSet(X)
    BY <2>1, FS_Subset
  <2>3. Cardinality(F) = c
    BY FS_Interval
  <2> QED BY <2>1, <2>2, <2>3
<1>2. m \in Nat /\ (c > 0 => m > 0) /\ \A i \in S : D[i] \in Int /\ D[i] > 0
  BY DEF Weights
<1>3. Cardinality(X) \in Nat /\ c \in Nat
  BY <1>1, FS_CardinalityType
<1>4. \A i \in S : /\ a[i] \in Int /\ b[i] \in Int /\ k[i] \in Int /\ l[i] \in Int
                   /\ p[i] \in Int /\ q[i] \in Int
  BY <1>2
<1>5. SumOf(a, S) = SumOf(D, X) /\ SumOf(b, S) = SumOf(D, F)
  <2> HIDE DEF S, F
  <2> QED BY <1>1, <1>2, SumOverPart
<1>6. SumOf(k, S) = Cardinality(X) /\ SumOf(l, S) = Cardinality(F)
  <2>1. \A i \in S : k[i] = IF i \in X THEN 1 ELSE 0
    OBVIOUS
  <2>2. \A i \in S : l[i] = IF i \in F THEN 1 ELSE 0
    OBVIOUS
  <2> HIDE DEF S, F, k, l
  <2>3. SumOf(k, S) = Cardinality(X)
    BY <1>1, <2>1, Counted
  <2>4. SumOf(l, S) = Cardinality(F)
    BY <1>1, <2>2, Counted
  <2> QED BY <2>3, <2>4
<1>8. SumOf(p, S) = 1 * SumOf(a, S) + (-m) * SumOf(k, S) /\ SumOf(q, S) = 1 * SumOf(b, S) + (-m) * SumOf(l, S)
  <2>1. Combines(p, S, 1, a, -m, k) /\ Combines(q, S, 1, b, -m, l)
    <3>1. -m \in Int
      BY <1>2
    <3>2. \A i \in S : p[i] = 1 * a[i] + (-m) * k[i] /\ q[i] = 1 * b[i] + (-m) * l[i]
      OBVIOUS
    <3> HIDE DEF a, b, k, l, p, q, m, S
    <3> QED BY <1>4, <3>1, <3>2 DEF Combines
  <2> HIDE DEF S, a, b, k, l, p, q, m
  <2>2. SumOf(p, S) = 1 * SumOf(a, S) + (-m) * SumOf(k, S)
    BY <1>1, <2>1, Combined
  <2>3. SumOf(q, S) = 1 * SumOf(b, S) + (-m) * SumOf(l, S)
    BY <1>1, <2>1, Combined
  <2> QED BY <2>2, <2>3
<1>9. SumOf(d, S) = 1 * SumOf(q, S) + (-1) * SumOf(p, S)
  <2>1. Combines(d, S, 1, q, -1, p)
    <3>1. \A i \in S : d[i] = 1 * q[i] + (-1) * p[i]
      OBVIOUS
    <3> HIDE DEF p, q, d, S
    <3> QED BY <1>4, <3>1 DEF Combines
  <2> HIDE DEF S, p, q, d
  <2> QED BY <1>1, <2>1, Combined
<1>10. \A i \in S : d[i] \in Nat /\ (i \in X /\ i \notin F => d[i] > 0)
  <2> SUFFICES ASSUME NEW i \in S PROVE d[i] \in Nat /\ (i \in X /\ i \notin F => d[i] > 0)
    OBVIOUS
  <2>1. d[i] = q[i] - p[i]
    BY <1>4
  <2>2. CASE i \in F
    <3>1. D[i] >= m /\ D[i] \in Int
      BY <2>2 DEF Weights
    <3>2. q[i] = D[i] - m
      BY <1>2, <2>2, <3>1
    <3>3. p[i] = IF i \in X THEN D[i] - m ELSE 0
      BY <1>2, <3>1
    <3> HIDE DEF d, p, q, m, F
    <3> QED BY <1>2, <2>1, <2>2, <3>1, <3>2, <3>3
  <2>3. CASE i \notin F
    <3>1. D[i] < m \/ c = 0
      BY <2>3 DEF Weights
    <3>2. q[i] = 0
      BY <1>2, <2>3
    <3>3. p[i] = IF i \in X THEN D[i] - m ELSE 0
      BY <1>2
    <3>4. c = 0 => X = {}
      BY <1>1, <1>3, FS_EmptySet
    <3>5. D[i] \in Int
      BY <1>2
    <3> HIDE DEF d, p, q, m, F
    <3> QED BY <1>2, <2>1, <2>3, <3>1, <3>2, <3>3, <3>4, <3>5
  <2> QED BY <2>2, <2>3
<1>11. SumOf(d, S) \in Nat /\ (SumOf(d, S) > 0 <=> \E i \in S : d[i] > 0)
  <2>1. \A i \in S : d[i] \in Nat
    BY <1>10
  <2> HIDE DEF S, d
  <2> QED BY <1>1, <2>1, SumPositive
<1>12. SumOf(D, X) \in Int /\ SumOf(D, F) \in Int
  <2>1. \A i \in X : D[i] \in Int
    BY <1>1, <1>2
  <2>2. \A i \in F : D[i] \in Int
    BY <1>1, <1>2
  <2> HIDE DEF F
  <2> QED BY <1>1, <2>1, <2>2, SumLaws
<1> DEFINE x == SumOf(D, X)
           y == SumOf(D, F)
           z == Cardinality(X)
<1>13. SumOf(d, S) = (y - m * c) - (x - m * z)
  <2>1. SumOf(k, S) = z /\ SumOf(l, S) = c
    BY <1>1, <1>3, <1>6
  <2>2. SumOf(a, S) = x /\ SumOf(b, S) = y
    BY <1>5
  <2>3. x \in Int /\ y \in Int /\ z \in Int /\ c \in Int /\ m \in Int
    BY <1>2, <1>3, <1>12
  <2> HIDE DEF x, y, z, m, a, b, k, l, p, q, d, S
  <2>4. SumOf(p, S) = 1 * x + (-m) * z /\ SumOf(q, S) = 1 * y + (-m) * c
    BY <1>8, <2>1, <2>2
  <2>5. SumOf(p, S) = x - m * z /\ SumOf(q, S) = y - m * c
    BY <2>3, <2>4
  <2> QED BY <1>9, <2>3, <2>5
<1>14. m * z <= m * c /\ (z < c => m * z < m * c) /\ m * z \in Int /\ m * c \in Int
  <2>1. m \in Nat /\ z \in Nat /\ c \in Nat /\ z <= c /\ (c > 0 => m > 0)
    BY <1>2, <1>3
  <2> HIDE DEF m, z
  <2> QED BY <2>1
<1>15. x <= y /\ (x = y => z = c /\ ~ SumOf(d, S) > 0)
  <2>1. x \in Int /\ y \in Int /\ z \in Int /\ c \in Int /\ z <= c
    BY <1>3, <1>12
  <2>2. SumOf(d, S) \in Nat
    BY <1>11
  <2> HIDE DEF x, y, z, m, d, S
  <2> QED BY <1>13, <1>14, <2>1, <2>2
<1>16. x = y => X = F
  <2> SUFFICES ASSUME x = y PROVE X = F
    OBVIOUS
  <2>1. z = c /\ \A i \in S : ~ d[i] > 0
    BY <1>11, <1>15
  <2>2. X \subseteq F
    <3> HIDE DEF d, F
    <3> QED BY <1>1, <1>10, <2>1
  <2> HIDE DEF F
  <2> QED BY <1>1, <2>1, <2>2, FS_Subset
<1> QED BY <1>12, <1>15, <1>16

\* A sum along places, the last added to that of those before.
IsSumAlong(g, n, e) == g = [s \in SUBSET (1..n) |-> IF s = {} THEN 0 ELSE g[s \ {Max(s)}] + e[Max(s)]]

\* It is the sum, whatever the order.
LEMMA SumAlong ==
  ASSUME NEW n \in Nat, NEW e, \A i \in 1..n : e[i] \in Int
  PROVE  (CHOOSE g : IsSumAlong(g, n, e))[1..n] = SumOf(e, 1..n)
<1> DEFINE S == 1..n
           h == [s \in SUBSET S |-> SumOf(e, s)]
           u == CHOOSE g : IsSumAlong(g, n, e)
           G == {s \in SUBSET S : u[s] = SumOf(e, s)}
<1>1. IsFiniteSet(S) /\ S \in SUBSET S /\ \A i \in S : e[i] \in Int
  BY FS_Interval
<1>2. \A s \in SUBSET S : s # {} => Max(s) \in s
  BY TakesLast
<1>3. SumOf(e, {}) = 0 /\ \A s \in SUBSET S : SumOf(e, s) \in Int /\ \A x \in s : SumOf(e, s) = e[x] + SumOf(e, s \ {x})
  <2> HIDE DEF S
  <2>1. HasSums(e, S)
    BY <1>1, SumParts
  <2>2. SumOf(e, {}) = 0
    BY <1>1, SumSteps
  <2> QED BY <2>1, <2>2 DEF HasSums
<1>4. ASSUME NEW s \in SUBSET S, s # {} PROVE SumOf(e, s) = SumOf(e, s \ {Max(s)}) + e[Max(s)]
  <2> DEFINE x == Max(s)
  <2>1. x \in s
    BY <1>2, <1>4
  <2> HIDE DEF x
  <2>2. SumOf(e, s) = e[x] + SumOf(e, s \ {x}) /\ s \ {x} \in SUBSET S /\ e[x] \in Int
    BY <1>3, <2>1
  <2>3. SumOf(e, s \ {x}) \in Int
    BY <1>3, <2>2
  <2>4. SumOf(e, s) = SumOf(e, s \ {x}) + e[x]
    BY <2>2, <2>3
  <2> QED BY <2>4 DEF x
<1>5. IsSumAlong(h, n, e)
  <2>1. ASSUME NEW s \in SUBSET S PROVE h[s] = IF s = {} THEN 0 ELSE h[s \ {Max(s)}] + e[Max(s)]
    <3>1. s \ {Max(s)} \in SUBSET S
      OBVIOUS
    <3>2. h[s] = SumOf(e, s) /\ h[s \ {Max(s)}] = SumOf(e, s \ {Max(s)})
      BY <3>1
    <3> HIDE DEF h
    <3> QED BY <1>3, <1>4, <3>2
  <2>2. h = [s \in SUBSET S |-> h[s]]
    OBVIOUS
  <2> HIDE DEF h
  <2> QED BY <2>1, <2>2 DEF IsSumAlong
<1>6. IsSumAlong(u, n, e)
  <2> HIDE DEF h
  <2> QED BY <1>5
<1> HIDE DEF u
<1>7. \A s \in SUBSET S : u[s] = IF s = {} THEN 0 ELSE u[s \ {Max(s)}] + e[Max(s)]
  BY <1>6 DEF IsSumAlong
<1>8. ASSUME NEW s \in SUBSET S, \A r \in SUBSET s : r # s => r \in G PROVE s \in G
  <2>1. CASE s = {}
    BY <1>3, <1>7, <2>1
  <2>2. CASE s # {}
    <3>1. s \ {Max(s)} \in SUBSET s /\ s \ {Max(s)} # s
      BY <1>2, <2>2
    <3>2. u[s \ {Max(s)}] = SumOf(e, s \ {Max(s)})
      BY <1>8, <3>1
    <3>3. u[s] = u[s \ {Max(s)}] + e[Max(s)]
      BY <1>7, <2>2
    <3> QED BY <1>4, <2>2, <3>2, <3>3
  <2> QED BY <2>1, <2>2
<1>9. \A s \in SUBSET S : s \in G
  <2> HIDE DEF G
  <2>1. \A s \in SUBSET S : (\A r \in SUBSET s : r # s => r \in G) => s \in G
    BY <1>8, Zenon
  <2>2. IsFiniteSet(S)
    BY <1>1
  <2> HIDE DEF S
  <2> QED BY <2>1, <2>2, BySubset
<1> QED BY <1>1, <1>9 DEF u

\* What two terms come to, one after the other.
LEMMA TwoTerms ==
  ASSUME NEW terms \in [1..2 -> Nat]
  PROVE  FoldLeft(LAMBDA sum, term : sum + term, 0, terms) \in Nat
<1> DEFINE n == 2
           base == 0
           States == Nat
           step == [i \in 1..n |-> [x \in States |-> x + terms[i]]]
           Is(g) == g = [s \in SUBSET (DOMAIN terms) |-> IF s = {} THEN base ELSE g[s \ {Max(s)}] + terms[Max(s)]]
           u == CHOOSE g : Is(g)
           f == [s \in SUBSET (1..n) |-> u[s \ {Max(s)}] + terms[Max(s)]]
<1>1. DOMAIN terms = 1..n
  OBVIOUS
<1>2. FoldLeft(LAMBDA sum, term : sum + term, 0, terms) = u[1..n]
  BY <1>1 DEF FoldLeft, MapThenFoldSet
<1>3. step \in [1..n -> [States -> States]] /\ \A i \in 1..n, x \in States : step[i][x] = x + terms[i]
  OBVIOUS
<1>0. n \in Nat /\ base \in States
  OBVIOUS
<1> HIDE DEF step, n, base, States
<1>4. \A s \in SUBSET (1..n) : s # {} => Max(s) \in 1..n
  BY <1>0, TakesLast
<1>5. Is(u)
  <2>1. PICK g \in [SUBSET (1..n) -> States] : IsLeftFold(g, n, base, step)
    BY <1>0, <1>3, LeftFoldExists
  <2>2. \A s \in SUBSET (1..n) : s # {} => g[s \ {Max(s)}] \in States
    OBVIOUS
  <2>3. Is(g)
    BY <1>1, <1>3, <1>4, <2>1, <2>2 DEF IsLeftFold
  <2> QED BY <2>3
<1>6. ComesTo(u, f, n, base)
  BY <1>1, <1>5 DEF ComesTo
<1>7. StepsOn(u, f, n, States, step)
  <2>1. \A s \in SUBSET (1..n) : f[s] = u[s \ {Max(s)}] + terms[Max(s)]
    OBVIOUS
  <2> HIDE DEF u, f
  <2>2. ASSUME NEW s \in SUBSET (1..n), s # {}, u[s \ {Max(s)}] \in States
        PROVE  f[s] = step[Max(s)][u[s \ {Max(s)}]]
    BY <1>3, <1>4, <2>1, <2>2
  <2> QED BY <2>2, Zenon DEF StepsOn
<1> HIDE DEF u, f, Is
<1>8. PICK v \in [0..n -> States] : v[n] = u[1..n]
  <2>1. \E v \in [0..n -> States] : IsWalk(v, n, base, step) /\ v[n] = u[1..n]
    <3>1. n \in Nat /\ base \in States /\ step \in [1..n -> [States -> States]]
      BY <1>0, <1>3
    <3> QED BY <1>6, <1>7, <3>1, LeftFoldWalks
  <2> QED BY <2>1
<1>9. u[1..n] \in States
  <2>1. v[n] \in States
    BY <1>0
  <2> QED BY <1>8, <2>1
<1> QED BY <1>2, <1>9 DEF States

-----------------------------------------------------------------------------
(* Quotients, rounded down *)

\* What a number is divided into.
LEMMA QuotientIs ==
  ASSUME NEW a \in Nat, NEW b \in Nat \ {0}
  PROVE  a \div b \in Nat /\ b * (a \div b) <= a /\ a < b * (a \div b + 1)
<1> DEFINE q == a \div b
<1>1. q \in Int /\ 0 <= a - b * q /\ a - b * q < b
  OBVIOUS
<1>2. q >= 0
  OBVIOUS
<1> HIDE DEF q
<1>3. b * (q + 1) = b * q + b /\ b * q \in Int
  BY <1>1
<1> QED BY <1>1, <1>2, <1>3 DEF q

\* A product of no less is no less.
LEMMA TimesMono ==
  ASSUME NEW a \in Int, NEW b \in Int, a <= b, NEW c \in Nat
  PROVE  a * c <= b * c /\ c * a <= c * b
OBVIOUS

\* A quotient rounds down, and a fraction that is no less rounds to no less.
LEMMA QuotientMono ==
  ASSUME NEW a \in Nat, NEW b \in Nat \ {0}, NEW c \in Nat, NEW d \in Nat \ {0}, a * d <= c * b
  PROVE  a \div b <= c \div d
<1> DEFINE q == a \div b
           p == c \div d
<1>1. q \in Nat /\ b * q <= a /\ p \in Nat /\ c < d * (p + 1)
  BY QuotientIs
<1> HIDE DEF q, p
<1> SUFFICES ASSUME p + 1 <= q PROVE FALSE
  BY <1>1 DEF q, p
<1>2. d * (p + 1) <= d * q /\ d * q \in Nat
  BY <1>1, TimesMono
<1>3. c < d * q
  <2> DEFINE x == d * q
             y == d * (p + 1)
  <2>1. x \in Nat /\ y \in Nat /\ y <= x /\ c < y
    BY <1>1, <1>2
  <2> HIDE DEF x, y
  <2>2. c < x
    BY <2>1
  <2> QED BY <2>2 DEF x
<1>4. c * b < (d * q) * b
  <2> DEFINE x == d * q
  <2>1. x \in Nat /\ c < x
    BY <1>2, <1>3
  <2> HIDE DEF x
  <2>2. c * b < x * b
    BY <2>1
  <2> QED BY <2>2 DEF x
<1>5. (b * q) * d <= a * d /\ b * q \in Nat
  <2>1. b * q \in Nat
    BY <1>1
  <2> QED BY <1>1, <2>1, TimesMono
<1>6. (d * q) * b = (b * q) * d
  BY <1>1
<1> DEFINE u == c * b
           v == a * d
           w == (b * q) * d
<1>7. u \in Nat /\ v \in Nat /\ w \in Nat /\ u < w /\ w <= v /\ v <= u
  BY <1>1, <1>4, <1>5, <1>6
<1> HIDE DEF u, v, w
<1> QED BY <1>7

\* What saturates grows with what it is made of, and stays below its bound.
LEMMA Saturates ==
  ASSUME NEW worth \in Nat, NEW k \in Nat \ {0}, NEW p \in Nat, NEW q \in Nat, p <= q
  PROVE  /\ (worth * p) \div (k + p) \in Nat
         /\ (worth * p) \div (k + p) <= (worth * q) \div (k + q)
         /\ worth > 0 => (worth * p) \div (k + p) < worth
<1>1. worth * p \in Nat /\ worth * q \in Nat /\ k + p \in Nat \ {0} /\ k + q \in Nat \ {0}
  OBVIOUS
<1>2. (worth * p) * (k + q) <= (worth * q) * (k + p)
  <2>1. p * k <= q * k
    BY TimesMono
  <2>2. p * (k + q) = p * k + p * q /\ q * (k + p) = q * k + p * q
    OBVIOUS
  <2>3. p * (k + q) <= q * (k + p) /\ p * (k + q) \in Int /\ q * (k + p) \in Int
    BY <2>1, <2>2
  <2>4. worth * (p * (k + q)) <= worth * (q * (k + p))
    BY <2>3, TimesMono
  <2> QED BY <2>4
<1>3. (worth * p) \div (k + p) <= (worth * q) \div (k + q)
  BY <1>1, <1>2, QuotientMono
<1>4. ASSUME worth > 0 PROVE (worth * p) \div (k + p) < worth
  <2> DEFINE r == (worth * p) \div (k + p)
  <2>1. r \in Nat /\ (k + p) * r <= worth * p
    BY <1>1, QuotientIs
  <2> HIDE DEF r
  <2> SUFFICES ASSUME worth <= r PROVE FALSE
    BY <2>1 DEF r
  <2>2. (k + p) * worth <= (k + p) * r
    BY <2>1, TimesMono
  <2>3. (k + p) * worth = k * worth + worth * p /\ k * worth > 0
    BY <1>4
  <2> DEFINE x == k * worth
             y == worth * p
             z == (k + p) * r
  <2>4. x \in Nat /\ x > 0 /\ y \in Nat /\ z \in Nat /\ z <= y /\ x + y <= z
    BY <2>1, <2>2, <2>3
  <2> HIDE DEF x, y, z
  <2> QED BY <2>4
<1>5. (worth * p) \div (k + p) \in Nat
  BY <1>1, QuotientIs
<1> QED BY <1>3, <1>4, <1>5

=============================================================================
