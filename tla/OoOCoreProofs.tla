--------------------------- MODULE OoOCoreProofs ---------------------------
(***************************************************************************)
(* Proofs about OoOCore, for any program, configuration, control plan and  *)
(* thermal history.                                                        *)
(***************************************************************************)
EXTENDS OoOCore, FiniteSetTheorems, SequenceTheorems, WellFoundedInduction, TLAPS

-----------------------------------------------------------------------------
(* Least and greatest numbers.                                             *)

LEMMA LeastNatural ==
  ASSUME NEW S \in SUBSET Nat, S # {}
  PROVE  \E n \in S : \A m \in S : n <= m
<1>1. PICK n \in S : \A m \in S : ~(<<m, n>> \in OpToRel(<, Nat))
  BY NatLessThanWellFounded, WFMin
<1>2. \A m \in S : ~(m < n)
  BY <1>1 DEF OpToRel
<1> QED BY <1>2

LEMMA MinOfNaturals ==
  ASSUME NEW S \in SUBSET Nat, S # {}
  PROVE  Min(S) \in S /\ \A m \in S : Min(S) <= m
  BY LeastNatural DEF Min

LEMMA MaxOfBounded ==
  ASSUME NEW n \in Nat, NEW S \in SUBSET (0 .. n), S # {}
  PROVE  Max(S) \in S /\ \A m \in S : m <= Max(S)
<1> DEFINE T == {n - m : m \in S}
<1>1. T \in SUBSET Nat /\ T # {}
  <2>1. \A m \in S : n - m \in Nat
    OBVIOUS
  <2> QED BY <2>1
<1>2. PICK k \in T : \A m \in T : k <= m
  BY <1>1, LeastNatural
<1>3. PICK x \in S : k = n - x
  BY <1>2
<1>4. \A m \in S : n - x <= n - m
  BY <1>2, <1>3
<1>5. \A m \in S : x >= m
  BY <1>3, <1>4
<1> QED BY <1>3, <1>5 DEF Max

-----------------------------------------------------------------------------
(* Lists in ascending order, and the parts of a list.                      *)

UpTo(S, x) == {y \in S : y <= x}

\* Every one of n numbers has its rank, and every rank its number.
LEMMA Ranks ==
  ASSUME NEW S \in SUBSET Int, IsFiniteSet(S)
  PROVE  /\ Cardinality(S) \in Nat
         /\ \A x \in S : Cardinality(UpTo(S, x)) \in 1 .. Cardinality(S)
         /\ \A x, y \in S : x < y => Cardinality(UpTo(S, x)) < Cardinality(UpTo(S, y))
         /\ \A n \in 1 .. Cardinality(S) : \E x \in S : Cardinality(UpTo(S, x)) = n
<1> DEFINE n == Cardinality(S)
           f == [x \in S |-> Cardinality(UpTo(S, x))]
<1>1. n \in Nat
  BY FS_CardinalityType
<1>2. ASSUME NEW x \in S PROVE IsFiniteSet(UpTo(S, x)) /\ Cardinality(UpTo(S, x)) \in 1 .. n
  <2>1. UpTo(S, x) \in SUBSET S /\ x \in UpTo(S, x)
    BY DEF UpTo
  <2>2. IsFiniteSet(UpTo(S, x)) /\ Cardinality(UpTo(S, x)) <= n
    BY <2>1, FS_Subset
  <2>3. Cardinality(UpTo(S, x)) \in Nat /\ Cardinality(UpTo(S, x)) # 0
    BY <2>1, <2>2, FS_CardinalityType, FS_EmptySet
  <2> QED BY <1>1, <2>2, <2>3
<1>3. ASSUME NEW x \in S, NEW y \in S, x < y
      PROVE  Cardinality(UpTo(S, x)) < Cardinality(UpTo(S, y))
  <2>1. UpTo(S, x) \in SUBSET UpTo(S, y) /\ y \in UpTo(S, y) /\ y \notin UpTo(S, x)
    <3>1. x \in Int /\ y \in Int /\ \A z \in S : z \in Int
      OBVIOUS
    <3>2. \A z \in S : z <= x => z <= y
      BY <1>3, <3>1
    <3>3. ~(y <= x) /\ y <= y
      BY <1>3, <3>1
    <3> QED BY <3>2, <3>3 DEF UpTo
  <2>2. IsFiniteSet(UpTo(S, y))
    BY <1>2
  <2>3. Cardinality(UpTo(S, x)) <= Cardinality(UpTo(S, y))
        /\ Cardinality(UpTo(S, x)) # Cardinality(UpTo(S, y))
    BY <2>1, <2>2, FS_Subset
  <2>4. Cardinality(UpTo(S, x)) \in Nat /\ Cardinality(UpTo(S, y)) \in Nat
    BY <1>2, <1>1
  <2> QED BY <2>3, <2>4
<1>4. f \in [S -> 1 .. n]
  BY <1>2
<1>5. \A x, y \in S : f[x] = f[y] => x = y
  <2>1. \A x, y \in S : x < y \/ y < x \/ x = y
    OBVIOUS
  <2>2. \A x \in S : f[x] = Cardinality(UpTo(S, x)) /\ f[x] \in Nat
    BY <1>1, <1>2
  <2>3. \A x, y \in S : x < y => f[x] < f[y]
    BY <1>3, <2>2
  <2> HIDE DEF f
  <2> QED BY <2>1, <2>2, <2>3
<1>6. f \in Injection(S, 1 .. n)
  BY <1>4, <1>5 DEF Injection, IsInjective
<1>7. IsFiniteSet(1 .. n) /\ Cardinality(1 .. n) = n
  BY <1>1, FS_Interval
<1>8. f \in Surjection(S, 1 .. n)
  BY <1>6, <1>7, FS_Injection
<1>9. \A i \in 1 .. n : \E x \in S : f[x] = i
  BY <1>8 DEF Surjection
<1> QED BY <1>1, <1>2, <1>3, <1>9

LEMMA AscendingIs ==
  ASSUME NEW S \in SUBSET Int, IsFiniteSet(S)
  PROVE  /\ Cardinality(S) \in Nat
         /\ Ascending(S) \in [1 .. Cardinality(S) -> S]
         /\ \A j, k \in 1 .. Cardinality(S) : j < k => Ascending(S)[j] < Ascending(S)[k]
         /\ \A x \in S : \E j \in 1 .. Cardinality(S) : Ascending(S)[j] = x
<1> DEFINE n == Cardinality(S)
           a == Ascending(S)
           nth(j) == CHOOSE x \in S : Cardinality({y \in S : y <= x}) = j
<1>1. /\ n \in Nat
      /\ \A x \in S : Cardinality(UpTo(S, x)) \in 1 .. n
      /\ \A x, y \in S : x < y => Cardinality(UpTo(S, x)) < Cardinality(UpTo(S, y))
      /\ \A j \in 1 .. n : \E x \in S : Cardinality(UpTo(S, x)) = j
  BY Ranks
<1>2. \A j \in 1 .. n : nth(j) \in S /\ Cardinality(UpTo(S, nth(j))) = j
  BY <1>1 DEF UpTo
<1>3. a = [j \in 1 .. n |-> nth(j)]
  BY DEF Ascending
<1> HIDE DEF a, n, nth
<1>0. \A x \in S : x \in Int
  OBVIOUS
<1>4. a \in [1 .. n -> S] /\ \A j \in 1 .. n : a[j] \in S /\ Cardinality(UpTo(S, a[j])) = j
  BY <1>2, <1>3
<1>a. \A j \in 1 .. n : a[j] \in Int /\ j \in Int
  <2>1. \A j \in 1 .. n : a[j] \in S
    BY <1>4
  <2>2. \A j \in 1 .. n : j \in Int
    BY <1>1
  <2> QED BY <1>0, <2>1, <2>2
<1>5. ASSUME NEW j \in 1 .. n, NEW k \in 1 .. n, j < k PROVE a[j] < a[k]
  <2>1. a[j] \in Int /\ a[k] \in Int /\ j \in Int /\ k \in Int
    BY <1>a
  <2>2. a[k] < a[j] => k < j
    BY <1>1, <1>4, ZenonT(30)
  <2>3. a[k] = a[j] => k = j
    BY <1>4
  <2> QED BY <1>5, <2>1, <2>2, <2>3
<1>6. ASSUME NEW x \in S PROVE \E j \in 1 .. n : a[j] = x
  <2>1. PICK j \in 1 .. n : j = Cardinality(UpTo(S, x))
    BY <1>1
  <2>2. a[j] \in S /\ Cardinality(UpTo(S, a[j])) = j
    BY <1>4, <2>1
  <2>3. a[j] \in Int /\ x \in Int /\ j \in Int
    BY <1>0, <1>a
  <2>4. ~(a[j] < x) /\ ~(x < a[j])
    BY <1>1, <2>1, <2>2, <2>3
  <2> QED BY <2>3, <2>4
<1> QED BY <1>1, <1>4, <1>5, <1>6 DEF a, n

Increasing(q) == \A j, k \in 1 .. Len(q) : j < k => q[j] < q[k]
Distinct(q)   == \A j, k \in 1 .. Len(q) : q[j] = q[k] => j = k

LEMMA RangeIs ==
  ASSUME NEW T, NEW q \in Seq(T)
  PROVE  Range(q) = {q[j] : j \in 1 .. Len(q)}
BY DEF Range

\* f names the positions of q that a is made of.
Selects(f, a, q, I) ==
  /\ f \in [1 .. Len(a) -> I]
  /\ \A j, k \in 1 .. Len(a) : j < k => f[j] < f[k]
  /\ \A x \in I : \E j \in 1 .. Len(a) : f[j] = x
  /\ \A j \in 1 .. Len(a) : a[j] = q[f[j]]

\* Some of the elements of a list, in their order.
LEMMA AtFacts ==
  ASSUME NEW T, NEW q \in Seq(T), NEW I \in SUBSET (1 .. Len(q))
  PROVE  /\ At(q, I) \in Seq(T)
         /\ Len(At(q, I)) \in Nat /\ Len(At(q, I)) <= Len(q)
         /\ \E f : Selects(f, At(q, I), q, I)
<1>1. I \in SUBSET Int /\ IsFiniteSet(1 .. Len(q)) /\ Cardinality(1 .. Len(q)) = Len(q)
  <2>1. PICK l \in Nat : l = Len(q)
    OBVIOUS
  <2>2. IsFiniteSet(1 .. l) /\ Cardinality(1 .. l) = l
    BY FS_Interval
  <2>3. \A x \in I : x \in 1 .. l
    BY <2>1
  <2>4. \A x \in I : x \in Int
    BY <2>3
  <2> QED BY <2>1, <2>2, <2>4
<1>2. IsFiniteSet(I) /\ Cardinality(I) <= Len(q)
  BY <1>1, FS_Subset
<1>3. PICK n : n = Cardinality(I)
  OBVIOUS
<1>4. PICK f : f = Ascending(I)
  OBVIOUS
<1>5. /\ n \in Nat /\ f \in [1 .. n -> I]
      /\ \A j, k \in 1 .. n : j < k => f[j] < f[k]
      /\ \A x \in I : \E j \in 1 .. n : f[j] = x
  BY <1>1, <1>2, <1>3, <1>4, AscendingIs
<1>6. At(q, I) = [j \in 1 .. n |-> q[f[j]]]
  BY <1>3, <1>4 DEF At
<1>7. ASSUME NEW j \in 1 .. n PROVE q[f[j]] \in T
  <2>1. f[j] \in I
    BY <1>5
  <2>2. f[j] \in 1 .. Len(q)
    BY <2>1
  <2> QED BY <2>2, ElementOfSeq
<1>8. PICK a : a = [j \in 1 .. n |-> q[f[j]]]
  OBVIOUS
<1>9. a \in Seq(T) /\ Len(a) = n /\ \A j \in 1 .. n : a[j] = q[f[j]]
  BY <1>5, <1>7, <1>8
<1>10. At(q, I) = a /\ Len(a) = n /\ n <= Len(q)
  BY <1>2, <1>3, <1>6, <1>8, <1>9
<1>11. Selects(f, a, q, I)
  BY <1>5, <1>9 DEF Selects
<1> HIDE DEF At
<1> QED BY <1>9, <1>10, <1>11

LEMMA AtKeepsOrder ==
  ASSUME NEW q \in Seq(Nat), NEW I \in SUBSET (1 .. Len(q))
  PROVE  /\ Range(At(q, I)) = {q[k] : k \in I}
         /\ Increasing(q) => Increasing(At(q, I))
<1>1. PICK a : a = At(q, I)
  OBVIOUS
<1>0. PICK f : Selects(f, a, q, I)
  BY <1>1, AtFacts
<1>2. /\ f \in [1 .. Len(a) -> I]
      /\ \A j, k \in 1 .. Len(a) : j < k => f[j] < f[k]
      /\ \A x \in I : \E j \in 1 .. Len(a) : f[j] = x
      /\ \A j \in 1 .. Len(a) : a[j] = q[f[j]]
  BY <1>0 DEF Selects
<1>3. a \in Seq(Nat)
  BY <1>1, AtFacts
<1>4. Range(a) = {a[j] : j \in 1 .. Len(a)}
  BY <1>3, RangeIs
<1>5. Range(a) = {q[k] : k \in I}
  <2>1. \A j \in 1 .. Len(a) : f[j] \in I /\ a[j] = q[f[j]]
    BY <1>2
  <2>2. \A x \in I : \E j \in 1 .. Len(a) : a[j] = q[x]
    BY <1>2
  <2>3. ASSUME NEW y \in Range(a) PROVE \E k \in I : y = q[k]
    <3>1. PICK j \in 1 .. Len(a) : y = a[j]
      BY <1>4
    <3> QED BY <2>1, <3>1
  <2>4. ASSUME NEW x \in I PROVE q[x] \in Range(a)
    <3>1. PICK j \in 1 .. Len(a) : a[j] = q[x]
      BY <2>2
    <3> QED BY <1>4, <3>1
  <2> HIDE DEF Range
  <2> QED BY <2>3, <2>4
<1>6. ASSUME Increasing(q) PROVE Increasing(a)
  <2>1. \A j \in 1 .. Len(a) : f[j] \in 1 .. Len(q) /\ a[j] = q[f[j]]
    BY <1>2
  <2>2. \A j, k \in 1 .. Len(a) : j < k => q[f[j]] < q[f[k]]
    BY <1>2, <1>6, <2>1 DEF Increasing
  <2> QED BY <2>1, <2>2 DEF Increasing
<1> QED BY <1>1, <1>5, <1>6

LEMMA AtKeepsDistinct ==
  ASSUME NEW T, NEW q \in Seq(T), NEW I \in SUBSET (1 .. Len(q)), Distinct(q)
  PROVE  Range(At(q, I)) = {q[k] : k \in I} /\ Distinct(At(q, I))
<1>1. PICK a : a = At(q, I)
  OBVIOUS
<1>0. PICK f : Selects(f, a, q, I)
  BY <1>1, AtFacts
<1>2. /\ f \in [1 .. Len(a) -> I]
      /\ \A j, k \in 1 .. Len(a) : j < k => f[j] < f[k]
      /\ \A x \in I : \E j \in 1 .. Len(a) : f[j] = x
      /\ \A j \in 1 .. Len(a) : a[j] = q[f[j]]
  BY <1>0 DEF Selects
<1>3. a \in Seq(T)
  BY <1>1, AtFacts
<1>4. Range(a) = {a[j] : j \in 1 .. Len(a)}
  BY <1>3, RangeIs
<1>5. Range(a) = {q[k] : k \in I}
  <2>1. \A j \in 1 .. Len(a) : f[j] \in I /\ a[j] = q[f[j]]
    BY <1>2
  <2>2. \A x \in I : \E j \in 1 .. Len(a) : a[j] = q[x]
    BY <1>2
  <2>3. ASSUME NEW y \in Range(a) PROVE \E k \in I : y = q[k]
    <3>1. PICK j \in 1 .. Len(a) : y = a[j]
      BY <1>4
    <3> QED BY <2>1, <3>1
  <2>4. ASSUME NEW x \in I PROVE q[x] \in Range(a)
    <3>1. PICK j \in 1 .. Len(a) : a[j] = q[x]
      BY <2>2
    <3> QED BY <1>4, <3>1
  <2> HIDE DEF Range
  <2> QED BY <2>3, <2>4
<1>6. ASSUME NEW j \in 1 .. Len(a), NEW k \in 1 .. Len(a), a[j] = a[k] PROVE j = k
  <2>0. /\ f[j] \in 1 .. Len(q) /\ f[k] \in 1 .. Len(q)
        /\ q[f[j]] = q[f[k]]
    <3>1. f[j] \in I /\ f[k] \in I
      BY <1>2
    <3> QED BY <1>2, <1>6, <3>1
  <2>1. f[j] = f[k]
    BY <2>0 DEF Distinct
  <2>2. f[j] \in 1 .. Len(q) /\ f[k] \in 1 .. Len(q)
    <3>1. f[j] \in I /\ f[k] \in I
      BY <1>2
    <3> QED BY <3>1
  <2>3. ~(f[j] < f[k]) /\ ~(f[k] < f[j]) /\ j \in Int /\ k \in Int
    BY <2>1, <2>2
  <2>4. ~(j < k) /\ ~(k < j)
    BY <1>2, <2>3
  <2> QED BY <2>3, <2>4
<1> QED BY <1>1, <1>5, <1>6 DEF Distinct

LEMMA KeptFacts ==
  ASSUME NEW T, NEW q \in Seq(T), NEW S
  PROVE  /\ Kept(q, S) \in Seq(T) /\ Len(Kept(q, S)) <= Len(q)
         /\ Distinct(q) => Range(Kept(q, S)) = Range(q) \cap S /\ Distinct(Kept(q, S))
         /\ T = Nat => /\ Range(Kept(q, S)) = Range(q) \cap S
                       /\ Increasing(q) => Increasing(Kept(q, S))
<1>1. PICK I : I = {k \in DOMAIN q : q[k] \in S}
  OBVIOUS
<1>2. I \in SUBSET (1 .. Len(q)) /\ Kept(q, S) = At(q, I)
  BY <1>1 DEF Kept
<1>3. {q[k] : k \in I} = Range(q) \cap S
  BY <1>1, RangeIs
<1>4. Kept(q, S) \in Seq(T) /\ Len(Kept(q, S)) <= Len(q)
  BY <1>2, AtFacts
<1>5. Distinct(q) => Range(Kept(q, S)) = Range(q) \cap S /\ Distinct(Kept(q, S))
  BY <1>2, <1>3, AtKeepsDistinct
<1>6. T = Nat => /\ Range(Kept(q, S)) = Range(q) \cap S
                 /\ Increasing(q) => Increasing(Kept(q, S))
  BY <1>2, <1>3, AtKeepsOrder
<1> QED BY <1>4, <1>5, <1>6

\* An increasing list is the list of its elements in ascending order.
LEMMA AscendingIsUnique ==
  ASSUME NEW q \in Seq(Nat), Increasing(q)
  PROVE  q = Ascending(Range(q)) /\ Cardinality(Range(q)) = Len(q) /\ IsFiniteSet(Range(q))
<1>1. PICK n \in Nat : n = Len(q)
  OBVIOUS
<1>2. PICK S : S = Range(q)
  OBVIOUS
<1>3. S = {q[j] : j \in 1 .. n} /\ \A j \in 1 .. n : q[j] \in Nat
  BY <1>1, <1>2, RangeIs
<1>4. \A j, k \in 1 .. n : j < k <=> q[j] < q[k]
  <2>1. ASSUME NEW j \in 1 .. n, NEW k \in 1 .. n PROVE j < k <=> q[j] < q[k]
    <3>1. j < k => q[j] < q[k]
      BY <1>1 DEF Increasing
    <3>2. k < j => q[k] < q[j]
      BY <1>1 DEF Increasing
    <3>3. q[j] \in Nat /\ q[k] \in Nat /\ j \in Int /\ k \in Int
      BY <1>3
    <3> QED BY <3>1, <3>2, <3>3
  <2> QED BY <2>1
<1>5. ASSUME NEW m \in 0 .. n
      PROVE  IsFiniteSet({q[j] : j \in 1 .. m}) /\ Cardinality({q[j] : j \in 1 .. m}) = m
  <2> DEFINE f == [j \in 1 .. m |-> q[j]]
             T == {q[j] : j \in 1 .. m}
  <2>1. f \in [1 .. m -> T] /\ \A t \in T : \E j \in 1 .. m : f[j] = t
    OBVIOUS
  <2>2. \A j, k \in 1 .. m : f[j] = f[k] => j = k
    <3>1. ASSUME NEW j \in 1 .. m, NEW k \in 1 .. m, q[j] = q[k] PROVE j = k
      <4>1. j \in 1 .. n /\ k \in 1 .. n
        OBVIOUS
      <4>2. ~(q[j] < q[k]) /\ ~(q[k] < q[j])
        BY <1>3, <3>1, <4>1
      <4>3. ~(j < k) /\ ~(k < j)
        BY <1>4, <4>1, <4>2
      <4> QED BY <4>3
    <3> QED BY <3>1
  <2> HIDE DEF T
  <2>3. f \in Injection(1 .. m, T) /\ f \in Surjection(1 .. m, T)
    BY <2>1, <2>2 DEF Injection, IsInjective, Surjection
  <2>4. ExistsBijection(1 .. m, T)
    BY <2>3 DEF ExistsBijection, Bijection
  <2>5. IsFiniteSet(1 .. m) /\ Cardinality(1 .. m) = m
    BY FS_Interval
  <2>6. IsFiniteSet(T) /\ Cardinality(T) = m
    BY <2>4, <2>5, FS_Bijection
  <2> QED BY <2>6 DEF T
<1>6. IsFiniteSet(S) /\ Cardinality(S) = n
  <2>1. n \in 0 .. n
    OBVIOUS
  <2> QED BY <1>3, <1>5, <2>1
<1>7. ASSUME NEW j \in 1 .. n PROVE Cardinality(UpTo(S, q[j])) = j
  <2>1. \A k \in 1 .. n : q[k] <= q[j] <=> k <= j
    BY <1>3, <1>4
  <2>2. \A k \in 1 .. j : k \in 1 .. n /\ k <= j
    OBVIOUS
  <2>3. \A k \in 1 .. n : k <= j => k \in 1 .. j
    OBVIOUS
  <2>4. UpTo(S, q[j]) = {q[k] : k \in 1 .. j}
    BY <1>3, <2>1, <2>2, <2>3 DEF UpTo
  <2>5. j \in 0 .. n
    OBVIOUS
  <2> QED BY <1>5, <2>4, <2>5
<1>8. PICK a : a = Ascending(S)
  OBVIOUS
<1>9. S \in SUBSET Int
  BY <1>3
<1>10. \A x, y \in S : x < y => Cardinality(UpTo(S, x)) < Cardinality(UpTo(S, y))
  BY <1>6, <1>9, Ranks
<1>11. a = [j \in 1 .. n |-> CHOOSE x \in S : Cardinality(UpTo(S, x)) = j]
  BY <1>6, <1>8 DEF Ascending, UpTo
<1>12. ASSUME NEW j \in 1 .. n PROVE a[j] = q[j]
  <2>1. a[j] \in S /\ Cardinality(UpTo(S, a[j])) = j
    BY <1>3, <1>7, <1>11
  <2>2. q[j] \in S /\ Cardinality(UpTo(S, q[j])) = j
    BY <1>3, <1>7
  <2>3. a[j] \in Int /\ q[j] \in Int /\ j \in Int
    <3>1. \A x \in S : x \in Int
      BY <1>9
    <3> QED BY <2>1, <2>2, <3>1
  <2>4. ~(a[j] < q[j]) /\ ~(q[j] < a[j])
    BY <1>10, <2>1, <2>2, <2>3
  <2> QED BY <2>3, <2>4
<1>13. q = [j \in 1 .. n |-> q[j]]
  BY <1>1
<1>14. a = [j \in 1 .. n |-> q[j]]
  BY <1>11, <1>12
<1> QED BY <1>1, <1>2, <1>6, <1>8, <1>13, <1>14

(***************************************************************************)
(* Removing the i-th element of a sequence.                                *)
(***************************************************************************)
LEMMA RemoveAtFacts ==
  ASSUME NEW S, NEW s \in Seq(S), NEW i \in 1 .. Len(s)
  PROVE  /\ RemoveAt(s, i) \in Seq(S)
         /\ Len(RemoveAt(s, i)) = Len(s) - 1
         /\ \A j \in 1 .. Len(s) - 1 :
              RemoveAt(s, i)[j] = IF j < i THEN s[j] ELSE s[j + 1]
<1> DEFINE a == SubSeq(s, 1, i - 1)
           b == SubSeq(s, i + 1, Len(s))
<1>1. /\ a \in Seq(S) /\ Len(a) = i - 1
      /\ \A j \in 1 .. i - 1 : a[j] = s[j]
  BY SubSeqProperties
<1>2. /\ b \in Seq(S) /\ Len(b) = Len(s) - i
      /\ \A j \in 1 .. Len(s) - i : b[j] = s[i + j]
  BY SubSeqProperties
<1>3. RemoveAt(s, i) = a \o b
  BY DEF RemoveAt
<1> HIDE DEF a, b
<1>4. /\ a \o b \in Seq(S)
      /\ Len(a \o b) = Len(a) + Len(b)
      /\ \A j \in 1 .. Len(a) + Len(b) :
           (a \o b)[j] = IF j <= Len(a) THEN a[j] ELSE b[j - Len(a)]
  BY <1>1, <1>2, ConcatProperties
<1>5. ASSUME NEW j \in 1 .. Len(s) - 1
      PROVE  (a \o b)[j] = IF j < i THEN s[j] ELSE s[j + 1]
  <2>1. CASE j < i
    BY <1>1, <1>2, <1>4, <2>1
  <2>2. CASE ~(j < i)
    <3>1. (a \o b)[j] = b[j - (i - 1)]
      BY <1>1, <1>2, <1>4, <2>2
    <3>2. j - (i - 1) \in 1 .. Len(s) - i
      BY <2>2
    <3>3. b[j - (i - 1)] = s[i + (j - (i - 1))]
      BY <1>2, <3>2
    <3>4. i + (j - (i - 1)) = j + 1
      OBVIOUS
    <3> QED
      BY <2>2, <3>1, <3>3, <3>4
  <2> QED
    BY <2>1, <2>2
<1> QED
  BY <1>1, <1>2, <1>3, <1>4, <1>5

\* Replacing one element of a sequence.
LEMMA ExceptFacts ==
  ASSUME NEW S, NEW s \in Seq(S), NEW i \in 1 .. Len(s), NEW e \in S
  PROVE  /\ [s EXCEPT ![i] = e] \in Seq(S)
         /\ Len([s EXCEPT ![i] = e]) = Len(s)
         /\ \A j \in 1 .. Len(s) :
              [s EXCEPT ![i] = e][j] = IF j = i THEN e ELSE s[j]
OBVIOUS

-----------------------------------------------------------------------------
(* Values, addresses and latencies have their types.                       *)

LEMMA Sizes ==
  /\ NumRegs \in Nat \ {0} /\ MemWords \in Nat \ {0} /\ SignBit \in Nat \ {0}
  /\ Reg = 0 .. NumRegs - 1 /\ Addr = 0 .. MemWords - 1
BY WordAssumption DEF Reg, Addr, Micro!Reg, Micro!Addr

LEMMA WrapType ==
  ASSUME NEW v \in Int
  PROVE  Wrap(v) \in Word
<1>1. PICK n \in Nat \ {0} : n = SignBit
  BY Sizes
<1>2. v % (2 * n) \in Int /\ 0 <= v % (2 * n) /\ v % (2 * n) < 2 * n
  OBVIOUS
<1> QED BY <1>1, <1>2 DEF Wrap, Word

LEMMA ValueType ==
  ASSUME NEW i \in Instr, NEW a \in Int, NEW b \in Int
  PROVE  Value(i, a, b) \in Word
<1>1. Micro!FloorDiv(a, b) \in Int
  BY DEF Micro!FloorDiv
<1>2. a * b \in Int /\ i.imm \in Int
  BY DEF Instr
<1>3. Micro!AluValue(i, a, b) \in Int
  BY <1>1, <1>2 DEF Micro!AluValue
<1> QED BY <1>3, WrapType DEF Value

LEMMA AddressType ==
  ASSUME NEW i \in Instr, NEW a \in Int
  PROVE  Address(i, a) \in Addr
<1>1. a + i.imm \in Int
  BY DEF Instr
<1>2. PICK n \in Nat \ {0} : n = MemWords
  BY Sizes
<1>3. (a + i.imm) % n \in 0 .. n - 1
  BY <1>1
<1> QED BY <1>2, <1>3, Sizes DEF Address

LEMMA StepCyclesType == StepCycles \in Nat
<1>1. PICK l \in {125, 100, 78} : l = LatencyScale
  BY DEF LatencyScale
<1> QED BY <1>1 DEF StepCycles, CeilDiv

LEMMA AluCyclesType ==
  ASSUME NEW i, NEW flag \in BOOLEAN
  PROVE  AluCycles(i, flag) \in Nat
<1>1. PICK l \in {125, 100, 78} : l = LatencyScale
  BY DEF LatencyScale
<1>2. PICK b \in {1, 2, 3, 4, 6} : b = AluBase(i)
  BY DEF AluBase
<1>3. CeilDiv(b * l, 100) \in Nat
  BY DEF CeilDiv
<1> QED BY <1>1, <1>2, <1>3 DEF AluCycles

LEMMA LoadLatencyType ==
  ASSUME NEW c \in LoadCycles
  PROVE  LoadLatency(c) \in Nat
<1>1. PICK l \in {125, 100, 78} : l = LatencyScale
  BY DEF LatencyScale
<1>5. c \in Nat
  BY DEF LoadCycles
<1>6. c * (600 + 4 * l) \in Nat
  BY <1>5
<1>7. PICK d \in Nat : d = c * (600 + 4 * l)
  BY <1>6
<1>8. CeilDiv(d, 1000) \in Nat
  BY DEF CeilDiv
<1> QED BY <1>1, <1>7, <1>8 DEF LoadLatency

\* An instruction reads and writes registers; what is read twice is read twice.
LEMMA ReadsType ==
  ASSUME NEW i \in Instr
  PROVE  /\ Reads(i) \in Seq(Reg) /\ Len(Reads(i)) \in 0 .. 2
         /\ i.rd \in Reg /\ (WritesRd(i) => i.rd # 0)
         /\ i.op = "STORE" => Len(Reads(i)) = 2
<1>1. i.rs1 \in Reg /\ i.rs2 \in Reg /\ i.rd \in Reg
  BY DEF Instr
<1>2. <<>> \in Seq(Reg) /\ <<i.rs1>> \in Seq(Reg) /\ <<i.rs1, i.rs2>> \in Seq(Reg)
  BY <1>1
<1>3. Len(<<i.rs1>>) = 1 /\ Len(<<i.rs1, i.rs2>>) = 2 /\ Len(<<>>) = 0
  OBVIOUS
<1>4. Reads(i) \in {<<>>, <<i.rs1>>, <<i.rs1, i.rs2>>}
  BY DEF Reads
<1>5. i.op = "STORE" => Reads(i) = <<i.rs1, i.rs2>>
  BY DEF Reads
<1>6. WritesRd(i) => i.rd # 0
  BY DEF WritesRd, Micro!Writes
<1>7. Reads(i) \in Seq(Reg) /\ Len(Reads(i)) \in 0 .. 2
  <2>1. CASE Reads(i) = <<>>
    BY <1>2, <1>3, <2>1
  <2>2. CASE Reads(i) = <<i.rs1>>
    BY <1>2, <1>3, <2>2
  <2>3. CASE Reads(i) = <<i.rs1, i.rs2>>
    BY <1>2, <1>3, <2>3
  <2> QED BY <1>4, <2>1, <2>2, <2>3
<1>8. i.op = "STORE" => Len(Reads(i)) = 2
  BY <1>3, <1>5
<1> QED BY <1>1, <1>6, <1>7, <1>8

LEMMA NeverTakenReads ==
  ASSUME NEW i \in Instr, NeverTaken(i)
  PROVE  Reads(i) = <<i.rs1, i.rs1>> /\ IsBranch(i)
BY DEF NeverTaken, Reads, IsBranch, Micro!IsBranch, Micro!BranchOps

LEMMA MaxOfTwo ==
  ASSUME NEW a \in Int, NEW b \in Int
  PROVE  Max({a, b}) \in {a, b} /\ Max({a, b}) >= a /\ Max({a, b}) >= b
<1>1. \E x \in {a, b} : \A y \in {a, b} : x >= y
  <2>1. CASE a >= b
    BY <2>1
  <2>2. CASE b >= a
    BY <2>2
  <2> QED BY <2>1, <2>2
<1> QED BY <1>1 DEF Max

-----------------------------------------------------------------------------
(* The invariant.  Its first part types the machine and says how its      *)
(* queues go with the window, whatever it runs.                           *)

\* What an entry keeps to, wherever it is.  A branch that compares a register with
\* itself keeps equal operands.
Fits(e) ==
  LET i == InstrAt(e.pc)
  IN  /\ (e.dst # NoReg) <=> WritesRd(i)
      /\ (e.prev # NoReg) <=> (e.dst # NoReg)
      /\ Len(e.srcs) = Len(Reads(i))
      /\ ~IsBranch(i) => e.val \in Word /\ ~e.mispredicted
      /\ IsBranch(i) => e.checkpoint \in [Reg -> Phys] /\ e.checkpoint[0] = 0
      /\ NeverTaken(i) => e.srcs[1] = e.srcs[2] /\ e.operands[1] = e.operands[2]

Sound == {e \in Entry : Fits(e)}

Job  == [pos : Int, left : Nat, gone : BOOLEAN]
Slot == [pc : 0 .. Len(prog) - 1, pred : {"none", "taken", "fall"}]

ArchOK ==
  /\ setup \in Setups
  /\ regs \in [Reg -> Word] /\ regs[0] = 0 /\ mem \in [Addr -> Word]
  /\ exitCode \in Word /\ halted \in BOOLEAN

FileOK ==
  /\ physVal \in [Phys -> Word] /\ physReady \in [Phys -> BOOLEAN]
  /\ rat \in [Reg -> Phys] /\ rat[0] = 0

ListsOK == free \in Seq(Phys) /\ pendingFree \in Seq(Phys)

BufferOK == rob \in Seq(Sound) /\ head \in 0 .. Len(rob) /\ Len(rob) - head <= setup.rob

FrontOK ==
  /\ fetchQ \in Seq(Slot)
  /\ fetchPc \in Int /\ bubble \in Nat /\ fetchHalted \in BOOLEAN /\ line \in Int

LoopOK ==
  /\ control \in Bundle
  /\ stage \in {"run", "commit", "exec", "issue", "rename", "fetch", "end", "done"}
  /\ cursor \in Nat /\ done \in Nat /\ progress \in BOOLEAN
  /\ \A u \in DOMAIN used : used[u] \in 0 .. UnitCount(u) \/ stage # "issue"

\* Within a cycle the watchdog has not barked, and there is a cycle to count.
ClockOK ==
  /\ idle \in Nat /\ idle <= Watchdog + 1 /\ cycle \in Nat /\ cycle <= MaxCycles
  /\ stage \notin {"run", "done"} => cycle < MaxCycles
  /\ idle > Watchdog => stage = "done" \/ (stage = "run" /\ halted)
  /\ status \in {"RUNNING", "HALTED", "TIMEOUT", "DEADLOCK", "CORRUPT", "RAISED"}

\* The waiting entries are in the window and not done.
WaitingOK ==
  /\ rs \subseteq Live /\ Cardinality(rs) <= Cfg.rs
  /\ \A p \in rs : ~rob[p].done

\* The load/store queue lists the window's loads and stores.
LsqOK ==
  /\ lsq \in Seq(Nat) /\ Increasing(lsq) /\ Len(lsq) <= Cfg.lsq
  /\ Range(lsq) = {p \in Live : IsMem(InstrOf(p))}

\* What executes is in the window, once, unless a redirect dropped it and the pass
\* over the list has still to come to it, or its entry is gone.
RunsIn(x, p) == \E k \in 1 .. Len(x) : x[k].pos = p /\ ~x[k].gone
Once(x) ==
  \A j, k \in 1 .. Len(x) : ~x[j].gone /\ ~x[k].gone /\ x[j].pos = x[k].pos => j = k
Executes(p) == RunsIn(executing, p)

ExecutingOK ==
  /\ executing \in Seq(Job)
  /\ stage = "exec" => cursor <= Len(executing)
  /\ Once(executing)
  /\ stage # "done" =>
       \A k \in 1 .. Len(executing) :
         \/ executing[k].gone
         \/ executing[k].pos \in Live
         \/ stage = "exec" /\ k > cursor /\ executing[k].pos \in dropped
  /\ \A p \in Live : Executes(p) <=> ~rob[p].done /\ p \notin rs

DroppedOK ==
  /\ dropped \subseteq Nat /\ dropped \cap Live = {}
  /\ stage \notin {"exec", "done"} => dropped = {}

Inv ==
  /\ ArchOK /\ FileOK /\ ListsOK /\ BufferOK /\ FrontOK /\ LoopOK /\ ClockOK
  /\ WaitingOK /\ LsqOK /\ ExecutingOK /\ DroppedOK

-----------------------------------------------------------------------------
(* Its second part holds where no redirect happens: every taken branch is  *)
(* predicted, or there is none.                                            *)

\* Under a plan that always speculates every branch in flight has a prediction.
Speculating == \A b \in setup.plan : b.spec # "off" /\ "exhausted" \notin setup.headroom

Predicted ==
  Speculating =>
    /\ control.spec # "off"
    /\ \A k \in 1 .. Len(fetchQ) : IsBranch(InstrAt(fetchQ[k].pc)) => fetchQ[k].pred # "none"
    /\ \A p \in 1 .. Len(rob) : IsBranch(InstrOf(p)) => rob[p].pred # "none"

\* The maps of the window: m[p] is the map the entry at position p was renamed with,
\* m[head + 1] that of the committed registers.  What an entry reads, replaces and saves
\* with a branch is the map of its position.
Renamed(i, e, a, b) ==
  /\ b = IF WritesRd(i) THEN [a EXCEPT ![i.rd] = e.dst] ELSE a
  /\ WritesRd(i) => e.prev = a[i.rd]
  /\ \A k \in 1 .. Len(e.srcs) : e.srcs[k] = a[Reads(i)[k]]
  /\ IsBranch(i) => e.checkpoint = a

Mapped(m) ==
  /\ m[Len(rob) + 1] = rat
  /\ \A p \in Live : Renamed(InstrOf(p), rob[p], m[p], m[p + 1])

Owners == {p \in Live : rob[p].dst # NoReg}
Held   == {rob[p].dst : p \in Owners}

\* Every physical register has one role; c is the map of the committed registers.
Parted(c) ==
  /\ Distinct(free) /\ Distinct(pendingFree)
  /\ \A r, q \in Reg : c[r] = c[q] => r = q
  /\ \A p, q \in Owners : rob[p].dst = rob[q].dst => p = q
  /\ Range(free) \cap Range(pendingFree) = {}
  /\ \A r \in Reg : c[r] \notin Range(free) \cup Range(pendingFree) \cup Held
  /\ Held \cap (Range(free) \cup Range(pendingFree)) = {}
  /\ \A d \in Phys : d \in Range(free) \cup Range(pendingFree) \cup Held
                       \/ \E r \in Reg : d = c[r]

\* A committed register is ready, and so is the destination of an entry that is done.
Delivered(c) ==
  /\ \A r \in Reg : physReady[c[r]]
  /\ \A p \in Owners : rob[p].done => physReady[rob[p].dst]

Tables == [Nat -> [Reg -> Phys]]

Registers ==
  \E m \in Tables, c \in [Reg -> Phys] :
     c = m[head + 1] /\ Mapped(m) /\ Parted(c) /\ Delivered(c)

Orderly == TakenArePredicted(setup) => Predicted /\ Registers

-----------------------------------------------------------------------------
(* What the invariant says of the entries, and what keeps its parts.       *)

LEMMA SetupFacts ==
  ASSUME ArchOK
  PROVE  /\ SetupOK(setup) /\ prog \in Seq(Instr) /\ Len(prog) \in Nat \ {0}
         /\ \A pc \in 0 .. Len(prog) - 1 : InstrAt(pc) \in Instr
<1>1. SetupOK(setup)
  BY SetupsAssumption DEF ArchOK
<1>2. prog \in Seq(Instr) /\ prog # <<>>
  BY <1>1 DEF SetupOK, prog
<1>3. Len(prog) \in Nat \ {0}
  BY <1>2, EmptySeq
<1>4. ASSUME NEW pc \in 0 .. Len(prog) - 1 PROVE InstrAt(pc) \in Instr
  <2>1. pc + 1 \in 1 .. Len(prog)
    BY <1>3
  <2> QED BY <1>2, <2>1, ElementOfSeq DEF InstrAt
<1> QED BY <1>1, <1>2, <1>3, <1>4

LEMMA BufferSize ==
  ASSUME ArchOK
  PROVE  setup.rob \in Nat \ {0} /\ Watchdog \in Nat /\ Watchdog \in Int
<1>1. setup.rob \in Nat \ {0}
  BY SetupFacts DEF SetupOK
<1> QED BY <1>1 DEF Watchdog

LEMMA EntryFacts ==
  ASSUME ArchOK, BufferOK
  PROVE  /\ Len(rob) \in Nat /\ head \in Nat /\ head <= Len(rob)
         /\ DOMAIN rob = 1 .. Len(rob)
         /\ \A p \in 1 .. Len(rob) : /\ rob[p] \in Sound /\ rob[p] \in Entry /\ Fits(rob[p])
                                     /\ rob[p].pc \in 0 .. Len(prog) - 1
                                     /\ InstrOf(p) \in Instr
         /\ \A p \in Live : p \in 1 .. Len(rob) /\ p > head
         /\ \A p \in 1 .. Len(rob) : p > head => p \in Live
<1>1. Len(rob) \in Nat /\ DOMAIN rob = 1 .. Len(rob) /\ head \in Nat /\ head <= Len(rob)
  BY DEF BufferOK
<1>2. ASSUME NEW p \in 1 .. Len(rob)
      PROVE  /\ rob[p] \in Sound /\ rob[p] \in Entry /\ Fits(rob[p])
             /\ rob[p].pc \in 0 .. Len(prog) - 1 /\ InstrOf(p) \in Instr
  <2>1. rob[p] \in Sound
    BY ElementOfSeq DEF BufferOK
  <2>2. rob[p] \in Entry /\ Fits(rob[p])
    BY <2>1 DEF Sound
  <2>3. rob[p].pc \in 0 .. Len(prog) - 1
    BY <2>2 DEF Entry
  <2> QED BY <2>1, <2>2, <2>3, SetupFacts DEF InstrOf
<1>3. \A p \in Live : p \in 1 .. Len(rob) /\ p > head
  BY <1>1 DEF Live
<1>4. \A p \in 1 .. Len(rob) : p > head => p \in Live
  BY <1>1 DEF Live
<1> QED BY <1>1, <1>2, <1>3, <1>4

LEMMA InvTypes ==
  ASSUME Inv
  PROVE  TypeOK
<1>1. rob \in Seq(Entry)
  BY SeqMonotonic DEF Inv, BufferOK, Sound
<1>2. Range(lsq) \subseteq Live
  BY DEF Inv, LsqOK
<1>3. head \in 0 .. Len(rob) /\ Len(rob) - head <= setup.rob
  BY DEF Inv, BufferOK
<1>4. Watchdog \in Int
  BY BufferSize DEF Inv
<1>5. MaxCycles \in Int
  BY TimingAssumption
<1>6. idle \in 0 .. Watchdog + 1 /\ cycle \in 0 .. MaxCycles
  BY <1>4, <1>5 DEF Inv, ClockOK
<1>7. fetchQ \in Seq([pc : 0 .. Len(prog) - 1, pred : {"none", "taken", "fall"}])
  BY DEF Inv, FrontOK, Slot
<1>8. executing \in Seq([pos : Int, left : Nat, gone : BOOLEAN])
  BY DEF Inv, ExecutingOK, Job
<1> QED BY <1>1, <1>2, <1>3, <1>6, <1>7, <1>8
        DEF TypeOK, Inv, ArchOK, FileOK, ListsOK, FrontOK, LoopOK, ClockOK, WaitingOK,
            LsqOK, DroppedOK

LEMMA ArchKept ==
  ASSUME ArchOK, UNCHANGED <<setup, arch>>
  PROVE  ArchOK'
BY DEF ArchOK, arch

LEMMA FileKept ==
  ASSUME FileOK, UNCHANGED <<physVal, physReady, rat>>
  PROVE  FileOK'
BY DEF FileOK

LEMMA ListsKept ==
  ASSUME ListsOK, UNCHANGED <<free, pendingFree>>
  PROVE  ListsOK'
BY DEF ListsOK

LEMMA SoundKept ==
  ASSUME setup' = setup
  PROVE  /\ Sound' = Sound /\ Entry' = Entry /\ prog' = prog /\ Slot' = Slot
         /\ \A pc : InstrAt(pc)' = InstrAt(pc)
<1>1. prog' = prog
  BY DEF prog
<1>2. Entry' = Entry /\ Slot' = Slot
  BY <1>1 DEF Entry, Slot
<1>3. \A pc : InstrAt(pc)' = InstrAt(pc)
  BY <1>1 DEF InstrAt
<1>4. \A e : Fits(e)' = Fits(e)
  BY <1>3 DEF Fits
<1>5. Sound' = Sound
  BY <1>2, <1>4 DEF Sound
<1> QED BY <1>1, <1>2, <1>3, <1>5

LEMMA BufferKept ==
  ASSUME BufferOK, UNCHANGED <<setup, rob, head>>
  PROVE  BufferOK' /\ Live' = Live /\ \A p : InstrOf(p)' = InstrOf(p)
BY SoundKept DEF BufferOK, Live, InstrOf

LEMMA FrontKept ==
  ASSUME FrontOK, UNCHANGED <<setup, front>>
  PROVE  FrontOK'
BY SoundKept DEF FrontOK, front

LEMMA WaitingKept ==
  ASSUME WaitingOK, UNCHANGED <<setup, rob, head, rs>>
  PROVE  WaitingOK'
BY DEF WaitingOK, Live

LEMMA LsqKept ==
  ASSUME LsqOK, UNCHANGED <<setup, rob, head, lsq>>
  PROVE  LsqOK'
BY DEF LsqOK, Live, InstrOf, InstrAt, prog, Increasing

\* Outside the pass over the list the stage does not matter.
LEMMA ExecutingKept ==
  ASSUME ExecutingOK, DroppedOK, UNCHANGED <<setup, rob, head, rs, executing, dropped>>,
         stage' \notin {"exec", "done"} => stage \notin {"exec", "done"},
         stage' = "exec" => stage = "exec" /\ cursor' = cursor
  PROVE  ExecutingOK' /\ DroppedOK'
BY DEF ExecutingOK, DroppedOK, Executes, Live

-----------------------------------------------------------------------------
(* Steps that leave registers, buffer and queues alone.                    *)

Still == UNCHANGED <<setup, arch, rename, window>>

FetchStep ==
  \/ FetchBubble \/ FetchOutside \/ FetchWaits \/ FetchPlain \/ FetchUnpredicted
  \/ FetchHalt \/ EndFetch
  \/ \E c \in setup.lines : FetchMiss(c)
  \/ \E t \in BOOLEAN : FetchPredicted(t)

Starting == \E b \in setup.plan \cup {control}, h \in setup.headroom : StartCycle(b, h)

LEMMA FetchedFacts ==
  ASSUME Inv, InProgram
  PROVE  Fetched \in Instr /\ fetchPc \in 0 .. Len(prog) - 1
<1>1. fetchPc \in 0 .. Len(prog) - 1
  BY SetupFacts DEF Inv, FrontOK, InProgram
<1> QED BY <1>1, SetupFacts DEF Inv, Fetched

LEMMA LineType ==
  ASSUME NEW pc \in Nat
  PROVE  LineOf(pc) \in Int
<1>1. PICK n \in Nat \ {0} : n = LineWords
  BY TimingAssumption
<1>2. pc \div n \in Int
  OBVIOUS
<1> QED BY <1>1, <1>2 DEF LineOf

LEMMA QueueGrows ==
  ASSUME Inv, InProgram, NEW pred \in {"none", "taken", "fall"}, NEW target \in Int,
         Fetch(pred, target)
  PROVE  /\ fetchQ' \in Seq(Slot) /\ fetchPc' \in Int /\ line' \in Int
         /\ UNCHANGED <<setup, arch, rename, window, bubble, control, used, progress, clock>>
<1> DEFINE slot == [pc |-> fetchPc, pred |-> pred]
<1>1. slot \in Slot
  BY FetchedFacts DEF Slot
<1>2. fetchQ \in Seq(Slot) /\ fetchQ' = Append(fetchQ, slot)
  BY DEF Inv, FrontOK, Fetch
<1> HIDE DEF slot
<1>3. fetchQ' \in Seq(Slot)
  BY <1>1, <1>2, AppendProperties
<1>4. LineOf(fetchPc) \in Int
  BY FetchedFacts, LineType
<1> QED BY <1>3, <1>4 DEF Fetch

LEMMA FetchStepKinds ==
  ASSUME Inv, FetchStep
  PROVE  /\ Still /\ stage = "fetch" /\ stage' \in {"fetch", "end"}
         /\ FrontOK'
         /\ cursor' \in Nat /\ done' \in Nat
         /\ UNCHANGED <<control, used, progress, clock>>
<1> USE DEF Still
<1>0. /\ fetchQ \in Seq(Slot) /\ fetchPc \in Int /\ bubble \in Nat
      /\ fetchHalted \in BOOLEAN /\ line \in Int /\ cursor \in Nat /\ done \in Nat
  BY DEF Inv, FrontOK, LoopOK
<1>a. setup' = setup => Slot' = Slot
  BY SoundKept
<1>b. ASSUME InProgram PROVE LineOf(fetchPc) \in Int
  BY <1>b, FetchedFacts, LineType
<1>1. CASE FetchBubble
  BY <1>0, <1>1, <1>a DEF FetchBubble, LeaveStage, FrontOK
<1>2. CASE FetchOutside
  BY <1>0, <1>2, <1>a DEF FetchOutside, Fetching, LeaveStage, FrontOK
<1>3. CASE FetchWaits
  BY <1>0, <1>3, <1>a, <1>b DEF FetchWaits, Fetching, LeaveStage, FrontOK
<1>4. CASE FetchPlain
  <2>1. Fetch("none", fetchPc + 1) /\ InProgram
    BY <1>4 DEF FetchPlain
  <2>2. fetchPc + 1 \in Int
    BY <1>0
  <2> QED BY <1>0, <1>4, <1>a, <2>1, <2>2, QueueGrows DEF FetchPlain, Fetching, FrontOK
<1>5. CASE FetchUnpredicted
  <2>1. Fetch("none", fetchPc + 1) /\ InProgram
    BY <1>5 DEF FetchUnpredicted
  <2>2. fetchPc + 1 \in Int
    BY <1>0
  <2> QED BY <1>0, <1>5, <1>a, <2>1, <2>2, QueueGrows
          DEF FetchUnpredicted, Fetching, LeaveStage, FrontOK
<1>6. CASE FetchHalt
  <2>1. Fetch("none", fetchPc + 1) /\ InProgram
    BY <1>6 DEF FetchHalt
  <2>2. fetchPc + 1 \in Int
    BY <1>0
  <2> QED BY <1>0, <1>6, <1>a, <2>1, <2>2, QueueGrows
          DEF FetchHalt, Fetching, LeaveStage, FrontOK
<1>7. CASE EndFetch
  BY <1>0, <1>7, <1>a DEF EndFetch, LeaveStage, front, FrontOK
<1>8. ASSUME NEW c \in setup.lines, FetchMiss(c)
      PROVE  /\ Still /\ stage = "fetch" /\ stage' \in {"fetch", "end"}
             /\ FrontOK'
             /\ cursor' \in Nat /\ done' \in Nat
             /\ UNCHANGED <<control, used, progress, clock>>
  <2>1. c \in Nat \ {0}
    BY SetupFacts DEF Inv, SetupOK, LineCycles, LoadCycles
  <2>2. bubble' = Max({bubble, c - 1})
    BY <1>8 DEF FetchMiss
  <2>3. bubble' \in Nat
    <3>1. bubble \in Int /\ c - 1 \in Int /\ c - 1 \in Nat
      BY <1>0, <2>1
    <3>2. Max({bubble, c - 1}) \in {bubble, c - 1}
      BY <3>1, MaxOfTwo
    <3> QED BY <1>0, <2>2, <3>1, <3>2
  <2> QED BY <1>0, <1>8, <1>a, <1>b, <2>3 DEF FetchMiss, Fetching, LeaveStage, FrontOK
<1>9. ASSUME NEW t \in BOOLEAN, FetchPredicted(t)
      PROVE  /\ Still /\ stage = "fetch" /\ stage' \in {"fetch", "end"}
             /\ FrontOK'
             /\ cursor' \in Nat /\ done' \in Nat
             /\ UNCHANGED <<control, used, progress, clock>>
  <2>1. InProgram
    BY <1>9 DEF FetchPredicted
  <2>2. fetchPc + Fetched.imm \in Int /\ fetchPc + 1 \in Int
    BY <1>0, <2>1, FetchedFacts DEF Instr
  <2>3. Fetch("taken", fetchPc + Fetched.imm) \/ Fetch("fall", fetchPc + 1)
    BY <1>9 DEF FetchPredicted
  <2>4. /\ fetchQ' \in Seq(Slot) /\ fetchPc' \in Int /\ line' \in Int
        /\ UNCHANGED <<setup, arch, rename, window, bubble, control, used, progress, clock>>
    BY <2>1, <2>2, <2>3, QueueGrows
  <2> QED BY <1>0, <1>9, <1>a, <2>4 DEF FetchPredicted, Fetching, FrontOK
<1> QED BY <1>1, <1>2, <1>3, <1>4, <1>5, <1>6, <1>7, <1>8, <1>9 DEF FetchStep

\* Within a cycle the clock stands.
LEMMA ClockKept ==
  ASSUME ClockOK, UNCHANGED <<setup, clock>>, stage \notin {"run", "done"}, stage' # "run"
  PROVE  ClockOK'
BY DEF ClockOK, clock, Watchdog

LEMMA StillInv ==
  ASSUME Inv, UNCHANGED <<setup, rename, window>>,
         ArchOK', FrontOK', LoopOK', ClockOK',
         stage' \notin {"exec", "done"} => stage \notin {"exec", "done"},
         stage' # "exec"
  PROVE  Inv'
<1>1. /\ UNCHANGED <<physVal, physReady, rat, free, pendingFree>>
      /\ UNCHANGED <<setup, rob, head, rs, lsq, executing, dropped>>
  BY DEF rename, window
<1>2. FileOK' /\ ListsOK' /\ BufferOK' /\ WaitingOK' /\ LsqOK'
  BY <1>1, FileKept, ListsKept, BufferKept, WaitingKept, LsqKept DEF Inv
<1>3. ExecutingOK' /\ DroppedOK'
  BY <1>1, ExecutingKept DEF Inv
<1> QED BY <1>2, <1>3 DEF Inv

LEMMA FetchStepInv ==
  ASSUME Inv, FetchStep
  PROVE  Inv'
<1>1. /\ Still /\ stage = "fetch" /\ stage' \in {"fetch", "end"} /\ FrontOK'
      /\ cursor' \in Nat /\ done' \in Nat /\ UNCHANGED <<control, used, progress, clock>>
  BY FetchStepKinds
<1>2. ArchOK'
  BY <1>1, ArchKept DEF Inv, Still
<1>3. LoopOK'
  BY <1>1 DEF Inv, LoopOK
<1>4. ClockOK'
  BY <1>1, ClockKept DEF Inv, Still
<1> QED BY <1>1, <1>2, <1>3, <1>4, StillInv DEF Still

LEMMA StopInv ==
  ASSUME Inv, Stop
  PROVE  Inv'
<1>1. ArchOK' /\ FrontOK'
  BY ArchKept, FrontKept DEF Stop, Inv
<1>2. LoopOK'
  BY DEF Stop, Inv, LoopOK
<1>3. ClockOK'
  BY DEF Stop, Inv, ClockOK, Watchdog
<1> QED BY <1>1, <1>2, <1>3, StillInv DEF Stop

LEMMA GovernedType ==
  ASSUME ArchOK, control \in Bundle, NEW b \in setup.plan \cup {control},
         NEW h \in setup.headroom
  PROVE  /\ Governed(b, h) \in Bundle
         /\ Governed(b, h).spec = b.spec \/ h = "exhausted"
<1>1. b \in Bundle /\ h \in Headrooms
  BY SetupFacts DEF SetupOK
<1>2. Recovery \in Bundle
  BY TimingAssumption
<1>3. [b EXCEPT !.power = "balanced"] \in Bundle /\ [b EXCEPT !.power = "balanced"].spec = b.spec
  BY <1>1 DEF Bundle, PowerModes
<1> QED BY <1>1, <1>2, <1>3 DEF Governed

LEMMA StartInv ==
  ASSUME Inv, Starting
  PROVE  Inv'
<1>1. PICK b \in setup.plan \cup {control}, h \in setup.headroom : StartCycle(b, h)
  BY DEF Starting
<1>2. ArchOK' /\ FrontOK'
  BY <1>1, ArchKept, FrontKept DEF StartCycle, Inv
<1>3. control' \in Bundle
  BY <1>1, GovernedType DEF StartCycle, Inv, LoopOK
<1>4. LoopOK'
  BY <1>1, <1>3 DEF StartCycle, Enter, Inv, LoopOK
<1>5. ClockOK'
  BY <1>1 DEF StartCycle, Enter, clock, Inv, ClockOK, Watchdog
<1> QED BY <1>1, <1>2, <1>4, <1>5, StillInv DEF StartCycle, Enter

LEMMA EndIssueInv ==
  ASSUME Inv, EndIssue
  PROVE  Inv'
<1>1. ArchOK' /\ FrontOK'
  BY ArchKept, FrontKept DEF EndIssue, Inv
<1>2. LoopOK'
  BY DEF EndIssue, Enter, Inv, LoopOK
<1>3. ClockOK'
  BY ClockKept DEF EndIssue, Enter, Inv
<1> QED BY <1>1, <1>2, <1>3, StillInv DEF EndIssue, Enter

LEMMA EndRenameInv ==
  ASSUME Inv, EndRename
  PROVE  Inv'
<1>1. ArchOK' /\ FrontOK'
  BY ArchKept, FrontKept DEF EndRename, Inv
<1>2. LoopOK'
  BY DEF EndRename, Enter, Inv, LoopOK
<1>3. ClockOK'
  BY ClockKept DEF EndRename, Enter, Inv
<1> QED BY <1>1, <1>2, <1>3, StillInv DEF EndRename, Enter

LEMMA AstrayInv ==
  ASSUME Inv, Astray
  PROVE  Inv'
<1>0. stage = "exec"
  BY DEF Astray, Ending, AtExec
<1>1. ArchOK' /\ FrontOK'
  BY ArchKept, FrontKept DEF Astray, Inv
<1>2. LoopOK'
  BY DEF Astray, Inv, LoopOK
<1>3. ClockOK'
  BY <1>0 DEF Astray, Inv, ClockOK, Watchdog
<1> QED BY <1>1, <1>2, <1>3, StillInv DEF Astray

\* A cycle that ends without a bark stays within the watchdog's bound, or halts.
LEMMA EndCycleInv ==
  ASSUME Inv, EndCycle
  PROVE  Inv'
<1>0. Watchdog \in Nat /\ MaxCycles \in Nat
  BY BufferSize, TimingAssumption DEF Inv
<1>1. ArchOK'
  BY DEF EndCycle, Inv, ArchOK
<1>2. FrontOK'
  BY FrontKept DEF EndCycle, Inv
<1>3. LoopOK'
  BY DEF EndCycle, Inv, LoopOK
<1>4. stage = "end" /\ stage' = "run" /\ cycle' = cycle + 1 /\ idle' = Stalled
      /\ status' = status /\ halted' = (halted \/ Drained) /\ ~Barks
  BY DEF EndCycle
<1>5. Stalled \in Nat /\ Stalled <= Watchdog + 1
  BY <1>0, <1>4 DEF Stalled, Inv, ClockOK
<1>6. Stalled > Watchdog => halted'
  BY <1>4 DEF Barks
<1>7. Watchdog' = Watchdog
  BY DEF EndCycle, Watchdog
<1>8. ClockOK'
  BY <1>0, <1>4, <1>5, <1>6, <1>7 DEF Inv, ClockOK
<1> QED BY <1>1, <1>2, <1>3, <1>8, StillInv DEF EndCycle

LEMMA DeadlockInv ==
  ASSUME Inv, Deadlock
  PROVE  Inv'
<1>0. Watchdog \in Nat /\ MaxCycles \in Nat
  BY BufferSize, TimingAssumption DEF Inv
<1>1. ArchOK' /\ FrontOK'
  BY ArchKept, FrontKept DEF Deadlock, Inv
<1>2. LoopOK'
  BY DEF Deadlock, Inv, LoopOK
<1>3. stage = "end" /\ stage' = "done" /\ cycle' = cycle + 1 /\ idle' = Stalled
      /\ status' = "DEADLOCK"
  BY DEF Deadlock
<1>4. Stalled \in Nat /\ Stalled <= Watchdog + 1
  BY <1>0, <1>3 DEF Stalled, Inv, ClockOK
<1>5. Watchdog' = Watchdog
  BY DEF Deadlock, Watchdog
<1>6. ClockOK'
  BY <1>0, <1>3, <1>4, <1>5 DEF Inv, ClockOK
<1> QED BY <1>1, <1>2, <1>6, StillInv DEF Deadlock

-----------------------------------------------------------------------------
(* The pass over what executes.                                            *)

LEMMA EndExecInv ==
  ASSUME Inv, EndExec
  PROVE  Inv'
<1>0. /\ stage = "exec" /\ cursor = Len(executing) /\ dropped' = {} /\ stage' = "issue"
      /\ cursor' = 0 /\ done' = 0 /\ used' = [u \in Units |-> 0]
      /\ UNCHANGED <<setup, arch, rename, rob, head, rs, lsq, executing, front, control,
                     progress, clock>>
  BY DEF EndExec, Enter
<1>1. ArchOK' /\ FrontOK' /\ ClockOK'
  BY <1>0, ArchKept, FrontKept, ClockKept DEF Inv
<1>2. LoopOK'
  BY <1>0 DEF Inv, LoopOK, UnitCount
<1>3. FileOK' /\ ListsOK' /\ BufferOK' /\ WaitingOK' /\ LsqOK'
  BY <1>0, FileKept, ListsKept, BufferKept, WaitingKept, LsqKept DEF Inv, rename
<1>4. DroppedOK'
  BY <1>0 DEF DroppedOK
<1>5. ASSUME NEW k \in 1 .. Len(executing)
      PROVE  executing[k].gone \/ executing[k].pos \in Live
  <2>1. ~(k > cursor)
    BY <1>0
  <2> QED BY <1>0, <2>1 DEF Inv, ExecutingOK
<1>6. ExecutingOK'
  BY <1>0, <1>5 DEF Inv, ExecutingOK, Executes, Live
<1> QED BY <1>1, <1>2, <1>3, <1>4, <1>6 DEF Inv

\* A list that lost the element after the cursor.
LEMMA Removal ==
  ASSUME NEW x \in Seq(Job), NEW c \in Nat, c + 1 \in 1 .. Len(x), Once(x),
         NEW y, y = RemoveAt(x, c + 1), NEW l, l = x[c + 1]
  PROVE  /\ y \in Seq(Job) /\ Len(y) = Len(x) - 1 /\ c <= Len(y)
         /\ \A j \in 1 .. Len(y) :
              y[j] = IF j < c + 1 THEN x[j] ELSE x[j + 1]
         /\ \A j \in 1 .. Len(y) :
              \E m \in 1 .. Len(x) : /\ y[j] = x[m] /\ m # c + 1
                                    /\ m = IF j < c + 1 THEN j ELSE j + 1
         /\ Once(y)
         /\ \A p : p # l.pos => (RunsIn(y, p) <=> RunsIn(x, p))
         /\ ~l.gone => ~RunsIn(y, l.pos)
<1>1. Len(x) \in Nat /\ c < Len(x)
  OBVIOUS
<1>2. /\ y \in Seq(Job) /\ Len(y) = Len(x) - 1
      /\ \A j \in 1 .. Len(x) - 1 : y[j] = IF j < c + 1 THEN x[j] ELSE x[j + 1]
  BY RemoveAtFacts
<1>3. ASSUME NEW j \in 1 .. Len(y)
      PROVE  \E m \in 1 .. Len(x) : /\ y[j] = x[m] /\ m # c + 1
                                    /\ m = IF j < c + 1 THEN j ELSE j + 1
  <2>1. CASE j < c + 1
    <3>1. j \in 1 .. Len(x) /\ j # c + 1
      BY <1>1, <1>2, <2>1
    <3> QED BY <1>2, <2>1, <3>1
  <2>2. CASE ~(j < c + 1)
    <3>1. j + 1 \in 1 .. Len(x) /\ j + 1 # c + 1
      BY <1>1, <1>2, <2>2
    <3> QED BY <1>2, <2>2, <3>1
  <2> QED BY <2>1, <2>2
<1>4. ASSUME NEW m \in 1 .. Len(x), m # c + 1 PROVE \E j \in 1 .. Len(y) : y[j] = x[m]
  <2>1. CASE m < c + 1
    <3>1. m \in 1 .. Len(y)
      BY <1>1, <1>2, <2>1
    <3> QED BY <1>2, <2>1, <3>1
  <2>2. CASE m > c + 1
    <3>1. m - 1 \in 1 .. Len(y) /\ ~(m - 1 < c + 1) /\ (m - 1) + 1 = m
      BY <1>1, <1>2, <2>2
    <3>2. y[m - 1] = x[m]
      BY <1>2, <3>1
    <3> QED BY <3>1, <3>2
  <2> QED BY <1>1, <1>4, <2>1, <2>2
<1>5. Once(y)
  <2>1. ASSUME NEW j \in 1 .. Len(y), NEW k \in 1 .. Len(y), ~y[j].gone, ~y[k].gone,
               y[j].pos = y[k].pos
        PROVE  j = k
    <3>1. PICK m \in 1 .. Len(x) : y[j] = x[m] /\ m = IF j < c + 1 THEN j ELSE j + 1
      BY <1>3
    <3>2. PICK n \in 1 .. Len(x) : y[k] = x[n] /\ n = IF k < c + 1 THEN k ELSE k + 1
      BY <1>3
    <3>3. m = n
      BY <2>1, <3>1, <3>2 DEF Once
    <3> QED BY <1>1, <1>2, <3>1, <3>2, <3>3
  <2> QED BY <2>1 DEF Once
<1>6. ASSUME NEW p, RunsIn(y, p) PROVE \E m \in 1 .. Len(x) : /\ x[m].pos = p /\ ~x[m].gone
                                                            /\ m # c + 1
  BY <1>3, <1>6 DEF RunsIn
<1>7. ASSUME NEW p, p # l.pos PROVE RunsIn(y, p) <=> RunsIn(x, p)
  <2>1. RunsIn(y, p) => RunsIn(x, p)
    BY <1>6 DEF RunsIn
  <2>2. ASSUME RunsIn(x, p) PROVE RunsIn(y, p)
    <3>1. PICK m \in 1 .. Len(x) : x[m].pos = p /\ ~x[m].gone
      BY <2>2 DEF RunsIn
    <3>2. m # c + 1
      BY <1>7, <3>1
    <3> QED BY <1>4, <3>1, <3>2 DEF RunsIn
  <2> QED BY <2>1, <2>2
<1>8. ASSUME ~l.gone PROVE ~RunsIn(y, l.pos)
  BY <1>6, <1>8 DEF Once
<1>9. c <= Len(y)
  BY <1>1, <1>2
<1> QED BY <1>2, <1>3, <1>5, <1>7, <1>8, <1>9

\* A list that lost the element the pass has come to.
LEMMA LeftExec ==
  ASSUME Inv, AtExec, LeaveExec
  PROVE  /\ Len(executing) \in Nat /\ cursor + 1 \in 1 .. Len(executing)
         /\ executing' \in Seq(Job) /\ cursor <= Len(executing') /\ Once(executing')
         /\ \A p : p # Current.pos => (Executes(p)' <=> Executes(p))
         /\ ~Current.gone => ~RunsIn(executing', Current.pos)
<1>1. /\ executing \in Seq(Job) /\ cursor \in Nat /\ cursor < Len(executing)
      /\ executing' = RemoveAt(executing, cursor + 1) /\ Once(executing)
  BY DEF Inv, LoopOK, ExecutingOK, AtExec, LeaveExec
<1>2. Len(executing) \in Nat /\ cursor + 1 \in 1 .. Len(executing)
  BY <1>1
<1>3. PICK l : l = Current
  OBVIOUS
<1>4. PICK y : y = executing'
  OBVIOUS
<1>5. l = executing[cursor + 1] /\ y = RemoveAt(executing, cursor + 1)
  BY <1>1, <1>3, <1>4 DEF Current
<1>6. /\ y \in Seq(Job) /\ cursor <= Len(y) /\ Once(y)
      /\ \A j \in 1 .. Len(y) :
           \E m \in 1 .. Len(executing) :
              /\ y[j] = executing[m] /\ m # cursor + 1
              /\ m = IF j < cursor + 1 THEN j ELSE j + 1
      /\ \A p : p # l.pos => (RunsIn(y, p) <=> RunsIn(executing, p))
      /\ ~l.gone => ~RunsIn(y, l.pos)
  BY <1>1, <1>2, <1>5, Removal
<1>7. \A p : (Executes(p) <=> RunsIn(executing, p)) /\ (Executes(p)' <=> RunsIn(y, p))
  BY <1>4 DEF Executes
<1> QED BY <1>2, <1>3, <1>4, <1>6, <1>7

LEMMA LeftPlaces ==
  ASSUME Inv, AtExec, LeaveExec, NEW j \in 1 .. Len(executing')
  PROVE  \E m \in 1 .. Len(executing) :
            executing'[j] = executing[m] /\ (m > cursor => j > cursor)
<1>1. /\ executing \in Seq(Job) /\ cursor \in Nat /\ cursor < Len(executing)
      /\ executing' = RemoveAt(executing, cursor + 1) /\ Once(executing)
  BY DEF Inv, LoopOK, ExecutingOK, AtExec, LeaveExec
<1>2. cursor + 1 \in 1 .. Len(executing)
  BY <1>1
<1>3. PICK l : l = executing[cursor + 1]
  OBVIOUS
<1>4. PICK y : y = executing'
  OBVIOUS
<1>5. \A k \in 1 .. Len(y) :
         \E m \in 1 .. Len(executing) :
            /\ y[k] = executing[m] /\ m # cursor + 1
            /\ m = IF k < cursor + 1 THEN k ELSE k + 1
  BY <1>1, <1>2, <1>3, <1>4, Removal
<1>6. j \in 1 .. Len(y)
  BY <1>4
<1>7. PICK m \in 1 .. Len(executing) :
            /\ y[j] = executing[m] /\ m # cursor + 1
            /\ m = IF j < cursor + 1 THEN j ELSE j + 1
  BY <1>5, <1>6
<1>8. m > cursor => j > cursor
  BY <1>1, <1>6, <1>7
<1> QED BY <1>4, <1>7, <1>8

\* What the pass has still to come to keeps its place after the cursor.
LEMMA StillToCome ==
  ASSUME Inv, AtExec, LeaveExec, NEW j \in 1 .. Len(executing')
  PROVE  \/ executing'[j].gone
         \/ executing'[j].pos \in Live
         \/ j > cursor /\ executing'[j].pos \in dropped
<1>1. PICK m \in 1 .. Len(executing) : executing'[j] = executing[m] /\ (m > cursor => j > cursor)
  BY LeftPlaces
<1>2. \A k \in 1 .. Len(executing) :
         \/ executing[k].gone
         \/ executing[k].pos \in Live \/ (k > cursor /\ executing[k].pos \in dropped)
  BY DEF Inv, ExecutingOK, AtExec
<1> QED BY <1>1, <1>2

LEMMA ExecDroppedInv ==
  ASSUME Inv, ExecDropped
  PROVE  Inv'
<1>0. /\ AtExec /\ LeaveExec /\ Current.pos \in dropped /\ stage = "exec"
      /\ UNCHANGED <<setup, arch, rename, rob, head, rs, lsq, dropped, front, control,
                     stage, cursor, done, used, progress, clock>>
  BY DEF ExecDropped, AtExec, loop
<1>1. ArchOK' /\ FrontOK' /\ ClockOK'
  BY <1>0, ArchKept, FrontKept, ClockKept DEF Inv
<1>2. LoopOK'
  BY <1>0 DEF Inv, LoopOK, UnitCount
<1>3. FileOK' /\ ListsOK' /\ BufferOK' /\ WaitingOK' /\ LsqOK' /\ Live' = Live
  BY <1>0, FileKept, ListsKept, BufferKept, WaitingKept, LsqKept DEF Inv, rename
<1>4. DroppedOK'
  BY <1>0, <1>3 DEF Inv, DroppedOK
<1>5. Current.pos \notin Live
  BY <1>0 DEF Inv, DroppedOK
<1>6. \A p \in Live : Executes(p)' <=> ~rob[p].done /\ p \notin rs
  BY <1>0, <1>5, LeftExec DEF Inv, ExecutingOK
<1>7. ExecutingOK'
  BY <1>0, <1>3, <1>6, LeftExec, StillToCome DEF ExecutingOK
<1> QED BY <1>1, <1>2, <1>3, <1>4, <1>7 DEF Inv

LEMMA TickInv ==
  ASSUME Inv, Tick
  PROVE  Inv'
<1>0. /\ AtExec /\ Current.pos \notin dropped /\ Current.left > 1 /\ stage = "exec"
      /\ executing' = [executing EXCEPT ![cursor + 1].left = @ - 1]
      /\ cursor' = cursor + 1
      /\ UNCHANGED <<setup, arch, rename, rob, head, rs, lsq, dropped, front, control,
                     stage, done, used, progress, clock>>
  BY DEF Tick, AtExec
<1>1. ArchOK' /\ FrontOK' /\ ClockOK'
  BY <1>0, ArchKept, FrontKept, ClockKept DEF Inv
<1>2. LoopOK'
  BY <1>0 DEF Inv, LoopOK, UnitCount
<1>3. FileOK' /\ ListsOK' /\ BufferOK' /\ WaitingOK' /\ LsqOK' /\ Live' = Live
  BY <1>0, FileKept, ListsKept, BufferKept, WaitingKept, LsqKept DEF Inv, rename
<1>4. DroppedOK'
  BY <1>0, <1>3 DEF Inv, DroppedOK
<1>5. executing \in Seq(Job) /\ cursor \in Nat /\ cursor < Len(executing)
  BY <1>0 DEF Inv, LoopOK, ExecutingOK, AtExec
<1>6. cursor + 1 \in 1 .. Len(executing) /\ Len(executing) \in Nat
  BY <1>5
<1>7. Current \in Job /\ Current = executing[cursor + 1]
  BY <1>5, <1>6, ElementOfSeq DEF Current
<1>8. PICK e : e = [Current EXCEPT !.left = @ - 1]
  OBVIOUS
<1>9. e \in Job /\ e.pos = Current.pos /\ e.gone = Current.gone
  BY <1>0, <1>7, <1>8 DEF Job
<1>10. executing' = [executing EXCEPT ![cursor + 1] = e]
  BY <1>0, <1>7, <1>8
<1>11. /\ executing' \in Seq(Job) /\ Len(executing') = Len(executing)
       /\ \A j \in 1 .. Len(executing) :
            executing'[j] = IF j = cursor + 1 THEN e ELSE executing[j]
  BY <1>5, <1>6, <1>9, <1>10, ExceptFacts
<1>12. \A j \in 1 .. Len(executing) : /\ executing'[j].pos = executing[j].pos
                                       /\ executing'[j].gone = executing[j].gone
  BY <1>7, <1>9, <1>11
<1>13. ASSUME NEW k \in 1 .. Len(executing)
       PROVE  \/ executing[k].gone \/ executing[k].pos \in Live
              \/ k > cursor + 1 /\ executing[k].pos \in dropped
  <2>1. \/ executing[k].gone \/ executing[k].pos \in Live
        \/ k > cursor /\ executing[k].pos \in dropped
    BY <1>0 DEF Inv, ExecutingOK
  <2>2. k = cursor + 1 => executing[k].pos \notin dropped
    BY <1>0, <1>7
  <2> QED BY <1>5, <2>1, <2>2
<1>14. \A p : Executes(p)' <=> Executes(p)
  BY <1>11, <1>12 DEF Executes, RunsIn
<1>16. Once(executing')
  BY <1>11, <1>12 DEF Inv, ExecutingOK, Once
<1>15. ExecutingOK'
  BY <1>0, <1>3, <1>6, <1>11, <1>12, <1>13, <1>14, <1>16 DEF Inv, ExecutingOK
<1> QED BY <1>1, <1>2, <1>3, <1>4, <1>15 DEF Inv

-----------------------------------------------------------------------------
(* One entry is rewritten.                                                 *)

LEMMA Rewritten ==
  ASSUME ArchOK, BufferOK, NEW p \in 1 .. Len(rob), NEW e \in Sound,
         rob' = [rob EXCEPT ![p] = e], UNCHANGED <<setup, head>>
  PROVE  /\ BufferOK' /\ Live' = Live /\ Len(rob') = Len(rob)
         /\ \A k \in 1 .. Len(rob) : rob'[k] = IF k = p THEN e ELSE rob[k]
<1>1. rob \in Seq(Sound) /\ Sound' = Sound
  BY SoundKept DEF BufferOK
<1>2. /\ rob' \in Seq(Sound) /\ Len(rob') = Len(rob)
      /\ \A k \in 1 .. Len(rob) : rob'[k] = IF k = p THEN e ELSE rob[k]
  BY <1>1, ExceptFacts
<1> QED BY <1>1, <1>2 DEF BufferOK, Live

LEMMA RewrittenKeepsLsq ==
  ASSUME ArchOK, BufferOK, LsqOK, NEW p \in 1 .. Len(rob), NEW e \in Sound,
         rob' = [rob EXCEPT ![p] = e], UNCHANGED <<setup, head, lsq>>, e.pc = rob[p].pc
  PROVE  LsqOK' /\ \A k \in 1 .. Len(rob) : InstrOf(k)' = InstrOf(k)
<1>1. /\ Live' = Live /\ \A k \in 1 .. Len(rob) : rob'[k] = IF k = p THEN e ELSE rob[k]
  BY Rewritten
<1>2. \A k \in 1 .. Len(rob) : rob'[k].pc = rob[k].pc
  BY <1>1
<1>3. \A k \in 1 .. Len(rob) : InstrOf(k)' = InstrOf(k)
  BY <1>2, SoundKept DEF InstrOf
<1>4. \A k \in Live : k \in 1 .. Len(rob)
  BY EntryFacts
<1> QED BY <1>1, <1>3, <1>4 DEF LsqOK, Increasing

LEMMA FinishingFacts ==
  ASSUME Inv, Finishing
  PROVE  /\ AtExec /\ stage = "exec" /\ Current.pos \in Live /\ Current.pos \in 1 .. Len(rob)
         /\ rob[Current.pos] \in Sound /\ rob[Current.pos] \in Entry
         /\ Fits(rob[Current.pos]) /\ InstrOf(Current.pos) \in Instr
         /\ ~rob[Current.pos].done /\ Current.pos \notin rs /\ ~Current.gone
<1>1. AtExec /\ stage = "exec" /\ Current.pos \notin dropped /\ ~Current.gone
  BY DEF Finishing, Ending, AtExec
<1>2. cursor + 1 \in 1 .. Len(executing)
  BY <1>1 DEF AtExec, Inv, LoopOK, ExecutingOK
<1>3. Current.pos \in Live /\ Executes(Current.pos)
  BY <1>1, <1>2 DEF Inv, ExecutingOK, Executes, RunsIn, Current
<1>4. ~rob[Current.pos].done /\ Current.pos \notin rs
  BY <1>3 DEF Inv, ExecutingOK
<1> QED BY <1>1, <1>3, <1>4, EntryFacts DEF Inv

\* An operation finishes: its entry is done and leaves the list.
LEMMA FinishQueues ==
  ASSUME Inv, Finishing, LeaveExec, NEW e \in Sound, e.done,
         e.pc = rob[Current.pos].pc, rob' = [rob EXCEPT ![Current.pos] = e],
         UNCHANGED <<setup, head, rs, lsq, dropped, stage, cursor>>
  PROVE  BufferOK' /\ WaitingOK' /\ LsqOK' /\ ExecutingOK' /\ DroppedOK'
<1>1. /\ AtExec /\ stage = "exec" /\ Current.pos \in Live /\ Current.pos \in 1 .. Len(rob)
      /\ Current.pos \notin rs /\ ~Current.gone
  BY FinishingFacts
<1>2. /\ BufferOK' /\ Live' = Live /\ Len(rob') = Len(rob)
      /\ \A k \in 1 .. Len(rob) : rob'[k] = IF k = Current.pos THEN e ELSE rob[k]
  BY <1>1, Rewritten DEF Inv
<1>3. LsqOK'
  BY <1>1, RewrittenKeepsLsq DEF Inv
<1>4. \A k \in Live : k \in 1 .. Len(rob)
  BY EntryFacts DEF Inv
<1>5. WaitingOK'
  BY <1>1, <1>2, <1>4 DEF Inv, WaitingOK
<1>6. DroppedOK'
  BY <1>2 DEF Inv, DroppedOK
<1>7. ASSUME NEW p \in Live PROVE Executes(p)' <=> ~rob'[p].done /\ p \notin rs
  <2>1. CASE p = Current.pos
    BY <1>1, <1>2, <2>1, LeftExec DEF Executes
  <2>2. CASE p # Current.pos
    <3>1. Executes(p)' <=> Executes(p)
      BY <1>1, <2>2, LeftExec
    <3>2. rob'[p] = rob[p]
      BY <1>2, <1>4, <2>2
    <3> QED BY <3>1, <3>2 DEF Inv, ExecutingOK
  <2> QED BY <2>1, <2>2
<1>8. ExecutingOK'
  BY <1>1, <1>2, <1>7, LeftExec, StillToCome DEF ExecutingOK
<1> QED BY <1>2, <1>3, <1>5, <1>6, <1>8

\* Two entries with the same part in renaming.
SameRoles(e, f) ==
  /\ e.pc = f.pc /\ e.dst = f.dst /\ e.prev = f.prev /\ e.srcs = f.srcs
  /\ e.pred = f.pred /\ e.checkpoint = f.checkpoint

LEMMA RewriteIsSound ==
  ASSUME NEW e \in Sound, NEW f \in Entry, f.val \in Word \cup {e.val}, SameRoles(f, e),
         f.mispredicted = e.mispredicted, f.operands = e.operands
  PROVE  f \in Sound
BY DEF Sound, Fits, SameRoles

LEMMA DoneIsSound ==
  ASSUME NEW e \in Sound
  PROVE  /\ [e EXCEPT !.done = TRUE] \in Sound /\ [e EXCEPT !.done = TRUE].done
         /\ SameRoles([e EXCEPT !.done = TRUE], e)
<1>1. PICK f : f = [e EXCEPT !.done = TRUE]
  OBVIOUS
<1>2. /\ f \in Entry /\ f.val = e.val /\ SameRoles(f, e) /\ f.done
      /\ f.mispredicted = e.mispredicted /\ f.operands = e.operands
  BY <1>1 DEF Sound, Entry, SameRoles
<1> QED BY <1>1, <1>2, RewriteIsSound

LEMMA ValueIsSound ==
  ASSUME NEW e \in Sound, NEW v \in Word
  PROVE  /\ [e EXCEPT !.val = v] \in Sound /\ [e EXCEPT !.val = v].done = e.done
         /\ SameRoles([e EXCEPT !.val = v], e)
<1>0. v \in Int
  BY Sizes DEF Word
<1>1. PICK f : f = [e EXCEPT !.val = v]
  OBVIOUS
<1>2. /\ f \in Entry /\ f.val = v /\ SameRoles(f, e) /\ f.done = e.done
      /\ f.mispredicted = e.mispredicted /\ f.operands = e.operands
  BY <1>0, <1>1 DEF Sound, Entry, SameRoles
<1> QED BY <1>1, <1>2, RewriteIsSound

LEMMA AccessIsSound ==
  ASSUME NEW e \in Sound, NEW a \in Addr, NEW v \in Word
  PROVE  /\ [e EXCEPT !.addr = a, !.val = v] \in Sound
         /\ [e EXCEPT !.addr = a, !.val = v].done = e.done
         /\ SameRoles([e EXCEPT !.addr = a, !.val = v], e)
<1>0. v \in Int
  BY Sizes DEF Word
<1>1. PICK f : f = [e EXCEPT !.addr = a, !.val = v]
  OBVIOUS
<1>2. /\ f \in Entry /\ f.val = v /\ SameRoles(f, e) /\ f.done = e.done
      /\ f.mispredicted = e.mispredicted /\ f.operands = e.operands
  BY <1>0, <1>1 DEF Sound, Entry, SameRoles
<1> QED BY <1>1, <1>2, RewriteIsSound

LEMMA ForwardIsSound ==
  ASSUME NEW e \in Sound, NEW v \in Word
  PROVE  /\ [e EXCEPT !.val = v, !.done = TRUE] \in Sound
         /\ [e EXCEPT !.val = v, !.done = TRUE].done
         /\ SameRoles([e EXCEPT !.val = v, !.done = TRUE], e)
<1>0. v \in Int
  BY Sizes DEF Word
<1>1. PICK f : f = [e EXCEPT !.val = v, !.done = TRUE]
  OBVIOUS
<1>2. /\ f \in Entry /\ f.val = v /\ SameRoles(f, e) /\ f.done
      /\ f.mispredicted = e.mispredicted /\ f.operands = e.operands
  BY <1>0, <1>1 DEF Sound, Entry, SameRoles
<1> QED BY <1>1, <1>2, RewriteIsSound

LEMMA CompleteInv ==
  ASSUME Inv, Complete
  PROVE  Inv'
<1>1. PICK p : p = Current.pos
  OBVIOUS
<1>2. PICK e : e = rob[p]
  OBVIOUS
<1>3. PICK d : d = ResultReg(e)
  OBVIOUS
<1>4. /\ Finishing /\ LeaveExec /\ ~IsBranch(InstrOf(p))
      /\ rob' = [rob EXCEPT ![p].done = TRUE]
      /\ physVal' = IF d = NoReg THEN physVal ELSE [physVal EXCEPT ![d] = e.val]
      /\ physReady' = IF d = NoReg THEN physReady ELSE [physReady EXCEPT ![d] = TRUE]
      /\ UNCHANGED <<setup, arch, rat, free, pendingFree, head, rs, lsq, dropped, front,
                     control, stage, cursor, done, used, progress, clock>>
  BY <1>1, <1>2, <1>3 DEF Complete, loop
<1>5. /\ p \in 1 .. Len(rob) /\ e \in Sound /\ e \in Entry /\ Fits(e) /\ stage = "exec"
  BY <1>1, <1>2, <1>4, FinishingFacts
<1>6. PICK f : f = [e EXCEPT !.done = TRUE]
  OBVIOUS
<1>7. f \in Sound /\ f.done /\ f.pc = e.pc
  BY <1>5, <1>6, DoneIsSound DEF SameRoles
<1>8. rob' = [rob EXCEPT ![p] = f]
  BY <1>2, <1>4, <1>6
<1>9. BufferOK' /\ WaitingOK' /\ LsqOK' /\ ExecutingOK' /\ DroppedOK'
  BY <1>1, <1>2, <1>4, <1>7, <1>8, FinishQueues
<1>10. ArchOK' /\ FrontOK' /\ ClockOK' /\ ListsOK'
  BY <1>4, <1>5, ArchKept, FrontKept, ClockKept, ListsKept DEF Inv
<1>11. LoopOK'
  BY <1>4 DEF Inv, LoopOK, UnitCount
<1>12. e.val \in Word
  BY <1>2, <1>4, <1>5 DEF Fits, InstrOf
<1>13. d \in Phys \cup {NoReg}
  <2>1. Cfg.phys - 1 \in Phys
    BY CfgAssumption, Sizes DEF Phys
  <2>2. e.dst \in Phys \cup {NoReg}
    BY <1>5 DEF Entry
  <2> QED BY <1>3, <2>1, <2>2 DEF ResultReg
<1>14. FileOK'
  BY <1>4, <1>12, <1>13 DEF Inv, FileOK
<1> QED BY <1>9, <1>10, <1>11, <1>14 DEF Inv

LEMMA ResolvedIsSound ==
  ASSUME ArchOK, NEW e \in Sound, IsBranch(InstrAt(e.pc))
  PROVE  /\ Resolved(e) \in Sound /\ Resolved(e).done /\ Resolved(e).pc = e.pc
         /\ Resolved(e).dst = e.dst /\ Resolved(e).prev = e.prev /\ Resolved(e).srcs = e.srcs
         /\ Resolved(e).checkpoint = e.checkpoint /\ Resolved(e).pred = e.pred
         /\ Resolved(e).val \in Int
<1>1. e \in Entry /\ Fits(e)
  BY DEF Sound
<1>2. PICK f : f = Resolved(e)
  OBVIOUS
<1>3. PICK v : v = IF Taken(e) THEN e.pc + InstrAt(e.pc).imm ELSE e.pc + 1
  OBVIOUS
<1>4. PICK m \in BOOLEAN : m = (e.pred # "none" /\ (e.pred = "taken") # Taken(e))
  OBVIOUS
<1>5. v \in Int
  <2>1. e.pc \in 0 .. Len(prog) - 1
    BY <1>1 DEF Entry
  <2>2. InstrAt(e.pc) \in Instr
    BY <2>1, SetupFacts
  <2>3. e.pc \in Int /\ InstrAt(e.pc).imm \in Int
    BY <2>1, <2>2, SetupFacts DEF Instr
  <2> QED BY <1>3, <2>3
<1>6. f = [e EXCEPT !.done = TRUE, !.val = v, !.mispredicted = m]
  BY <1>2, <1>3, <1>4 DEF Resolved
<1>7. /\ f \in Entry /\ f.done /\ f.pc = e.pc /\ f.dst = e.dst /\ f.prev = e.prev
      /\ f.srcs = e.srcs /\ f.val = v /\ f.operands = e.operands
      /\ f.checkpoint = e.checkpoint /\ f.pred = e.pred
  BY <1>1, <1>5, <1>6 DEF Entry
<1>8. Fits(f)
  BY <1>1, <1>7 DEF Fits
<1> QED BY <1>2, <1>5, <1>7, <1>8 DEF Sound

LEMMA ResolveInv ==
  ASSUME Inv, ResolveBranch
  PROVE  Inv'
<1>1. PICK p : p = Current.pos
  OBVIOUS
<1>2. /\ Finishing /\ LeaveExec /\ IsBranch(InstrOf(p))
      /\ rob' = [rob EXCEPT ![p] = Resolved(rob[p])]
      /\ UNCHANGED <<setup, arch, rename, head, rs, lsq, dropped, front, control,
                     stage, cursor, done, used, progress, clock>>
  BY <1>1 DEF ResolveBranch, loop
<1>3. p \in 1 .. Len(rob) /\ rob[p] \in Sound /\ stage = "exec"
  BY <1>1, <1>2, FinishingFacts
<1>4. PICK f : f = Resolved(rob[p])
  OBVIOUS
<1>5. f \in Sound /\ f.done /\ f.pc = rob[p].pc
  BY <1>2, <1>3, <1>4, ResolvedIsSound DEF Inv, InstrOf
<1>6. BufferOK' /\ WaitingOK' /\ LsqOK' /\ ExecutingOK' /\ DroppedOK'
  BY <1>1, <1>2, <1>4, <1>5, FinishQueues
<1>7. ArchOK' /\ FrontOK' /\ ClockOK' /\ ListsOK' /\ FileOK'
  BY <1>2, <1>3, ArchKept, FrontKept, ClockKept, ListsKept, FileKept DEF Inv, rename
<1>8. LoopOK'
  BY <1>2 DEF Inv, LoopOK, UnitCount
<1> QED BY <1>6, <1>7, <1>8 DEF Inv

-----------------------------------------------------------------------------
(* Recovery.                                                               *)

\* The registers in use once the buffer ends at position p and the map is m.
InUse(p, m) ==
  Range(m) \cup Range(pendingFree)
    \cup UNION {{rob[k].dst} \cup Range(rob[k].srcs) : k \in head + 1 .. p}

LEMMA PhysFacts ==
  /\ Phys \subseteq Nat /\ Phys \in SUBSET Int /\ IsFiniteSet(Phys)
  /\ Cardinality(Phys) = Cfg.phys /\ NoReg \notin Phys /\ Reg \subseteq Phys
<1>1. PICK n \in Nat : n = Cfg.phys
  BY CfgAssumption
<1>2. Phys = 0 .. n - 1
  BY <1>1 DEF Phys
<1>3. IsFiniteSet(0 .. n - 1) /\ Cardinality(0 .. n - 1) = n
  BY FS_Interval
<1> QED BY <1>1, <1>2, <1>3, CfgAssumption, Sizes DEF NoReg

LEMMA RebuiltFreeIs ==
  ASSUME NEW p, NEW m
  PROVE  /\ RebuiltFree(p, m) \in Seq(Phys) /\ Distinct(RebuiltFree(p, m))
         /\ Range(RebuiltFree(p, m)) = Phys \ InUse(p, m)
<1>1. PICK S : S = Phys \ InUse(p, m)
  OBVIOUS
<1>2. S \in SUBSET Phys /\ S \in SUBSET Int /\ IsFiniteSet(S)
  BY <1>1, PhysFacts, FS_Subset
<1>3. PICK f : f = Ascending(S)
  OBVIOUS
<1>4. RebuiltFree(p, m) = f
  BY <1>1, <1>3 DEF RebuiltFree, InUse
<1>5. PICK n : n = Cardinality(S)
  OBVIOUS
<1>6. /\ n \in Nat /\ f \in [1 .. n -> S]
      /\ \A j, k \in 1 .. n : j < k => f[j] < f[k]
      /\ \A x \in S : \E j \in 1 .. n : f[j] = x
  BY <1>2, <1>3, <1>5, AscendingIs
<1>0. \A x \in S : x \in Phys /\ x \in Nat
  BY <1>2, PhysFacts
<1>7. f \in Seq(Phys) /\ Len(f) = n /\ DOMAIN f = 1 .. n
  <2>1. \A j \in 1 .. n : f[j] \in Phys
    BY <1>0, <1>6
  <2> QED BY <1>6, <2>1
<1>8. Range(f) = S
  BY <1>6, <1>7 DEF Range
<1>9. Distinct(f)
  <2>1. ASSUME NEW j \in 1 .. n, NEW k \in 1 .. n, f[j] = f[k] PROVE j = k
    <3>1. f[j] \in Nat /\ f[k] \in Nat /\ j \in Int /\ k \in Int
      BY <1>0, <1>6
    <3>2. ~(f[j] < f[k]) /\ ~(f[k] < f[j])
      BY <2>1, <3>1
    <3>3. ~(j < k) /\ ~(k < j)
      BY <1>6, <3>2
    <3> QED BY <3>1, <3>3
  <2> QED BY <1>7, <2>1 DEF Distinct
<1> QED BY <1>1, <1>4, <1>7, <1>8, <1>9

LEMMA RebuiltReadyType ==
  ASSUME physReady \in [Phys -> BOOLEAN], NEW p, NEW m
  PROVE  RebuiltReady(p, m) \in [Phys -> BOOLEAN]
<1> DEFINE ok(d) == LET O(x) == {k \in head + 1 .. p : rob[k].dst = x}
                    IN  O(d) = {} \/ rob[Max(O(d))].done
<1>1. \A d \in Phys : ok(d) \in BOOLEAN /\ physReady[d] \in BOOLEAN
  OBVIOUS
<1>2. RebuiltReady(p, m) = [d \in Phys |-> IF d \in Range(RebuiltFree(p, m))
                                             THEN physReady[d] ELSE ok(d)]
  BY DEF RebuiltReady
<1> HIDE DEF ok
<1> QED BY <1>1, <1>2

\* The slots a redirect marks: those the pass has gone by, of younger entries.
LEMMA MarkedFacts ==
  ASSUME executing \in Seq(Job), cursor \in Nat, NEW p \in Int, Once(executing),
         NEW x, x = Marked(p)
  PROVE  /\ x \in Seq(Job) /\ Len(x) = Len(executing) /\ Once(x)
         /\ \A k \in 1 .. Len(executing) :
              /\ x[k].pos = executing[k].pos
              /\ k > cursor => x[k] = executing[k]
              /\ executing[k].gone => x[k].gone
              /\ k \in 1 .. cursor /\ executing[k].pos > p => x[k].gone
         /\ \A q \in Int : q <= p => (RunsIn(x, q) <=> RunsIn(executing, q))
<1>1. Len(executing) \in Nat /\ DOMAIN executing = 1 .. Len(executing)
  OBVIOUS
<1>2. ASSUME NEW k \in 1 .. Len(executing)
      PROVE  /\ x[k] \in Job /\ x[k].pos = executing[k].pos
             /\ x[k].gone <=> executing[k].gone \/ k \in PassedBy(p)
             /\ k \notin PassedBy(p) => x[k] = executing[k]
  <2>1. executing[k] \in Job
    BY ElementOfSeq
  <2>2. x[k] = [executing[k] EXCEPT !.gone = @ \/ k \in PassedBy(p)]
    BY <1>1 DEF Marked
  <2>3. PICK e : e = executing[k]
    OBVIOUS
  <2>4. PICK g \in BOOLEAN : g <=> e.gone \/ k \in PassedBy(p)
    OBVIOUS
  <2>5. e.gone \in BOOLEAN
    BY <2>1, <2>3 DEF Job
  <2>6. (e.gone \/ k \in PassedBy(p)) = g
    BY <2>4, <2>5
  <2>7. x[k] = [e EXCEPT !.gone = g]
    BY <2>2, <2>3, <2>6
  <2>8. x[k] \in Job /\ x[k].pos = e.pos /\ x[k].gone = g /\ x[k].left = e.left
    BY <2>1, <2>3, <2>7 DEF Job
  <2>9. k \notin PassedBy(p) => g = e.gone
    BY <2>4, <2>5
  <2>10. g = e.gone => x[k] = e
    BY <2>1, <2>3, <2>7 DEF Job
  <2> QED BY <2>3, <2>4, <2>8, <2>9, <2>10
<1>3. x \in Seq(Job) /\ Len(x) = Len(executing)
  <2>1. x = [k \in 1 .. Len(executing) |-> x[k]]
    BY <1>1 DEF Marked
  <2>2. PICK n \in Nat : n = Len(executing)
    BY <1>1
  <2> QED BY <1>2, <2>1, <2>2
<1>4. ASSUME NEW k \in 1 .. Len(executing)
      PROVE  /\ k > cursor => x[k] = executing[k]
             /\ executing[k].gone => x[k].gone
             /\ k \in 1 .. cursor /\ executing[k].pos > p => x[k].gone
             /\ x[k].gone => executing[k].gone \/ executing[k].pos > p
  <2>1. k > cursor => k \notin PassedBy(p)
    BY DEF PassedBy
  <2>2. k \in PassedBy(p) <=> k \in 1 .. cursor /\ executing[k].pos > p
    BY DEF PassedBy
  <2> QED BY <1>2, <2>1, <2>2
<1>5. Once(x)
  <2>1. ASSUME NEW j \in 1 .. Len(x), NEW k \in 1 .. Len(x), ~x[j].gone, ~x[k].gone,
               x[j].pos = x[k].pos
        PROVE  j = k
    <3>1. ~executing[j].gone /\ ~executing[k].gone /\ executing[j].pos = executing[k].pos
      BY <1>2, <1>3, <1>4, <2>1
    <3> QED BY <1>3, <2>1, <3>1 DEF Once
  <2> QED BY <2>1 DEF Once
<1>6. ASSUME NEW q \in Int, q <= p PROVE RunsIn(x, q) <=> RunsIn(executing, q)
  <2>1. ASSUME NEW k \in 1 .. Len(executing), executing[k].pos = q
        PROVE  x[k].gone <=> executing[k].gone
    <3>1. ~(executing[k].pos > p)
      BY <1>6, <2>1
    <3> QED BY <1>4, <3>1
  <2> QED BY <1>2, <1>3, <2>1 DEF RunsIn
<1> QED BY <1>2, <1>3, <1>4, <1>5, <1>6

LEMMA RedirectInv ==
  ASSUME Inv, Redirect
  PROVE  Inv'
<1>1. PICK p : p = Current.pos
  OBVIOUS
<1>2. PICK b : b = Resolved(rob[p])
  OBVIOUS
<1>3. /\ Finishing /\ IsBranch(InstrOf(p)) /\ executing' = RemoveAt(Marked(p), cursor + 1)
      /\ rob' = Append(SubSeq(rob, 1, p - 1), b)
      /\ rs' = {k \in rs : k \in head + 1 .. p}
      /\ lsq' = Kept(lsq, head + 1 .. p)
      /\ dropped' = dropped \cup p + 1 .. Len(rob)
      /\ free' = RebuiltFree(p, rat)
      /\ physReady' = RebuiltReady(p, rat)
      /\ fetchPc' = b.val /\ fetchQ' = <<>> /\ fetchHalted' = FALSE
      /\ UNCHANGED <<setup, arch, physVal, rat, pendingFree, head, bubble, line, control,
                     stage, cursor, done, used, progress, clock>>
  BY <1>1, <1>2 DEF Redirect, loop
<1>4. /\ AtExec /\ stage = "exec" /\ p \in Live /\ p \in 1 .. Len(rob) /\ rob[p] \in Sound
      /\ p \notin rs
  BY <1>1, <1>3, FinishingFacts
<1>5. b \in Sound /\ b.done /\ b.pc = rob[p].pc /\ b.val \in Int
  BY <1>2, <1>3, <1>4, ResolvedIsSound DEF Inv, InstrOf
<1>6. /\ Len(rob) \in Nat /\ head \in Nat /\ p > head /\ p <= Len(rob) /\ p \in Nat
      /\ Len(rob) - head <= setup.rob /\ rob \in Seq(Sound)
  BY <1>4, EntryFacts DEF Inv, BufferOK
<1>7. PICK q : q = SubSeq(rob, 1, p - 1)
  OBVIOUS
<1>8. q \in Seq(Sound) /\ Len(q) = p - 1 /\ \A k \in 1 .. p - 1 : q[k] = rob[k]
  <2>1. \A k \in 1 .. p - 1 : rob[k] \in Sound
    BY <1>6, ElementOfSeq
  <2> QED BY <1>6, <1>7, <2>1, SubSeqProperties
<1>9. /\ rob' \in Seq(Sound) /\ Len(rob') = p /\ rob'[p] = b
      /\ \A k \in 1 .. p - 1 : rob'[k] = rob[k]
  BY <1>3, <1>5, <1>6, <1>7, <1>8, AppendProperties
<1>10. Live' = head + 1 .. p /\ \A k \in Live' : k \in Live
  BY <1>3, <1>6, <1>9 DEF Live
<1>11. \A k \in Live' : rob'[k].pc = rob[k].pc /\ (k # p => rob'[k] = rob[k])
  BY <1>5, <1>6, <1>9, <1>10, SMTT(20)
<1>12. \A k \in Live' : InstrOf(k)' = InstrOf(k)
  BY <1>3, <1>11, SoundKept DEF InstrOf
<1>13. BufferOK'
  <2>1. p - head <= setup.rob
    BY <1>6, BufferSize DEF Inv
  <2> QED BY <1>3, <1>6, <1>9, <2>1, SoundKept DEF BufferOK
<1>14. ArchOK' /\ ClockOK'
  BY <1>3, <1>4, ArchKept, ClockKept DEF Inv
<1>15. LoopOK'
  BY <1>3 DEF Inv, LoopOK, UnitCount
<1>16. FrontOK'
  <2>1. fetchQ' \in Seq(Slot')
    BY <1>3
  <2> QED BY <1>3, <1>5, <2>1 DEF Inv, FrontOK
<1>17. FileOK' /\ ListsOK'
  <2>1. free' \in Seq(Phys)
    BY <1>3, RebuiltFreeIs
  <2>2. physReady' \in [Phys -> BOOLEAN]
    BY <1>3, RebuiltReadyType DEF Inv, FileOK
  <2> QED BY <1>3, <2>1, <2>2 DEF Inv, FileOK, ListsOK
<1>18. WaitingOK'
  <2>1. rs' \subseteq rs /\ rs' \subseteq Live' /\ p \notin rs'
    BY <1>3, <1>4, <1>10
  <2>2. IsFiniteSet(rs) /\ Cardinality(rs) <= Cfg.rs
    <3>1. IsFiniteSet(Live)
      BY <1>6, FS_Interval DEF Live
    <3> QED BY <3>1, FS_Subset DEF Inv, WaitingOK
  <2>3. Cardinality(rs') <= Cardinality(rs) /\ Cardinality(rs') \in Nat /\ Cardinality(rs) \in Nat
    BY <2>1, <2>2, FS_Subset, FS_CardinalityType
  <2>4. \A k \in rs' : ~rob'[k].done
    BY <1>11, <2>1 DEF Inv, WaitingOK
  <2>5. Cfg.rs \in Nat
    BY CfgAssumption
  <2> QED BY <2>1, <2>2, <2>3, <2>4, <2>5 DEF WaitingOK
<1>19. LsqOK'
  <2>1. lsq \in Seq(Nat) /\ Increasing(lsq) /\ Len(lsq) <= Cfg.lsq
        /\ Range(lsq) = {k \in Live : IsMem(InstrOf(k))}
    BY DEF Inv, LsqOK
  <2>2. /\ lsq' \in Seq(Nat) /\ Increasing(lsq') /\ Len(lsq') <= Len(lsq)
        /\ Range(lsq') = Range(lsq) \cap (head + 1 .. p)
    BY <1>3, <2>1, KeptFacts, ZenonT(30)
  <2>3. Range(lsq') = {k \in Live' : IsMem(InstrOf(k)')}
    BY <1>10, <1>12, <2>1, <2>2
  <2>4. Len(lsq') <= Cfg.lsq
    BY <2>1, <2>2, CfgAssumption
  <2> QED BY <2>2, <2>3, <2>4 DEF LsqOK, Increasing
<1>20. DroppedOK'
  <2>1. \A k \in p + 1 .. Len(rob) : k \in Nat /\ k \notin Live'
    BY <1>6, <1>10
  <2>2. dropped \cap Live' = {}
    BY <1>10 DEF Inv, DroppedOK
  <2> QED BY <1>3, <1>4, <2>1, <2>2 DEF Inv, DroppedOK
<1>a. PICK x : x = Marked(p)
  OBVIOUS
<1>b. PICK y : y = executing'
  OBVIOUS
<1>c. /\ executing \in Seq(Job) /\ cursor \in Nat /\ cursor < Len(executing) /\ Once(executing)
      /\ Current = executing[cursor + 1] /\ ~Current.gone
  BY <1>3, <1>4, FinishingFacts DEF Inv, LoopOK, ExecutingOK, AtExec, Current
<1>d. /\ x \in Seq(Job) /\ Len(x) = Len(executing) /\ Once(x)
      /\ \A k \in 1 .. Len(executing) :
           /\ x[k].pos = executing[k].pos
           /\ k > cursor => x[k] = executing[k]
           /\ executing[k].gone => x[k].gone
           /\ k \in 1 .. cursor /\ executing[k].pos > p => x[k].gone
      /\ \A k \in Int : k <= p => (RunsIn(x, k) <=> RunsIn(executing, k))
  BY <1>6, <1>a, <1>c, MarkedFacts
<1>e. /\ cursor + 1 \in 1 .. Len(x) /\ x[cursor + 1] = Current /\ y = RemoveAt(x, cursor + 1)
      /\ cursor + 1 \in 1 .. Len(executing)
  <2>1. cursor + 1 \in 1 .. Len(executing) /\ cursor + 1 > cursor
    BY <1>c
  <2> QED BY <1>3, <1>a, <1>b, <1>c, <1>d, <2>1
<1>f. /\ y \in Seq(Job) /\ cursor <= Len(y) /\ Once(y)
      /\ \A j \in 1 .. Len(y) :
           \E m \in 1 .. Len(x) : /\ y[j] = x[m] /\ m # cursor + 1
                                 /\ m = IF j < cursor + 1 THEN j ELSE j + 1
      /\ \A k : k # Current.pos => (RunsIn(y, k) <=> RunsIn(x, k))
      /\ ~Current.gone => ~RunsIn(y, Current.pos)
  BY <1>c, <1>d, <1>e, Removal
<1>21. ASSUME NEW j \in 1 .. Len(y)
       PROVE  y[j].gone \/ y[j].pos \in Live' \/ (j > cursor /\ y[j].pos \in dropped')
  <2>1. PICK m \in 1 .. Len(executing) : /\ y[j] = x[m] /\ m # cursor + 1
                                         /\ m = IF j < cursor + 1 THEN j ELSE j + 1
    BY <1>d, <1>f
  <2>2. m > cursor => j > cursor
    BY <1>c, <2>1
  <2>3. \/ executing[m].gone \/ executing[m].pos \in Live
        \/ m > cursor /\ executing[m].pos \in dropped
    BY <1>4 DEF Inv, ExecutingOK
  <2>4. \A k \in Live : k \in Nat /\ k > head /\ k <= Len(rob)
    BY <1>6 DEF Live
  <2>5. CASE executing[m].gone
    BY <1>d, <2>1, <2>5
  <2>6. CASE m > cursor /\ executing[m].pos \in dropped
    <3>1. y[j].pos = executing[m].pos
      BY <1>d, <2>1
    <3> QED BY <1>3, <2>2, <2>6, <3>1
  <2>7. CASE executing[m].pos \in Live
    <3>1. y[j].pos = executing[m].pos
      BY <1>d, <2>1
    <3>2. CASE executing[m].pos <= p
      <4>1. executing[m].pos \in head + 1 .. p
        BY <1>6, <2>4, <2>7, <3>2
      <4> QED BY <1>10, <3>1, <4>1
    <3>3. CASE executing[m].pos > p /\ m > cursor
      <4>1. executing[m].pos \in p + 1 .. Len(rob)
        BY <1>6, <2>4, <2>7, <3>3
      <4> QED BY <1>3, <2>2, <3>1, <3>3, <4>1
    <3>4. CASE executing[m].pos > p /\ ~(m > cursor)
      <4>1. m \in 1 .. cursor
        BY <1>c, <3>4
      <4> QED BY <1>d, <2>1, <3>4, <4>1
    <3>5. executing[m].pos <= p \/ executing[m].pos > p
      BY <1>6, <2>4, <2>7
    <3> QED BY <3>2, <3>3, <3>4, <3>5
  <2> QED BY <2>3, <2>5, <2>6, <2>7
<1>22. ASSUME NEW k \in Live' PROVE Executes(k)' <=> ~rob'[k].done /\ k \notin rs'
  <2>0. k \in Int /\ k <= p
    BY <1>6, <1>10
  <2>1. Executes(k)' <=> Executes(k) /\ k # p
    <3>1. Executes(k)' <=> RunsIn(y, k)
      BY <1>b DEF Executes
    <3>2. Executes(k) <=> RunsIn(x, k)
      BY <1>d, <2>0 DEF Executes
    <3> QED BY <1>1, <1>c, <1>f, <3>1, <3>2
  <2>2. k \in rs' <=> k \in rs
    BY <1>3, <1>10
  <2> QED BY <1>5, <1>9, <1>10, <1>11, <2>1, <2>2 DEF Inv, ExecutingOK
<1>23. ExecutingOK'
  BY <1>3, <1>4, <1>b, <1>f, <1>21, <1>22 DEF ExecutingOK
<1> QED BY <1>13, <1>14, <1>15, <1>16, <1>17, <1>18, <1>19, <1>20, <1>23 DEF Inv

-----------------------------------------------------------------------------
(* Issue.                                                                  *)

LEMMA ChosenFacts ==
  ASSUME Inv, CanIssue
  PROVE  /\ Chosen \in rs /\ Chosen \in Live /\ Chosen \in 1 .. Len(rob) /\ Chosen \in Nat
         /\ rob[Chosen] \in Sound /\ rob[Chosen] \in Entry /\ Fits(rob[Chosen])
         /\ InstrOf(Chosen) \in Instr
         /\ ~rob[Chosen].done /\ ~Executes(Chosen) /\ Issuable(Chosen)
         /\ stage = "issue"
<1>1. \A p \in Live : p \in Nat
  BY EntryFacts DEF Inv
<1>2. Candidates \in SUBSET Nat /\ Candidates # {} /\ Candidates \subseteq rs
  BY <1>1 DEF CanIssue, Candidates, Inv, WaitingOK
<1>3. Chosen \in Candidates
  BY <1>2, MinOfNaturals DEF Chosen
<1>4. Chosen \in rs /\ Issuable(Chosen) /\ Chosen \in Live
  BY <1>2, <1>3 DEF Candidates, Inv, WaitingOK
<1>5. ~rob[Chosen].done /\ ~Executes(Chosen)
  BY <1>4 DEF Inv, WaitingOK, ExecutingOK
<1> QED BY <1>1, <1>4, <1>5, EntryFacts DEF Inv, CanIssue

LEMMA OperandType ==
  ASSUME Inv, NEW p \in 1 .. Len(rob), NEW k
  PROVE  Operand(p, k) \in Word /\ Operand(p, k) \in Int
<1>1. rob[p].srcs \in Seq(Phys)
  BY EntryFacts DEF Inv, Entry
<1>2. Word \subseteq Int /\ 0 \in Word
  BY Sizes DEF Word
<1>3. k \in DOMAIN rob[p].srcs => physVal[rob[p].srcs[k]] \in Word
  BY <1>1, ElementOfSeq DEF Inv, FileOK
<1> QED BY <1>2, <1>3 DEF Operand

LEMMA AddressOfType ==
  ASSUME Inv, NEW p \in 1 .. Len(rob)
  PROVE  AddressOf(p) \in Addr
BY OperandType, EntryFacts, AddressType DEF Inv, AddressOf

\* The waiting entry that was chosen leaves the station.
LEMMA LeftRs ==
  ASSUME Inv, CanIssue, NEW e \in Sound, e.pc = rob[Chosen].pc,
         rob' = [rob EXCEPT ![Chosen] = e], LeaveRs(Chosen)
  PROVE  /\ ArchOK' /\ BufferOK' /\ FrontOK' /\ ListsOK' /\ ClockOK' /\ WaitingOK' /\ LsqOK'
         /\ DroppedOK' /\ Live' = Live
         /\ \A k \in Live : rob'[k] = IF k = Chosen THEN e ELSE rob[k]
<1>1. PICK p : p = Chosen
  OBVIOUS
<1>2. /\ p \in rs /\ p \in 1 .. Len(rob) /\ stage = "issue"
  BY <1>1, ChosenFacts
<1>3. /\ rs' = rs \ {p} /\ rob' = [rob EXCEPT ![p] = e] /\ e.pc = rob[p].pc
      /\ UNCHANGED <<setup, arch, rat, free, pendingFree, head, lsq, dropped, front,
                     control, stage, clock>>
  BY <1>1 DEF LeaveRs
<1>4. /\ BufferOK' /\ Live' = Live
      /\ \A k \in 1 .. Len(rob) : rob'[k] = IF k = p THEN e ELSE rob[k]
  BY <1>2, <1>3, Rewritten DEF Inv
<1>5. LsqOK'
  BY <1>2, <1>3, RewrittenKeepsLsq DEF Inv
<1>6. \A k \in Live : k \in 1 .. Len(rob)
  BY EntryFacts DEF Inv
<1>7. IsFiniteSet(rs) /\ Cardinality(rs) <= Cfg.rs /\ rs \subseteq Live
  <2>1. IsFiniteSet(Live)
    BY EntryFacts, FS_Interval DEF Inv, Live
  <2> QED BY <2>1, FS_Subset DEF Inv, WaitingOK
<1>8. Cardinality(rs') <= Cfg.rs
  <2>1. Cardinality(rs') = Cardinality(rs) - 1 /\ Cardinality(rs) \in Nat
    BY <1>2, <1>3, <1>7, FS_RemoveElement, FS_CardinalityType
  <2> QED BY <1>7, <2>1, CfgAssumption
<1>9. WaitingOK'
  BY <1>3, <1>4, <1>6, <1>7, <1>8 DEF Inv, WaitingOK
<1>10. ArchOK' /\ FrontOK' /\ ListsOK' /\ ClockOK'
  BY <1>2, <1>3, ArchKept, FrontKept, ListsKept, ClockKept DEF Inv
<1>11. DroppedOK'
  BY <1>3, <1>4 DEF Inv, DroppedOK
<1> QED BY <1>1, <1>4, <1>5, <1>6, <1>9, <1>10, <1>11

LEMMA DispatchInv ==
  ASSUME Inv, CanIssue, NEW e \in Sound, e.pc = rob[Chosen].pc, ~e.done,
         rob' = [rob EXCEPT ![Chosen] = e], LeaveRs(Chosen),
         NEW n \in Nat, Dispatch(Chosen, n), UNCHANGED <<physVal, physReady>>
  PROVE  Inv'
<1>0. PICK p : p = Chosen
  OBVIOUS
<1>1. /\ ArchOK' /\ BufferOK' /\ FrontOK' /\ ListsOK' /\ ClockOK' /\ WaitingOK' /\ LsqOK'
      /\ DroppedOK' /\ Live' = Live
      /\ \A k \in Live : rob'[k] = IF k = p THEN e ELSE rob[k]
  BY <1>0, LeftRs
<1>2. /\ p \in rs /\ p \in Live /\ p \in 1 .. Len(rob) /\ p \in Nat /\ stage = "issue"
      /\ ~Executes(p) /\ Issuable(p)
  BY <1>0, ChosenFacts
<1>3. /\ executing' = Append(executing, [pos |-> p, left |-> n, gone |-> FALSE])
      /\ used' = [used EXCEPT ![UnitOf(InstrOf(p))] = @ + 1]
      /\ done' = done + 1 /\ progress' = TRUE
      /\ rs' = rs \ {p} /\ cursor' = p /\ rat' = rat /\ control' = control /\ stage' = stage
      /\ UNCHANGED <<setup, head, dropped, physVal, physReady>>
  BY <1>0 DEF Dispatch, LeaveRs
<1>4. FileOK'
  BY <1>3, FileKept DEF Inv
<1>5. LoopOK'
  <2>1. UnitOf(InstrOf(p)) \in DOMAIN used =>
           /\ used[UnitOf(InstrOf(p))] \in 0 .. UnitCount(UnitOf(InstrOf(p)))
           /\ used[UnitOf(InstrOf(p))] < UnitCount(UnitOf(InstrOf(p)))
    BY <1>2 DEF Issuable, Inv, LoopOK
  <2>2. \A u : UnitCount(u)' = UnitCount(u) /\ UnitCount(u) \in Nat
    BY <1>3 DEF UnitCount
  <2>3. \A u \in DOMAIN used : used[u] \in 0 .. UnitCount(u)
    BY <1>2 DEF Inv, LoopOK
  <2>4. ASSUME NEW u \in DOMAIN used' PROVE used'[u] \in 0 .. UnitCount(u)
    <3>1. u \in DOMAIN used
      BY <1>3
    <3>2. CASE u = UnitOf(InstrOf(p))
      <4>1. used'[u] = used[u] + 1
        BY <1>3, <3>1, <3>2
      <4>2. used[u] \in 0 .. UnitCount(u) /\ used[u] < UnitCount(u)
        BY <2>1, <3>1, <3>2
      <4> QED BY <2>2, <4>1, <4>2
    <3>3. CASE u # UnitOf(InstrOf(p))
      BY <1>3, <2>3, <3>1, <3>3
    <3> QED BY <3>2, <3>3
  <2>5. /\ control' \in Bundle /\ stage' = "issue" /\ cursor' \in Nat /\ done' \in Nat
        /\ progress' \in BOOLEAN
    BY <1>2, <1>3 DEF Inv, LoopOK
  <2> QED BY <2>2, <2>4, <2>5 DEF LoopOK
<1>6. /\ executing \in Seq(Job)
      /\ \A k \in 1 .. Len(executing) : executing[k].gone \/ executing[k].pos \in Live
  BY <1>2 DEF Inv, ExecutingOK
<1>7. PICK j : j = [pos |-> p, left |-> n, gone |-> FALSE]
  OBVIOUS
<1>8. j \in Job /\ j.pos = p /\ ~j.gone
  BY <1>2, <1>7 DEF Job
<1>9. /\ executing' \in Seq(Job) /\ Len(executing') = Len(executing) + 1
      /\ \A k \in 1 .. Len(executing) : executing'[k] = executing[k]
      /\ executing'[Len(executing) + 1] = j /\ Len(executing) \in Nat
  BY <1>3, <1>6, <1>7, <1>8, AppendProperties
<1>10. \A k \in 1 .. Len(executing') : k \in 1 .. Len(executing) \/ k = Len(executing) + 1
  BY <1>9
<1>11. \A k \in 1 .. Len(executing) : executing[k].pos # p \/ executing[k].gone
  BY <1>2 DEF Executes, RunsIn
<1>12. Once(executing')
  <2>1. ASSUME NEW a \in 1 .. Len(executing'), NEW b \in 1 .. Len(executing'),
               ~executing'[a].gone, ~executing'[b].gone, executing'[a].pos = executing'[b].pos
        PROVE  a = b
    BY <1>8, <1>9, <1>10, <1>11, <2>1 DEF Inv, ExecutingOK, Once
  <2> QED BY <2>1 DEF Once
<1>13. \A k \in 1 .. Len(executing') : executing'[k].gone \/ executing'[k].pos \in Live
  BY <1>2, <1>6, <1>8, <1>9, <1>10
<1>14. ASSUME NEW q \in Live PROVE Executes(q)' <=> Executes(q) \/ q = p
  <2>1. ASSUME Executes(q)' PROVE Executes(q) \/ q = p
    <3>1. PICK k \in 1 .. Len(executing') : executing'[k].pos = q /\ ~executing'[k].gone
      BY <2>1 DEF Executes, RunsIn
    <3> QED BY <1>8, <1>9, <1>10, <3>1 DEF Executes, RunsIn
  <2>2. ASSUME Executes(q) PROVE Executes(q)'
    <3>1. PICK k \in 1 .. Len(executing) : executing[k].pos = q /\ ~executing[k].gone
      BY <2>2 DEF Executes, RunsIn
    <3>2. k \in 1 .. Len(executing')
      BY <1>9
    <3> QED BY <1>9, <3>1, <3>2 DEF Executes, RunsIn
  <2>3. ASSUME q = p PROVE Executes(q)'
    <3>1. Len(executing) + 1 \in 1 .. Len(executing')
      BY <1>9
    <3> QED BY <1>8, <1>9, <2>3, <3>1 DEF Executes, RunsIn
  <2> QED BY <2>1, <2>2, <2>3
<1>15. \A q \in Live : Executes(q)' <=> ~rob'[q].done /\ q \notin rs'
  BY <1>1, <1>2, <1>3, <1>14 DEF Inv, ExecutingOK
<1>16. ExecutingOK'
  BY <1>1, <1>2, <1>3, <1>9, <1>12, <1>13, <1>15 DEF ExecutingOK
<1> QED BY <1>1, <1>4, <1>5, <1>16 DEF Inv

\* A load that takes a store's datum, and a prefetch, are done without executing.
LEMMA AtOnceInv ==
  ASSUME Inv, CanIssue, NEW e \in Sound, e.pc = rob[Chosen].pc, e.done,
         rob' = [rob EXCEPT ![Chosen] = e], LeaveRs(Chosen),
         UNCHANGED <<executing, used, done, progress>>, FileOK'
  PROVE  Inv'
<1>0. PICK p : p = Chosen
  OBVIOUS
<1>1. /\ ArchOK' /\ BufferOK' /\ FrontOK' /\ ListsOK' /\ ClockOK' /\ WaitingOK' /\ LsqOK'
      /\ DroppedOK' /\ Live' = Live
      /\ \A k \in Live : rob'[k] = IF k = p THEN e ELSE rob[k]
  BY <1>0, LeftRs
<1>2. /\ p \in rs /\ p \in Live /\ p \in Nat /\ stage = "issue" /\ ~Executes(p)
  BY <1>0, ChosenFacts
<1>3. /\ rs' = rs \ {p} /\ cursor' = p /\ control' = control /\ stage' = stage
      /\ UNCHANGED <<setup, head, dropped, executing, used, done, progress>>
  BY <1>0 DEF LeaveRs
<1>4. LoopOK'
  BY <1>2, <1>3 DEF Inv, LoopOK, UnitCount
<1>5. \A q : Executes(q)' <=> Executes(q)
  BY <1>3 DEF Executes
<1>6. \A q \in Live : Executes(q)' <=> ~rob'[q].done /\ q \notin rs'
  BY <1>1, <1>2, <1>3, <1>5 DEF Inv, ExecutingOK
<1>7. ExecutingOK'
  BY <1>1, <1>2, <1>3, <1>6 DEF Inv, ExecutingOK
<1> QED BY <1>1, <1>4, <1>7 DEF Inv

IssueStep ==
  \/ \E s \in BOOLEAN : IssueAlu(s)
  \/ IssueBranch \/ IssueStore \/ Forward \/ IssuePrefetch
  \/ \E c \in setup.loads : IssueLoad(c)

\* What a step of the issue stage does: the chosen entry leaves the station, keeps its
\* part in renaming, and executes or is done.
Sent(e) == ~e.done /\ UNCHANGED <<physVal, physReady>> /\ \E n \in Nat : Dispatch(Chosen, n)
Settled(e) ==
  /\ e.done /\ UNCHANGED <<executing, used, done, progress>> /\ FileOK'
  /\ \A d \in Phys : physReady[d] => physReady'[d]
  /\ e.dst # NoReg => physReady'[e.dst]

IssueForm(e) ==
  /\ CanIssue /\ LeaveRs(Chosen)
  /\ rob' = [rob EXCEPT ![Chosen] = e] /\ SameRoles(e, rob[Chosen])
  /\ Sent(e) \/ Settled(e)

LEMMA AluForm ==
  ASSUME Inv, NEW flag \in BOOLEAN, IssueAlu(flag)
  PROVE  \E e \in Sound : IssueForm(e)
<1>1. PICK p : p = Chosen
  OBVIOUS
<1>2. PICK v : v = Value(InstrOf(p), Operand(p, 1), Operand(p, 2))
  OBVIOUS
<1>3. PICK n : n = AluCycles(InstrOf(p), flag)
  OBVIOUS
<1>4. /\ CanIssue /\ rob' = [rob EXCEPT ![p].val = v]
      /\ Dispatch(p, n) /\ LeaveRs(p) /\ UNCHANGED <<physVal, physReady>>
  BY <1>1, <1>2, <1>3 DEF IssueAlu
<1>5. /\ p \in 1 .. Len(rob) /\ rob[p] \in Sound /\ ~rob[p].done /\ InstrOf(p) \in Instr
  BY <1>1, <1>4, ChosenFacts
<1>6. v \in Word
  BY <1>2, <1>5, OperandType, ValueType
<1>8. n \in Nat
  BY <1>3, <1>5, AluCyclesType
<1>9. PICK e : e = [rob[p] EXCEPT !.val = v]
  OBVIOUS
<1>11. e \in Sound /\ SameRoles(e, rob[p]) /\ ~e.done
  BY <1>5, <1>6, <1>9, ValueIsSound
<1>12. rob' = [rob EXCEPT ![p] = e]
  BY <1>4, <1>9
<1>13. IssueForm(e)
  BY <1>1, <1>4, <1>8, <1>11, <1>12 DEF IssueForm, Sent
<1> QED BY <1>11, <1>13

LEMMA BranchForm ==
  ASSUME Inv, IssueBranch
  PROVE  \E e \in Sound : IssueForm(e)
<1>1. PICK p : p = Chosen
  OBVIOUS
<1>2. PICK o : o = <<Operand(p, 1), Operand(p, 2)>>
  OBVIOUS
<1>3. /\ CanIssue /\ rob' = [rob EXCEPT ![p].operands = o] /\ IsBranch(InstrOf(p))
      /\ Dispatch(p, StepCycles) /\ LeaveRs(p) /\ UNCHANGED <<physVal, physReady>>
  BY <1>1, <1>2 DEF IssueBranch
<1>4. /\ p \in 1 .. Len(rob) /\ rob[p] \in Entry /\ Fits(rob[p]) /\ ~rob[p].done
      /\ InstrOf(p) \in Instr
  BY <1>1, <1>3, ChosenFacts
<1>5. o \in Int \X Int
  BY <1>2, <1>4, OperandType
<1>6. PICK e : e = [rob[p] EXCEPT !.operands = o]
  OBVIOUS
<1>7. /\ e \in Entry /\ SameRoles(e, rob[p]) /\ ~e.done /\ e.operands = o
  BY <1>4, <1>5, <1>6 DEF Entry, SameRoles
<1>8. NeverTaken(InstrOf(p)) => o[1] = o[2]
  <2>1. ASSUME NeverTaken(InstrOf(p)) PROVE Operand(p, 1) = Operand(p, 2)
    <3>1. rob[p].srcs[1] = rob[p].srcs[2] /\ Len(rob[p].srcs) = Len(Reads(InstrOf(p)))
      BY <1>4, <2>1 DEF Fits, InstrOf
    <3>2. Len(Reads(InstrOf(p))) = 2
      BY <1>4, <2>1, NeverTakenReads
    <3>3. rob[p].srcs \in Seq(Phys)
      BY <1>4 DEF Entry
    <3>4. 1 \in DOMAIN rob[p].srcs /\ 2 \in DOMAIN rob[p].srcs
      BY <3>1, <3>2, <3>3
    <3> QED BY <3>1, <3>4 DEF Operand
  <2> QED BY <1>2, <2>1
<1>9. e \in Sound
  BY <1>3, <1>4, <1>7, <1>8 DEF Sound, Fits, SameRoles, InstrOf
<1>10. rob' = [rob EXCEPT ![p] = e]
  BY <1>3, <1>6
<1>11. StepCycles \in Nat
  BY StepCyclesType
<1>12. IssueForm(e)
  BY <1>1, <1>3, <1>7, <1>10, <1>11 DEF IssueForm, Sent
<1> QED BY <1>9, <1>12

LEMMA StoreForm ==
  ASSUME Inv, IssueStore
  PROVE  \E e \in Sound : IssueForm(e)
<1>1. PICK p : p = Chosen
  OBVIOUS
<1>2. PICK a : a = AddressOf(p)
  OBVIOUS
<1>3. PICK v : v = Operand(p, 2)
  OBVIOUS
<1>4. /\ CanIssue /\ rob' = [rob EXCEPT ![p].addr = a, ![p].val = v]
      /\ Dispatch(p, StepCycles) /\ LeaveRs(p) /\ UNCHANGED <<physVal, physReady>>
  BY <1>1, <1>2, <1>3 DEF IssueStore
<1>5. p \in 1 .. Len(rob) /\ rob[p] \in Sound /\ ~rob[p].done
  BY <1>1, <1>4, ChosenFacts
<1>6. a \in Addr /\ v \in Word
  BY <1>2, <1>3, <1>5, OperandType, AddressOfType
<1>7. PICK e : e = [rob[p] EXCEPT !.addr = a, !.val = v]
  OBVIOUS
<1>8. e \in Sound /\ SameRoles(e, rob[p]) /\ ~e.done
  BY <1>5, <1>6, <1>7, AccessIsSound, ZenonT(30)
<1>9. rob' = [rob EXCEPT ![p] = e]
  BY <1>4, <1>7
<1>10. StepCycles \in Nat
  BY StepCyclesType
<1>11. IssueForm(e)
  BY <1>1, <1>4, <1>8, <1>9, <1>10 DEF IssueForm, Sent
<1> QED BY <1>8, <1>11

LEMMA LoadForm ==
  ASSUME Inv, NEW c \in setup.loads, IssueLoad(c)
  PROVE  \E e \in Sound : IssueForm(e)
<1>1. PICK p : p = Chosen
  OBVIOUS
<1>2. PICK a : a = AddressOf(p)
  OBVIOUS
<1>3. PICK v : v = mem[a]
  OBVIOUS
<1>4. /\ CanIssue /\ rob' = [rob EXCEPT ![p].addr = a, ![p].val = v]
      /\ Dispatch(p, LoadLatency(c)) /\ LeaveRs(p) /\ UNCHANGED <<physVal, physReady>>
  BY <1>1, <1>2, <1>3 DEF IssueLoad
<1>5. p \in 1 .. Len(rob) /\ rob[p] \in Sound /\ ~rob[p].done /\ InstrOf(p) \in Instr
  BY <1>1, <1>4, ChosenFacts
<1>6. a \in Addr /\ v \in Word
  BY <1>2, <1>3, <1>5, AddressOfType DEF Inv, ArchOK
<1>7. PICK e : e = [rob[p] EXCEPT !.addr = a, !.val = v]
  OBVIOUS
<1>8. e \in Sound /\ SameRoles(e, rob[p]) /\ ~e.done
  BY <1>5, <1>6, <1>7, AccessIsSound, ZenonT(30)
<1>9. rob' = [rob EXCEPT ![p] = e]
  BY <1>4, <1>7
<1>10. LoadLatency(c) \in Nat
  <2>1. c \in LoadCycles
    BY SetupFacts DEF Inv, SetupOK
  <2> QED BY <2>1, LoadLatencyType
<1>11. IssueForm(e)
  BY <1>1, <1>4, <1>8, <1>9, <1>10 DEF IssueForm, Sent
<1> QED BY <1>8, <1>11

LEMMA DeciderType ==
  ASSUME Inv, NEW p, Deciding(p) # {}
  PROVE  /\ Decider(p) \in Deciding(p) /\ Decider(p) \in 1 .. Len(rob)
         /\ rob[Decider(p)].srcs[2] \in Phys
<1>1. Range(lsq) \subseteq Live /\ \A k \in Live : k \in 1 .. Len(rob)
  BY EntryFacts DEF Inv, LsqOK
<1>2. Deciding(p) \in SUBSET Nat /\ Deciding(p) \subseteq Live
  BY <1>1 DEF Deciding
<1>3. Decider(p) \in Deciding(p)
  BY <1>2, MinOfNaturals DEF Decider
<1>4. PICK k : k = Decider(p)
  OBVIOUS
<1>5. k \in 1 .. Len(rob) /\ InstrOf(k).op = "STORE"
  BY <1>1, <1>2, <1>3, <1>4 DEF Deciding
<1>6. rob[k].srcs \in Seq(Phys) /\ Len(rob[k].srcs) = Len(Reads(InstrOf(k)))
      /\ InstrOf(k) \in Instr
  BY <1>5, EntryFacts DEF Inv, Entry, Fits, InstrOf
<1>7. Len(rob[k].srcs) = 2
  BY <1>5, <1>6, ReadsType
<1>8. rob[k].srcs[2] \in Phys
  BY <1>6, <1>7, ElementOfSeq
<1> QED BY <1>3, <1>4, <1>5, <1>8

LEMMA ForwardForm ==
  ASSUME Inv, Forward
  PROVE  \E e \in Sound : IssueForm(e)
<1>1. PICK p : p = Chosen
  OBVIOUS
<1>2. PICK v : v = physVal[rob[Decider(p)].srcs[2]]
  OBVIOUS
<1>3. PICK d : d = rob[p].dst
  OBVIOUS
<1>4. /\ CanIssue /\ Deciding(p) # {}
      /\ rob' = [rob EXCEPT ![p].val = v, ![p].done = TRUE]
      /\ physVal' = IF d = NoReg THEN physVal ELSE [physVal EXCEPT ![d] = v]
      /\ physReady' = IF d = NoReg THEN physReady ELSE [physReady EXCEPT ![d] = TRUE]
      /\ LeaveRs(p) /\ UNCHANGED <<executing, used, done, progress>>
  BY <1>1, <1>2, <1>3 DEF Forward
<1>5. p \in 1 .. Len(rob) /\ rob[p] \in Sound /\ rob[p] \in Entry
  BY <1>1, <1>4, ChosenFacts
<1>6. v \in Word /\ d \in Phys \cup {NoReg}
  BY <1>2, <1>3, <1>4, <1>5, DeciderType DEF Inv, FileOK, Entry
<1>7. PICK e : e = [rob[p] EXCEPT !.val = v, !.done = TRUE]
  OBVIOUS
<1>9. e \in Sound /\ SameRoles(e, rob[p]) /\ e.done
  BY <1>5, <1>6, <1>7, ForwardIsSound
<1>10. rob' = [rob EXCEPT ![p] = e]
  BY <1>4, <1>7
<1>11. FileOK' /\ (\A x \in Phys : physReady[x] => physReady'[x])
       /\ (d # NoReg => physReady'[d])
  BY <1>4, <1>6 DEF LeaveRs, Inv, FileOK
<1>12. e.dst = d
  BY <1>3, <1>9 DEF SameRoles
<1>13. IssueForm(e)
  BY <1>1, <1>4, <1>9, <1>10, <1>11, <1>12 DEF IssueForm, Settled
<1> QED BY <1>9, <1>13

LEMMA PrefetchForm ==
  ASSUME Inv, IssuePrefetch
  PROVE  \E e \in Sound : IssueForm(e)
<1>1. PICK p : p = Chosen
  OBVIOUS
<1>2. /\ CanIssue /\ InstrOf(p).op = "PREFETCH"
      /\ rob' = [rob EXCEPT ![p].done = TRUE]
      /\ LeaveRs(p) /\ UNCHANGED <<physVal, physReady, executing, used, done, progress>>
  BY <1>1 DEF IssuePrefetch
<1>3. p \in 1 .. Len(rob) /\ rob[p] \in Sound /\ Fits(rob[p])
  BY <1>1, <1>2, ChosenFacts
<1>4. PICK e : e = [rob[p] EXCEPT !.done = TRUE]
  OBVIOUS
<1>7. e \in Sound /\ SameRoles(e, rob[p]) /\ e.done
  BY <1>3, <1>4, DoneIsSound
<1>8. rob' = [rob EXCEPT ![p] = e]
  BY <1>2, <1>4
<1>9. FileOK'
  BY <1>2, FileKept DEF LeaveRs, Inv
<1>10. e.dst = NoReg
  <2>1. ~WritesRd(InstrOf(p))
    BY <1>2 DEF WritesRd, Micro!Writes
  <2> QED BY <1>3, <1>7, <2>1 DEF Fits, SameRoles, InstrOf
<1>11. IssueForm(e)
  BY <1>1, <1>2, <1>7, <1>8, <1>9, <1>10 DEF IssueForm, Settled
<1> QED BY <1>7, <1>11

LEMMA IssueStepForm ==
  ASSUME Inv, IssueStep
  PROVE  \E e \in Sound : IssueForm(e)
<1>1. ASSUME NEW s \in BOOLEAN, IssueAlu(s) PROVE \E e \in Sound : IssueForm(e)
  BY <1>1, AluForm
<1>2. ASSUME NEW c \in setup.loads, IssueLoad(c) PROVE \E e \in Sound : IssueForm(e)
  BY <1>2, LoadForm
<1> QED BY <1>1, <1>2, BranchForm, StoreForm, ForwardForm, PrefetchForm DEF IssueStep

LEMMA IssueStepInv ==
  ASSUME Inv, IssueStep
  PROVE  Inv'
<1>1. PICK e \in Sound : IssueForm(e)
  BY IssueStepForm
<1>2. /\ CanIssue /\ LeaveRs(Chosen) /\ rob' = [rob EXCEPT ![Chosen] = e]
      /\ e.pc = rob[Chosen].pc
  BY <1>1 DEF IssueForm, SameRoles
<1>3. CASE Sent(e)
  <2>1. PICK n \in Nat : Dispatch(Chosen, n)
    BY <1>3 DEF Sent
  <2> QED BY <1>2, <1>3, <2>1, DispatchInv DEF Sent
<1>4. CASE Settled(e)
  BY <1>2, <1>4, AtOnceInv DEF Settled
<1> QED BY <1>1, <1>3, <1>4 DEF IssueForm

-----------------------------------------------------------------------------
(* Rename.                                                                 *)

LEMMA SourcesType ==
  ASSUME NEW i \in Instr, rat \in [Reg -> Phys]
  PROVE  /\ Sources(i) \in Seq(Phys) /\ Len(Sources(i)) = Len(Reads(i))
         /\ \A k \in 1 .. Len(Reads(i)) : /\ Reads(i)[k] \in Reg
                                          /\ Sources(i)[k] = rat[Reads(i)[k]]
<1>1. PICK q : q = Reads(i)
  OBVIOUS
<1>2. q \in Seq(Reg)
  BY <1>1, ReadsType
<1>3. Len(q) \in Nat /\ DOMAIN q = 1 .. Len(q) /\ \A k \in 1 .. Len(q) : q[k] \in Reg
  BY <1>2, LenProperties, ElementOfSeq
<1>4. PICK t : t = [k \in 1 .. Len(q) |-> rat[q[k]]]
  OBVIOUS
<1>5. t \in Seq(Phys) /\ Len(t) = Len(q) /\ \A k \in 1 .. Len(q) : t[k] = rat[q[k]]
  BY <1>3, <1>4
<1>6. Sources(i) = t
  BY <1>1, <1>3, <1>4 DEF Sources
<1> QED BY <1>1, <1>3, <1>5, <1>6

LEMMA IncomingFacts ==
  ASSUME Inv, CanRename
  PROVE  /\ fetchQ \in Seq(Slot) /\ fetchQ # <<>> /\ Head(fetchQ) \in Slot
         /\ Tail(fetchQ) \in Seq(Slot) /\ Incoming \in Instr /\ stage = "rename"
         /\ WritesRd(Incoming) => Last(free) \in Phys /\ free # <<>>
<1>1. fetchQ \in Seq(Slot) /\ fetchQ # <<>>
  BY DEF Inv, FrontOK, CanRename
<1>2. Head(fetchQ) \in Slot /\ Tail(fetchQ) \in Seq(Slot)
  BY <1>1, HeadTailProperties
<1>3. Incoming \in Instr
  BY <1>2, SetupFacts DEF Inv, Slot, Incoming
<1>4. ASSUME WritesRd(Incoming) PROVE Last(free) \in Phys /\ free # <<>>
  <2>1. free # <<>> /\ free \in Seq(Phys)
    BY <1>4 DEF CanRename, Inv, ListsOK
  <2>2. Len(free) \in 1 .. Len(free)
    BY <2>1, EmptySeq
  <2> QED BY <2>1, <2>2, ElementOfSeq DEF Last
<1> QED BY <1>1, <1>2, <1>3, <1>4 DEF CanRename

LEMMA NewEntryFacts ==
  ASSUME Inv, NEW f \in Slot, NEW d \in Phys \cup {NoReg},
         d # NoReg <=> WritesRd(InstrAt(f.pc)), NEW e, e = NewEntry(f, InstrAt(f.pc), d)
  PROVE  /\ e \in Sound /\ e.pc = f.pc /\ e.dst = d /\ e.pred = f.pred
         /\ e.srcs = Sources(InstrAt(f.pc))
         /\ WritesRd(InstrAt(f.pc)) => e.prev = rat[InstrAt(f.pc).rd]
         /\ IsBranch(InstrAt(f.pc)) => e.checkpoint = rat
         /\ e.done <=> IsHalt(InstrAt(f.pc)) \/ InstrAt(f.pc).op = "FENCE"
<1>1. PICK i : i = InstrAt(f.pc)
  OBVIOUS
<1>2. f.pc \in 0 .. Len(prog) - 1 /\ f.pred \in {"none", "taken", "fall"} /\ i \in Instr
  BY <1>1, SetupFacts DEF Inv, Slot
<1>3. rat \in [Reg -> Phys] /\ rat[0] = 0
  BY DEF Inv, FileOK
<1>4. PICK s : s = Sources(i)
  OBVIOUS
<1>5. PICK v : v = IF d = NoReg THEN NoReg ELSE rat[i.rd]
  OBVIOUS
<1>6. PICK c : c = IF IsBranch(i) THEN rat ELSE <<>>
  OBVIOUS
<1>8. s \in Seq(Phys) /\ Len(s) = Len(Reads(i)) /\ i.rd \in Reg
  BY <1>2, <1>3, <1>4, SourcesType, ReadsType
<1>9. v \in Phys \cup {NoReg} /\ (v # NoReg <=> d # NoReg)
  BY <1>3, <1>5, <1>8, PhysFacts
<1>10. c \in [Reg -> Phys] \cup {<<>>}
  BY <1>3, <1>6
<1>11. e = [pc |-> f.pc, dst |-> d, prev |-> v, srcs |-> s,
            done |-> IsHalt(i) \/ i.op = "FENCE", val |-> 0,
            addr |-> NoReg, pred |-> f.pred, mispredicted |-> FALSE, operands |-> <<0, 0>>,
            checkpoint |-> c]
  BY <1>1, <1>4, <1>5, <1>6 DEF NewEntry
<1>12. e \in Entry
  <2>1. <<0, 0>> \in Int \X Int /\ 0 \in Int
    OBVIOUS
  <2> QED BY <1>2, <1>8, <1>9, <1>10, <1>11, <2>1 DEF Entry
<1>13. NeverTaken(i) => s[1] = s[2]
  <2>1. ASSUME NeverTaken(i) PROVE s[1] = s[2]
    <3>1. Reads(i) = <<i.rs1, i.rs1>>
      BY <1>2, <2>1, NeverTakenReads
    <3>2. Len(Reads(i)) = 2 /\ Reads(i)[1] = Reads(i)[2]
      BY <3>1
    <3>3. \A k \in 1 .. Len(Reads(i)) : s[k] = rat[Reads(i)[k]]
      BY <1>2, <1>3, <1>4, SourcesType
    <3> QED BY <3>2, <3>3
  <2> QED BY <2>1
<1>14. 0 \in Word /\ <<0, 0>>[1] = <<0, 0>>[2]
  BY Sizes DEF Word
<1>15. Fits(e)
  BY <1>1, <1>3, <1>6, <1>8, <1>9, <1>11, <1>13, <1>14 DEF Fits
<1>16. e \in Sound
  BY <1>12, <1>15 DEF Sound
<1>17. e.pc = f.pc /\ e.dst = d /\ e.pred = f.pred /\ e.srcs = s /\ e.prev = v
       /\ e.checkpoint = c
  BY <1>11
<1>18. e.done = (IsHalt(i) \/ i.op = "FENCE")
  BY <1>11
<1>19. WritesRd(i) => e.prev = rat[i.rd]
  BY <1>1, <1>5, <1>17
<1> QED BY <1>1, <1>4, <1>6, <1>16, <1>17, <1>18, <1>19

\* The window after the new entry.
LEMMA GrownBuffer ==
  ASSUME Inv, CanRename, NEW e \in Sound, rob' = Append(rob, e), UNCHANGED <<setup, head>>,
         NEW p, p = Len(rob) + 1
  PROVE  /\ BufferOK' /\ Len(rob') = p /\ rob'[p] = e
         /\ \A k \in 1 .. Len(rob) : rob'[k] = rob[k]
         /\ Live' = Live \cup {p} /\ p \notin Live
         /\ \A k \in Live : k \in 1 .. Len(rob) /\ k < p
         /\ \A k \in Live : InstrOf(k)' = InstrOf(k)
         /\ InstrOf(p)' = InstrAt(e.pc)
<1>1. /\ rob \in Seq(Sound) /\ Len(rob) \in Nat /\ head \in Nat /\ head <= Len(rob)
      /\ Len(rob) - head < setup.rob
  BY EntryFacts DEF Inv, BufferOK, CanRename
<1>2. /\ rob' \in Seq(Sound) /\ Len(rob') = p /\ rob'[p] = e
      /\ \A k \in 1 .. Len(rob) : rob'[k] = rob[k]
  BY <1>1, AppendProperties
<1>3. Live' = head + 1 .. Len(rob) + 1 /\ Live = head + 1 .. Len(rob)
  BY <1>2 DEF Live
<1>4. /\ Live' = Live \cup {p} /\ p \notin Live
      /\ \A k \in Live : k \in 1 .. Len(rob) /\ k < p
  BY <1>1, <1>3
<1>5. Len(rob) + 1 - head <= setup.rob
  BY <1>1, BufferSize DEF Inv
<1>6. BufferOK'
  BY <1>1, <1>2, <1>5, SoundKept DEF BufferOK
<1>7. /\ \A k \in Live : InstrOf(k)' = InstrOf(k)
      /\ InstrOf(p)' = InstrAt(e.pc)
  BY <1>2, <1>4, SoundKept DEF InstrOf
<1> QED BY <1>2, <1>4, <1>6, <1>7

LEMMA RenameShape ==
  ASSUME Inv, Rename
  PROVE  \E e \in Sound, d \in Phys \cup {NoReg} :
           /\ CanRename /\ (d # NoReg <=> WritesRd(Incoming))
           /\ d # NoReg => d = Last(free) /\ free # <<>>
           /\ e = NewEntry(Head(fetchQ), Incoming, d)
           /\ rob' = Append(rob, e) /\ e.pc = Head(fetchQ).pc /\ e.dst = d
           /\ e.pred = Head(fetchQ).pred
           /\ e.srcs = Sources(Incoming)
           /\ WritesRd(Incoming) => e.prev = rat[Incoming.rd]
           /\ IsBranch(Incoming) => e.checkpoint = rat
           /\ e.done <=> IsHalt(Incoming) \/ Incoming.op = "FENCE"
           /\ free' = IF d = NoReg THEN free ELSE Front(free)
           /\ physReady' = IF d = NoReg THEN physReady ELSE [physReady EXCEPT ![d] = FALSE]
           /\ rat' = IF d = NoReg THEN rat ELSE [rat EXCEPT ![Incoming.rd] = d]
           /\ lsq' = IF IsMem(Incoming) THEN Append(lsq, Len(rob) + 1) ELSE lsq
           /\ rs' = IF e.done THEN rs ELSE rs \cup {Len(rob) + 1}
<1>1. PICK i : i = Incoming
  OBVIOUS
<1>2. PICK d : d = IF WritesRd(i) THEN Last(free) ELSE NoReg
  OBVIOUS
<1>3. PICK e : e = NewEntry(Head(fetchQ), i, d)
  OBVIOUS
<1>4. /\ CanRename /\ rob' = Append(rob, e)
      /\ free' = IF d = NoReg THEN free ELSE Front(free)
      /\ physReady' = IF d = NoReg THEN physReady ELSE [physReady EXCEPT ![d] = FALSE]
      /\ rat' = IF d = NoReg THEN rat ELSE [rat EXCEPT ![i.rd] = d]
      /\ lsq' = IF IsMem(i) THEN Append(lsq, Len(rob) + 1) ELSE lsq
      /\ rs' = IF IsHalt(i) \/ i.op = "FENCE" THEN rs ELSE rs \cup {Len(rob) + 1}
  BY <1>1, <1>2, <1>3 DEF Rename
<1>0. PICK f : f = Head(fetchQ)
  OBVIOUS
<1>5. f \in Slot /\ (WritesRd(i) => Last(free) \in Phys /\ free # <<>>)
  BY <1>0, <1>1, <1>4, IncomingFacts
<1>6. d \in Phys \cup {NoReg} /\ (d # NoReg <=> WritesRd(i))
      /\ (d # NoReg => d = Last(free) /\ free # <<>>)
  BY <1>2, <1>5, PhysFacts
<1>7. i = InstrAt(f.pc) /\ e = NewEntry(f, InstrAt(f.pc), d)
  BY <1>0, <1>1, <1>3 DEF Incoming
<1>8. /\ e \in Sound /\ e.pc = f.pc /\ e.dst = d /\ e.pred = f.pred
      /\ e.srcs = Sources(i) /\ (WritesRd(i) => e.prev = rat[i.rd])
      /\ (IsBranch(i) => e.checkpoint = rat)
      /\ (e.done <=> IsHalt(i) \/ i.op = "FENCE")
  <2>1. d # NoReg <=> WritesRd(InstrAt(f.pc))
    BY <1>6, <1>7
  <2>2. /\ e \in Sound /\ e.pc = f.pc /\ e.dst = d /\ e.pred = f.pred
        /\ e.srcs = Sources(InstrAt(f.pc))
        /\ WritesRd(InstrAt(f.pc)) => e.prev = rat[InstrAt(f.pc).rd]
        /\ IsBranch(InstrAt(f.pc)) => e.checkpoint = rat
        /\ e.done <=> IsHalt(InstrAt(f.pc)) \/ InstrAt(f.pc).op = "FENCE"
    BY <1>5, <1>6, <1>7, <2>1, NewEntryFacts
  <2> QED BY <1>7, <2>2
<1> QED BY <1>0, <1>1, <1>3, <1>4, <1>6, <1>8

LEMMA RenameInv ==
  ASSUME Inv, Rename
  PROVE  Inv'
<1>1. PICK e \in Sound, d \in Phys \cup {NoReg} :
           /\ CanRename /\ (d # NoReg <=> WritesRd(Incoming))
           /\ d # NoReg => d = Last(free) /\ free # <<>>
           /\ rob' = Append(rob, e) /\ e.pc = Head(fetchQ).pc
           /\ e.done <=> IsHalt(Incoming) \/ Incoming.op = "FENCE"
           /\ free' = IF d = NoReg THEN free ELSE Front(free)
           /\ physReady' = IF d = NoReg THEN physReady ELSE [physReady EXCEPT ![d] = FALSE]
           /\ rat' = IF d = NoReg THEN rat ELSE [rat EXCEPT ![Incoming.rd] = d]
           /\ lsq' = IF IsMem(Incoming) THEN Append(lsq, Len(rob) + 1) ELSE lsq
           /\ rs' = IF e.done THEN rs ELSE rs \cup {Len(rob) + 1}
  BY RenameShape
<1>2. /\ fetchQ' = Tail(fetchQ) /\ done' = done + 1
      /\ UNCHANGED <<setup, arch, physVal, pendingFree, head, executing, dropped, fetchPc,
                     bubble, fetchHalted, line, control, stage, cursor, used, progress, clock>>
  BY DEF Rename
<1>3. /\ Tail(fetchQ) \in Seq(Slot) /\ Incoming \in Instr /\ stage = "rename"
  BY <1>1, IncomingFacts
<1>4. PICK p : p = Len(rob) + 1
  OBVIOUS
<1>5. /\ BufferOK' /\ Len(rob') = p /\ rob'[p] = e
      /\ \A k \in 1 .. Len(rob) : rob'[k] = rob[k]
      /\ Live' = Live \cup {p} /\ p \notin Live
      /\ \A k \in Live : k \in 1 .. Len(rob) /\ k < p
      /\ \A k \in Live : InstrOf(k)' = InstrOf(k)
      /\ InstrOf(p)' = InstrAt(e.pc)
  BY <1>1, <1>2, <1>4, GrownBuffer
<1>6. p \in Nat /\ InstrOf(p)' = Incoming
  BY <1>1, <1>4, <1>5, EntryFacts DEF Incoming, Inv
<1>7. ArchOK' /\ ClockOK'
  BY <1>2, <1>3, ArchKept, ClockKept DEF Inv
<1>8. FrontOK'
  BY <1>2, <1>3, SoundKept DEF Inv, FrontOK
<1>9. LoopOK'
  BY <1>2, <1>3 DEF Inv, LoopOK
<1>10. FileOK'
  <2>1. Incoming.rd \in Reg /\ (WritesRd(Incoming) => Incoming.rd # 0)
    BY <1>3, ReadsType
  <2>2. rat' \in [Reg -> Phys] /\ rat'[0] = 0
    BY <1>1, <2>1, Sizes DEF Inv, FileOK
  <2>3. physReady' \in [Phys -> BOOLEAN]
    BY <1>1 DEF Inv, FileOK
  <2> QED BY <1>2, <2>2, <2>3 DEF Inv, FileOK
<1>11. ListsOK'
  <2>1. ASSUME d # NoReg PROVE Front(free) \in Seq(Phys)
    <3>1. free \in Seq(Phys) /\ Len(free) \in Nat
      BY DEF Inv, ListsOK
    <3>2. \A k \in 1 .. Len(free) - 1 : free[k] \in Phys
      BY <3>1
    <3> QED BY <3>1, <3>2, SubSeqProperties DEF Front
  <2> QED BY <1>1, <1>2, <2>1 DEF Inv, ListsOK
<1>12. WaitingOK'
  <2>1. IsFiniteSet(rs) /\ Cardinality(rs) \in Nat /\ Cardinality(rs) < Cfg.rs /\ rs \subseteq Live
    <3>1. IsFiniteSet(Live)
      BY EntryFacts, FS_Interval DEF Inv, Live
    <3>2. rs \subseteq Live /\ IsFiniteSet(rs)
      BY <3>1, FS_Subset DEF Inv, WaitingOK
    <3> QED BY <1>1, <3>2, FS_CardinalityType DEF CanRename
  <2>2. Cardinality(rs \cup {p}) <= Cardinality(rs) + 1
    <3>1. p \notin rs
      BY <1>5, <2>1
    <3>2. Cardinality(rs \cup {p}) = Cardinality(rs) + 1
      BY <2>1, <3>1, FS_AddElement
    <3> QED BY <2>1, <3>2
  <2>3. Cardinality(rs') <= Cfg.rs
    <3>1. Cardinality(rs \cup {p}) \in Nat /\ Cfg.rs \in Nat
      BY <2>1, FS_AddElement, FS_CardinalityType, CfgAssumption
    <3> QED BY <1>1, <1>4, <2>1, <2>2, <3>1
  <2>4. rs' \subseteq Live'
    BY <1>1, <1>4, <1>5, <2>1
  <2>5. \A k \in rs' : ~rob'[k].done
    BY <1>1, <1>4, <1>5, <2>1 DEF Inv, WaitingOK
  <2> QED BY <2>3, <2>4, <2>5 DEF WaitingOK
<1>13. LsqOK'
  <2>1. /\ lsq \in Seq(Nat) /\ Increasing(lsq) /\ Len(lsq) <= Cfg.lsq
        /\ Range(lsq) = {k \in Live : IsMem(InstrOf(k))} /\ Len(lsq) \in Nat
    BY DEF Inv, LsqOK
  <2>2. CASE ~IsMem(Incoming)
    <3>1. {k \in Live' : IsMem(InstrOf(k)')} = {k \in Live : IsMem(InstrOf(k))}
      BY <1>5, <1>6, <2>2
    <3> QED BY <1>1, <2>1, <2>2, <3>1 DEF LsqOK, Increasing
  <2>3. CASE IsMem(Incoming)
    <3>1. lsq' = Append(lsq, p) /\ Len(lsq) < Cfg.lsq
      BY <1>1, <1>4, <2>3 DEF CanRename
    <3>2. /\ lsq' \in Seq(Nat) /\ Len(lsq') = Len(lsq) + 1 /\ lsq'[Len(lsq) + 1] = p
          /\ \A k \in 1 .. Len(lsq) : lsq'[k] = lsq[k]
      BY <1>6, <2>1, <3>1, AppendProperties
    <3>3. \A k \in 1 .. Len(lsq) : lsq[k] \in Range(lsq)
      BY <2>1, RangeIs
    <3>4. \A k \in 1 .. Len(lsq) : lsq[k] \in Live /\ lsq[k] < p
      BY <1>5, <2>1, <3>3
    <3>5. \A k \in 1 .. Len(lsq') : k \in 1 .. Len(lsq) \/ k = Len(lsq) + 1
      BY <2>1, <3>2
    <3>6. ASSUME NEW j \in 1 .. Len(lsq'), NEW k \in 1 .. Len(lsq'), j < k
          PROVE  lsq'[j] < lsq'[k]
      <4>1. j \in 1 .. Len(lsq)
        BY <2>1, <3>2, <3>6
      <4> QED BY <2>1, <3>2, <3>4, <3>5, <3>6, <4>1 DEF Increasing
    <3>7. Range(lsq') = Range(lsq) \cup {p}
      <4>1. Range(lsq') = {lsq'[k] : k \in 1 .. Len(lsq')}
        BY <3>2, RangeIs
      <4>2. Range(lsq) = {lsq[k] : k \in 1 .. Len(lsq)}
        BY <2>1, RangeIs
      <4>3. \A k \in 1 .. Len(lsq) : k \in 1 .. Len(lsq')
        BY <2>1, <3>2
      <4>4. Len(lsq) + 1 \in 1 .. Len(lsq')
        BY <2>1, <3>2
      <4> QED BY <3>2, <3>5, <4>1, <4>2, <4>3, <4>4
    <3>8. {k \in Live' : IsMem(InstrOf(k)')} = {k \in Live : IsMem(InstrOf(k))} \cup {p}
      BY <1>5, <1>6, <2>3
    <3>9. Len(lsq') <= Cfg.lsq
      BY <2>1, <3>1, <3>2, CfgAssumption
    <3> QED BY <2>1, <3>2, <3>6, <3>7, <3>8, <3>9 DEF LsqOK, Increasing
  <2> QED BY <2>2, <2>3
<1>14. \A k \in 1 .. Len(executing) : executing[k].gone \/ executing[k].pos \in Live
  BY <1>3 DEF Inv, ExecutingOK
<1>15. ASSUME NEW q \in Live' PROVE Executes(q)' <=> ~rob'[q].done /\ q \notin rs'
  <2>1. Executes(q)' <=> Executes(q)
    BY <1>2 DEF Executes
  <2>2. CASE q = p
    <3>1. ~Executes(q)
      BY <1>5, <1>14, <2>2 DEF Executes, RunsIn
    <3> QED BY <1>1, <1>4, <1>5, <2>1, <2>2, <3>1
  <2>3. CASE q \in Live
    <3>1. rob'[q] = rob[q] /\ q # p
      BY <1>5, <2>3
    <3> QED BY <1>1, <1>4, <2>1, <2>3, <3>1 DEF Inv, ExecutingOK
  <2> QED BY <1>5, <2>2, <2>3
<1>16. ExecutingOK'
  BY <1>2, <1>3, <1>5, <1>14, <1>15 DEF Inv, ExecutingOK
<1>17. DroppedOK'
  BY <1>2, <1>3 DEF Inv, DroppedOK
<1> QED BY <1>5, <1>7, <1>8, <1>9, <1>10, <1>11, <1>12, <1>13, <1>16, <1>17 DEF Inv

-----------------------------------------------------------------------------
(* Commit.                                                                 *)

LEMMA OldestFacts ==
  ASSUME Inv, CanCommit
  PROVE  /\ head \in Nat /\ Len(rob) \in Nat /\ head + 1 \in 1 .. Len(rob) /\ head + 1 \in Live
         /\ Oldest = rob[head + 1] /\ Oldest \in Entry /\ Fits(Oldest) /\ Oldest.done
         /\ OldestInstr = InstrOf(head + 1) /\ OldestInstr \in Instr
         /\ head + 1 \notin rs /\ ~Executes(head + 1)
         /\ stage = "commit" /\ ~halted
<1>1. /\ head \in Nat /\ Len(rob) \in Nat /\ head < Len(rob) /\ stage = "commit" /\ ~halted
      /\ Oldest.done
  BY EntryFacts DEF Inv, CanCommit
<1>2. PICK p : p = head + 1
  OBVIOUS
<1>3. p \in 1 .. Len(rob) /\ p \in Live
  BY <1>1, <1>2 DEF Live
<1>4. Oldest = rob[p] /\ OldestInstr = InstrOf(p)
  BY <1>2 DEF Oldest, OldestInstr, InstrOf
<1>5. rob[p] \in Entry /\ Fits(rob[p]) /\ InstrOf(p) \in Instr
  BY <1>3, EntryFacts DEF Inv
<1>6. p \notin rs /\ ~Executes(p)
  BY <1>1, <1>3, <1>4 DEF Inv, WaitingOK, ExecutingOK
<1> QED BY <1>1, <1>2, <1>3, <1>4, <1>5, <1>6

\* The committed entry leaves the window, and the load/store queue if it is in it.
LEMMA ShrunkWindow ==
  ASSUME Inv, CanCommit, Committed, UNCHANGED <<rob, rs, executing, dropped>>,
         IF IsMem(OldestInstr) THEN LeaveLsq ELSE lsq' = lsq
  PROVE  /\ BufferOK' /\ WaitingOK' /\ LsqOK' /\ ExecutingOK' /\ DroppedOK'
         /\ LoopOK' /\ ClockOK'
         /\ Live' = Live \ {head + 1} /\ \A k : InstrOf(k)' = InstrOf(k)
<1>1. PICK p : p = head + 1
  OBVIOUS
<1>2. /\ head' = p /\ done' = done + 1 /\ progress' = TRUE
      /\ UNCHANGED <<setup, control, stage, cursor, used, clock>>
  BY <1>1 DEF Committed
<1>3. /\ head \in Nat /\ Len(rob) \in Nat /\ p \in 1 .. Len(rob) /\ p \in Live /\ p \in Nat
      /\ p \notin rs /\ ~Executes(p) /\ stage = "commit" /\ OldestInstr = InstrOf(p)
  BY <1>1, OldestFacts
<1>4. Live' = Live \ {p} /\ Live = head + 1 .. Len(rob)
  BY <1>1, <1>2, <1>3 DEF Live
<1>5. \A k : InstrOf(k)' = InstrOf(k)
  BY <1>2, SoundKept DEF InstrOf
<1>6. BufferOK'
  <2>1. Len(rob) - p <= setup.rob
    BY <1>1, <1>3, BufferSize DEF Inv, BufferOK
  <2> QED BY <1>2, <1>3, <2>1, SoundKept DEF Inv, BufferOK
<1>7. WaitingOK'
  BY <1>3, <1>4 DEF Inv, WaitingOK
<1>8. DroppedOK'
  BY <1>2, <1>3, <1>4 DEF Inv, DroppedOK
<1>9. \A q \in Live' : Executes(q)' <=> ~rob[q].done /\ q \notin rs
  BY <1>4 DEF Inv, ExecutingOK, Executes
<1>10. \A k \in 1 .. Len(executing) : executing[k].gone \/ executing[k].pos \in Live'
  BY <1>3, <1>4 DEF Inv, ExecutingOK, Executes, RunsIn
<1>11. ExecutingOK'
  BY <1>2, <1>3, <1>9, <1>10 DEF Inv, ExecutingOK
<1>12. LsqOK'
  <2>1. /\ lsq \in Seq(Nat) /\ Increasing(lsq) /\ Len(lsq) <= Cfg.lsq
        /\ Range(lsq) = {k \in Live : IsMem(InstrOf(k))} /\ Len(lsq) \in Nat
        /\ Range(lsq) = {lsq[k] : k \in 1 .. Len(lsq)}
    BY RangeIs DEF Inv, LsqOK
  <2>2. CASE ~IsMem(InstrOf(p))
    <3>1. {k \in Live' : IsMem(InstrOf(k)')} = {k \in Live : IsMem(InstrOf(k))}
      BY <1>4, <1>5, <2>2
    <3>2. lsq' = lsq
      BY <1>3, <2>2
    <3> QED BY <2>1, <3>1, <3>2 DEF LsqOK, Increasing
  <2>3. CASE IsMem(InstrOf(p))
    <3>1. PICK k \in 1 .. Len(lsq) : lsq[k] = p
      BY <1>3, <2>1, <2>3
    <3>2. \A j \in 1 .. Len(lsq) : lsq[j] \in Live
      BY <2>1
    <3>3. \A j \in 1 .. Len(lsq) : lsq[j] \in Nat /\ lsq[j] >= p
      BY <1>1, <1>3, <1>4, <3>2
    <3>4. k = 1
      <4>1. 1 \in 1 .. Len(lsq)
        BY <2>1, <3>1
      <4>2. 1 < k => lsq[1] < lsq[k]
        BY <2>1, <3>1, <4>1 DEF Increasing
      <4> QED BY <1>3, <2>1, <3>1, <3>3, <4>1, <4>2
    <3>5. lsq # <<>> /\ Head(lsq) = lsq[1]
      BY <2>1, <3>1
    <3>6. lsq' = Tail(lsq)
      BY <1>1, <1>3, <2>3, <3>1, <3>4, <3>5 DEF LeaveLsq
    <3>7. /\ lsq' \in Seq(Nat) /\ Len(lsq') = Len(lsq) - 1
          /\ \A j \in 1 .. Len(lsq') : lsq'[j] = lsq[j + 1]
      BY <2>1, <3>5, <3>6, HeadTailProperties
    <3>8. \A j \in 1 .. Len(lsq') : j + 1 \in 1 .. Len(lsq)
      BY <2>1, <3>7
    <3>9. ASSUME NEW i \in 1 .. Len(lsq'), NEW j \in 1 .. Len(lsq'), i < j
          PROVE  lsq'[i] < lsq'[j]
      <4>1. i + 1 \in 1 .. Len(lsq) /\ j + 1 \in 1 .. Len(lsq) /\ i + 1 < j + 1
        BY <3>8, <3>9
      <4> QED BY <2>1, <3>7, <4>1 DEF Increasing
    <3>10. \A j \in 1 .. Len(lsq) : j = 1 \/ (j - 1 \in 1 .. Len(lsq') /\ (j - 1) + 1 = j)
      BY <2>1, <3>7
    <3>11. \A j \in 1 .. Len(lsq') : lsq'[j] # p
      <4>1. ASSUME NEW j \in 1 .. Len(lsq') PROVE lsq'[j] # p
        <5>1. j + 1 \in 1 .. Len(lsq) /\ 1 \in 1 .. Len(lsq) /\ 1 < j + 1
          BY <2>1, <3>1, <3>8
        <5>2. lsq[1] < lsq[j + 1]
          BY <2>1, <5>1 DEF Increasing
        <5> QED BY <1>3, <3>1, <3>4, <3>7, <5>2
      <4> QED BY <4>1
    <3>12. Range(lsq') = Range(lsq) \ {p}
      <4>1. Range(lsq') = {lsq'[j] : j \in 1 .. Len(lsq')}
        BY <3>7, RangeIs
      <4>2. ASSUME NEW x \in Range(lsq') PROVE x \in Range(lsq) \ {p}
        <5>1. PICK j \in 1 .. Len(lsq') : x = lsq'[j]
          BY <4>1
        <5> QED BY <2>1, <3>7, <3>8, <3>11, <5>1
      <4>3. ASSUME NEW x \in Range(lsq), x # p PROVE x \in Range(lsq')
        <5>1. PICK j \in 1 .. Len(lsq) : x = lsq[j]
          BY <2>1
        <5>2. j # 1
          BY <3>1, <3>4, <4>3, <5>1
        <5>3. PICK i : i = j - 1
          OBVIOUS
        <5>4. i \in 1 .. Len(lsq') /\ lsq'[i] = x
          BY <3>7, <3>10, <5>1, <5>2, <5>3
        <5> QED BY <4>1, <5>4
      <4> HIDE DEF Range
      <4> QED BY <4>2, <4>3
    <3>13. {j \in Live' : IsMem(InstrOf(j)')} = {j \in Live : IsMem(InstrOf(j))} \ {p}
      BY <1>4, <1>5
    <3>14. Len(lsq') <= Cfg.lsq
      BY <2>1, <3>7, CfgAssumption
    <3> QED BY <2>1, <3>7, <3>9, <3>12, <3>13, <3>14 DEF LsqOK, Increasing
  <2> QED BY <2>2, <2>3
<1>13. LoopOK'
  BY <1>2 DEF Inv, LoopOK, UnitCount
<1>14. ClockOK'
  BY <1>2, <1>3, ClockKept DEF Inv
<1> QED BY <1>1, <1>4, <1>5, <1>6, <1>7, <1>8, <1>11, <1>12, <1>13, <1>14

LEMMA CommitStoreInv ==
  ASSUME Inv, CommitStore
  PROVE  Inv'
<1>1. /\ CanCommit /\ ~Oldest.mispredicted /\ OldestInstr.op = "STORE" /\ LeaveLsq /\ Committed
      /\ mem' = [mem EXCEPT ![Oldest.addr] = Oldest.val]
      /\ UNCHANGED <<regs, exitCode, halted, rename, rob, rs, executing, dropped, front, setup>>
  BY DEF CommitStore, Committed
<1>2. IsMem(OldestInstr) /\ ~IsBranch(OldestInstr)
  BY <1>1 DEF IsMem, Micro!IsMem, Micro!MemOps, IsBranch, Micro!IsBranch, Micro!BranchOps
<1>3. /\ BufferOK' /\ WaitingOK' /\ LsqOK' /\ ExecutingOK' /\ DroppedOK' /\ LoopOK' /\ ClockOK'
  BY <1>1, <1>2, ShrunkWindow
<1>4. Oldest.val \in Word
  BY <1>1, <1>2, OldestFacts DEF Fits, OldestInstr
<1>5. ArchOK'
  BY <1>1, <1>4 DEF Inv, ArchOK
<1>6. FrontOK' /\ FileOK' /\ ListsOK'
  BY <1>1, FrontKept, FileKept, ListsKept DEF Inv, rename
<1> QED BY <1>3, <1>5, <1>6 DEF Inv

LEMMA CommitHaltInv ==
  ASSUME Inv, CommitHalt
  PROVE  Inv'
<1>1. /\ CanCommit /\ ~Oldest.mispredicted /\ IsHalt(OldestInstr) /\ Committed
      /\ halted' = TRUE
      /\ exitCode' = IF OldestInstr.op = "ECALL" THEN regs[OldestInstr.rs1] ELSE exitCode
      /\ UNCHANGED <<regs, mem, rename, rob, rs, lsq, executing, dropped, front, setup>>
  BY DEF CommitHalt, Committed
<1>2. ~IsMem(OldestInstr)
  BY <1>1 DEF IsMem, Micro!IsMem, Micro!MemOps, IsHalt
<1>3. /\ BufferOK' /\ WaitingOK' /\ LsqOK' /\ ExecutingOK' /\ DroppedOK' /\ LoopOK' /\ ClockOK'
  BY <1>1, <1>2, ShrunkWindow
<1>4. OldestInstr.rs1 \in Reg
  BY <1>1, OldestFacts DEF Instr
<1>5. ArchOK'
  BY <1>1, <1>4 DEF Inv, ArchOK
<1>6. FrontOK' /\ FileOK' /\ ListsOK'
  BY <1>1, FrontKept, FileKept, ListsKept DEF Inv, rename
<1> QED BY <1>3, <1>5, <1>6 DEF Inv

LEMMA CommitOtherInv ==
  ASSUME Inv, CommitOther
  PROVE  Inv'
<1>1. /\ CanCommit /\ CommitResult /\ Committed
      /\ IF IsMem(OldestInstr) THEN LeaveLsq ELSE lsq' = lsq
      /\ UNCHANGED <<mem, exitCode, halted, physVal, physReady, rat, free, rob, rs,
                     executing, dropped, front, setup>>
  BY DEF CommitOther, Committed
<1>2. /\ BufferOK' /\ WaitingOK' /\ LsqOK' /\ ExecutingOK' /\ DroppedOK' /\ LoopOK' /\ ClockOK'
  BY <1>1, ShrunkWindow
<1>3. /\ Oldest \in Entry /\ Fits(Oldest) /\ OldestInstr \in Instr
      /\ OldestInstr = InstrAt(Oldest.pc)
  BY <1>1, OldestFacts DEF OldestInstr
<1>4. WritesRd(OldestInstr) => Oldest.dst \in Phys /\ OldestInstr.rd # 0
  BY <1>3, ReadsType DEF Fits, Entry
<1>5. Oldest.prev \in Phys \cup {NoReg}
  BY <1>3 DEF Entry
<1>6. regs' = [r \in Reg |-> IF WritesRd(OldestInstr) /\ r = OldestInstr.rd
                               THEN physVal[Oldest.dst] ELSE regs[r]]
      /\ pendingFree' = IF Oldest.prev # NoReg THEN Append(pendingFree, Oldest.prev)
                                               ELSE pendingFree
  BY <1>1 DEF CommitResult
<1>7. regs' \in [Reg -> Word] /\ regs'[0] = 0
  <2>1. 0 \in Reg
    BY Sizes
  <2>2. ASSUME NEW r \in Reg
        PROVE  (IF WritesRd(OldestInstr) /\ r = OldestInstr.rd
                  THEN physVal[Oldest.dst] ELSE regs[r]) \in Word
    BY <1>4 DEF Inv, FileOK, ArchOK
  <2> QED BY <1>4, <1>6, <2>1, <2>2 DEF Inv, ArchOK
<1>8. ArchOK'
  BY <1>1, <1>7 DEF Inv, ArchOK
<1>9. ListsOK'
  <2>1. pendingFree' \in Seq(Phys)
    BY <1>5, <1>6, AppendProperties DEF Inv, ListsOK
  <2> QED BY <1>1, <2>1 DEF Inv, ListsOK
<1>10. FrontOK' /\ FileOK'
  BY <1>1, FrontKept, FileKept DEF Inv
<1> QED BY <1>2, <1>8, <1>9, <1>10 DEF Inv

\* Everything younger than a mispredicted branch goes, and the branch with it commits:
\* the window is empty.
LEMMA SquashInv ==
  ASSUME Inv, Squash
  PROVE  Inv'
<1>1. PICK p : p = head + 1
  OBVIOUS
<1>2. PICK m : m = Oldest.checkpoint
  OBVIOUS
<1>3. PICK n : n = IF control.spec = "conservative" THEN MispredictPenalty
                                                   ELSE MispredictPenalty - 2
  OBVIOUS
<1>4. PICK I : I = {k \in DOMAIN executing : executing[k].pos = p}
  OBVIOUS
<1>5. /\ CanCommit /\ Oldest.mispredicted /\ Committed
      /\ rat' = m /\ free' = RebuiltFree(p, m) /\ physReady' = RebuiltReady(p, m)
      /\ bubble' = Max({bubble, n}) /\ fetchPc' = Oldest.val
      /\ rob' = SubSeq(rob, 1, p) /\ rs' = {k \in rs : k \in head + 1 .. p}
      /\ lsq' = Kept(lsq, head + 1 .. p)
      /\ fetchQ' = <<>> /\ fetchHalted' = FALSE
      /\ executing' = At(executing, I)
      /\ UNCHANGED <<arch, physVal, pendingFree, dropped, line>>
  BY <1>1, <1>2, <1>3, <1>4 DEF Squash, Truncate
<1>6. /\ head' = p /\ done' = done + 1 /\ progress' = TRUE
      /\ UNCHANGED <<setup, control, stage, cursor, used, clock>>
  BY <1>1, <1>5 DEF Committed
<1>7. /\ head \in Nat /\ Len(rob) \in Nat /\ p \in 1 .. Len(rob) /\ p \in Live /\ p \in Nat
      /\ Oldest \in Entry /\ Fits(Oldest) /\ p \notin rs /\ ~Executes(p) /\ stage = "commit"
      /\ OldestInstr = InstrOf(p) /\ OldestInstr = InstrAt(Oldest.pc)
  BY <1>1, <1>5, OldestFacts DEF OldestInstr
<1>8. IsBranch(OldestInstr) /\ m \in [Reg -> Phys] /\ m[0] = 0
  BY <1>2, <1>5, <1>7 DEF Fits
<1>9. rob \in Seq(Sound) /\ \A k \in 1 .. p : rob[k] \in Sound
  <2>1. rob \in Seq(Sound) /\ \A k \in 1 .. p : k \in 1 .. Len(rob)
    BY <1>7 DEF Inv, BufferOK
  <2> QED BY <2>1, ElementOfSeq
<1>10. rob' \in Seq(Sound) /\ Len(rob') = p
  BY <1>5, <1>7, <1>9, SubSeqProperties
<1>11. Live' = {}
  BY <1>6, <1>7, <1>10 DEF Live
<1>12. BufferOK'
  BY <1>6, <1>7, <1>10, BufferSize, SoundKept DEF Inv, BufferOK
<1>13. ArchOK' /\ ClockOK'
  BY <1>5, <1>6, <1>7, ArchKept, ClockKept DEF Inv
<1>14. LoopOK'
  BY <1>6 DEF Inv, LoopOK, UnitCount
<1>15. FrontOK'
  <2>1. bubble \in Nat /\ n \in Nat
    BY <1>3 DEF Inv, FrontOK, MispredictPenalty
  <2>2. bubble' \in Nat
    <3>1. bubble \in Int /\ n \in Int
      BY <2>1
    <3>2. Max({bubble, n}) \in {bubble, n}
      BY <3>1, MaxOfTwo
    <3> QED BY <1>5, <2>1, <3>2
  <2>3. fetchQ' \in Seq(Slot') /\ fetchPc' \in Int
    BY <1>5, <1>7 DEF Entry
  <2> QED BY <1>5, <2>2, <2>3 DEF Inv, FrontOK
<1>16. FileOK' /\ ListsOK'
  <2>1. free' \in Seq(Phys)
    BY <1>5, RebuiltFreeIs
  <2>2. physReady' \in [Phys -> BOOLEAN]
    BY <1>5, RebuiltReadyType DEF Inv, FileOK
  <2> QED BY <1>5, <1>8, <2>1, <2>2 DEF Inv, FileOK, ListsOK
<1>17. rs' = {}
  <2>1. \A k \in head + 1 .. p : k = p
    BY <1>1, <1>7
  <2> QED BY <1>5, <1>7, <2>1
<1>18. WaitingOK'
  <2>1. Cardinality({}) = 0 /\ Cfg.rs \in Nat
    BY FS_EmptySet, CfgAssumption
  <2> QED BY <1>17, <2>1 DEF WaitingOK
<1>19. LsqOK'
  <2>1. lsq \in Seq(Nat) /\ Increasing(lsq) /\ Len(lsq) <= Cfg.lsq /\ Len(lsq) \in Nat
        /\ Range(lsq) = {k \in Live : IsMem(InstrOf(k))}
    BY DEF Inv, LsqOK
  <2>0. PICK K : K = head + 1 .. p
    OBVIOUS
  <2>2. /\ lsq' \in Seq(Nat) /\ Increasing(lsq') /\ Len(lsq') <= Len(lsq)
        /\ Range(lsq') = Range(lsq) \cap (head + 1 .. p) /\ Len(lsq') \in Nat
    <3>1. lsq' = Kept(lsq, K)
      BY <1>5, <2>0
    <3>2. /\ Kept(lsq, K) \in Seq(Nat) /\ Len(Kept(lsq, K)) <= Len(lsq)
          /\ Range(Kept(lsq, K)) = Range(lsq) \cap K /\ Increasing(Kept(lsq, K))
      BY <2>1, KeptFacts
    <3> QED BY <2>0, <3>1, <3>2
  <2>3. ~IsMem(InstrOf(p))
    BY <1>7, <1>8 DEF IsMem, Micro!IsMem, Micro!MemOps, IsBranch, Micro!IsBranch, Micro!BranchOps
  <2>4. \A k \in head + 1 .. p : k = p
    BY <1>1, <1>7
  <2>5. Range(lsq') = {}
    BY <2>1, <2>2, <2>3, <2>4
  <2>6. Len(lsq') <= Cfg.lsq
    BY <2>1, <2>2, CfgAssumption
  <2> QED BY <1>11, <2>2, <2>5, <2>6 DEF LsqOK, Increasing
<1>20. executing' \in Seq(Job) /\ \A k \in 1 .. Len(executing') : executing'[k].gone
  <2>1. executing \in Seq(Job)
    BY DEF Inv, ExecutingOK
  <2>2. I \in SUBSET (1 .. Len(executing)) /\ \A k \in I : executing[k].gone
    BY <1>4, <1>7, <2>1 DEF Executes, RunsIn
  <2>3. PICK y : y = executing'
    OBVIOUS
  <2>4. /\ y \in Seq(Job) /\ \E f : Selects(f, y, executing, I)
    BY <1>5, <2>1, <2>2, <2>3, AtFacts
  <2> QED BY <2>2, <2>3, <2>4 DEF Selects
<1>21. ExecutingOK'
  BY <1>6, <1>7, <1>11, <1>20 DEF ExecutingOK, Once
<1>22. DroppedOK'
  BY <1>5, <1>6, <1>11 DEF Inv, DroppedOK
<1> QED BY <1>12, <1>13, <1>14, <1>15, <1>16, <1>18, <1>19, <1>21, <1>22 DEF Inv

\* What the stage does to the lists of free and superseded registers.
LEMMA ReclaimType ==
  ASSUME ListsOK, NEW n
  PROVE  Reclaimed(n) \in Seq(Phys) /\ Kept(pendingFree, n) \in Seq(Phys)
<1>1. PICK I : I = {k \in DOMAIN pendingFree :
                      /\ pendingFree[k] \notin n \cup Range(free)
                      /\ \A j \in 1 .. k - 1 : pendingFree[j] # pendingFree[k]}
  OBVIOUS
<1>2. free \in Seq(Phys) /\ pendingFree \in Seq(Phys)
  BY DEF ListsOK
<1>3. I \in SUBSET (1 .. Len(pendingFree))
  BY <1>1, <1>2
<1>4. At(pendingFree, I) \in Seq(Phys)
  BY <1>2, <1>3, AtFacts
<1>5. Reclaimed(n) = free \o At(pendingFree, I)
  BY <1>1 DEF Reclaimed
<1>6. Reclaimed(n) \in Seq(Phys)
  BY <1>2, <1>4, <1>5, ConcatProperties
<1>7. Kept(pendingFree, n) \in Seq(Phys)
  BY <1>2, KeptFacts
<1> QED BY <1>6, <1>7

\* The buffer without the n entries that have committed.
Compacted(n) ==
  /\ rob' = SubSeq(rob, n + 1, Len(rob)) /\ head' = 0
  /\ rs' = {p - n : p \in rs}
  /\ lsq' = Moved(lsq, n)
  /\ executing' = [k \in DOMAIN executing |-> [executing[k] EXCEPT !.pos = @ - n]]

LEMMA CompactedBuffer ==
  ASSUME Inv, NEW n \in Nat, n = head, Compacted(n), UNCHANGED setup
  PROVE  /\ BufferOK' /\ Len(rob') = Len(rob) - n /\ Len(rob) - n \in Nat
         /\ \A k \in 1 .. Len(rob') : k + n \in 1 .. Len(rob) /\ rob'[k] = rob[k + n]
         /\ \A k \in Live' : /\ k \in 1 .. Len(rob') /\ k \in Nat /\ k + n \in Live
                             /\ rob'[k] = rob[k + n] /\ InstrOf(k)' = InstrOf(k + n)
         /\ \A q \in Live : q \in Nat /\ q - n \in Live' /\ q - n \in Nat \ {0}
                            /\ (q - n) + n = q
<1>1. /\ Len(rob) \in Nat /\ n <= Len(rob) /\ rob \in Seq(Sound) /\ Len(rob) - n <= setup.rob
  BY EntryFacts DEF Inv, BufferOK
<1>2. PICK q : q = SubSeq(rob, n + 1, Len(rob))
  OBVIOUS
<1>3. q \in Seq(Sound) /\ Len(q) = Len(rob) - n /\ \A k \in 1 .. Len(q) : q[k] = rob[k + n]
  <2>1. \A k \in n + 1 .. Len(rob) : rob[k] \in Sound
    <3>1. \A k \in n + 1 .. Len(rob) : k \in 1 .. Len(rob)
      BY <1>1
    <3> QED BY <1>1, <3>1, ElementOfSeq
  <2>2. /\ SubSeq(rob, n + 1, Len(rob)) \in Seq(Sound)
        /\ Len(SubSeq(rob, n + 1, Len(rob))) =
             IF n + 1 <= Len(rob) THEN Len(rob) - (n + 1) + 1 ELSE 0
        /\ \A k \in 1 .. Len(rob) - (n + 1) + 1 :
             SubSeq(rob, n + 1, Len(rob))[k] = rob[n + 1 + k - 1]
    BY <1>1, <2>1, SubSeqProperties
  <2>3. Len(q) = Len(rob) - n
    BY <1>1, <1>2, <2>2
  <2>4. \A k \in 1 .. Len(q) : k \in 1 .. Len(rob) - (n + 1) + 1 /\ n + 1 + k - 1 = k + n
    BY <1>1, <2>3
  <2> QED BY <1>2, <2>2, <2>3, <2>4
<1>4. rob' = q /\ head' = 0
  BY <1>2 DEF Compacted
<1>5. \A k \in 1 .. Len(rob') : k + n \in 1 .. Len(rob) /\ rob'[k] = rob[k + n]
  BY <1>1, <1>3, <1>4
<1>6. Live' = 1 .. Len(rob) - n /\ Live = n + 1 .. Len(rob)
  BY <1>1, <1>3, <1>4 DEF Live
<1>7. BufferOK'
  BY <1>1, <1>3, <1>4, SoundKept DEF BufferOK
<1>8. \A k \in Live' : k \in 1 .. Len(rob') /\ k \in Nat /\ k + n \in Live
  BY <1>1, <1>3, <1>4, <1>6
<1>9. \A k \in Live' : InstrOf(k)' = InstrOf(k + n)
  BY <1>5, <1>8, SoundKept DEF InstrOf
<1>10. \A x \in Live : x \in Nat /\ x - n \in Live' /\ x - n \in Nat \ {0} /\ (x - n) + n = x
  BY <1>1, <1>6
<1> QED BY <1>1, <1>3, <1>4, <1>5, <1>7, <1>8, <1>9, <1>10

LEMMA CompactedInv ==
  ASSUME Inv, NEW n \in Nat, n = head, Compacted(n), UNCHANGED <<setup, dropped>>,
         stage = "commit", stage' = "exec", cursor' = 0
  PROVE  BufferOK' /\ WaitingOK' /\ LsqOK' /\ ExecutingOK' /\ DroppedOK'
<1>1. /\ BufferOK'
      /\ \A k \in Live' : /\ k \in Nat /\ k + n \in Live
                          /\ rob'[k] = rob[k + n] /\ InstrOf(k)' = InstrOf(k + n)
      /\ \A q \in Live : q \in Nat /\ q - n \in Live' /\ q - n \in Nat \ {0}
                         /\ (q - n) + n = q
  BY CompactedBuffer
<1>2. rs \subseteq Live /\ rs' = {p - n : p \in rs}
  BY DEF Inv, WaitingOK, Compacted
<1>3. WaitingOK'
  <2> DEFINE f == [p \in rs |-> p - n]
  <2>1. f \in [rs -> rs'] /\ \A t \in rs' : \E p \in rs : f[p] = t
    BY <1>2
  <2>2. \A p, q \in rs : f[p] = f[q] => p = q
    BY <1>1, <1>2
  <2>3. f \in Injection(rs, rs') /\ f \in Surjection(rs, rs')
    BY <2>1, <2>2 DEF Injection, IsInjective, Surjection
  <2>4. ExistsBijection(rs, rs')
    BY <2>3 DEF ExistsBijection, Bijection
  <2>5. IsFiniteSet(Live)
    BY EntryFacts, FS_Interval DEF Inv, Live
  <2>6. IsFiniteSet(rs) /\ Cardinality(rs) <= Cfg.rs
    BY <1>2, <2>5, FS_Subset DEF Inv, WaitingOK
  <2>7. Cardinality(rs') = Cardinality(rs)
    BY <2>4, <2>6, FS_Bijection
  <2>8. rs' \subseteq Live'
    BY <1>1, <1>2
  <2>9. \A k \in rs' : ~rob'[k].done
    <3>1. ASSUME NEW k \in rs' PROVE ~rob'[k].done
      <4>1. PICK p \in rs : k = p - n
        BY <1>2
      <4>2. k \in Live' /\ k + n = p
        BY <1>1, <1>2, <4>1
      <4> QED BY <1>1, <4>2 DEF Inv, WaitingOK
    <3> QED BY <3>1
  <2> QED BY <2>6, <2>7, <2>8, <2>9 DEF WaitingOK
<1>4. \A k \in Live' : k \in rs' <=> k + n \in rs
  <2>1. \A k \in Live' : k + n \in rs => (k + n) - n \in rs'
    BY <1>2
  <2>2. \A k \in Live' : (k + n) - n = k
    BY <1>1
  <2>3. \A k \in Live' : k \in rs' => k + n \in rs
    BY <1>1, <1>2
  <2> QED BY <2>1, <2>2, <2>3
<1>5. LsqOK'
  <2>1. /\ lsq \in Seq(Nat) /\ Increasing(lsq) /\ Len(lsq) <= Cfg.lsq
        /\ Range(lsq) = {k \in Live : IsMem(InstrOf(k))} /\ Len(lsq) \in Nat
        /\ Range(lsq) = {lsq[k] : k \in 1 .. Len(lsq)}
    BY RangeIs DEF Inv, LsqOK
  <2>2. \A k \in 1 .. Len(lsq) : lsq[k] \in Live /\ lsq[k] \in Nat /\ lsq[k] - n \in Nat
    <3>1. \A k \in 1 .. Len(lsq) : lsq[k] \in Live
      BY <2>1
    <3> QED BY <1>1, <3>1
  <2>3. PICK t : t = [k \in 1 .. Len(lsq) |-> lsq[k] - n]
    OBVIOUS
  <2>4. t \in Seq(Nat) /\ Len(t) = Len(lsq) /\ \A k \in 1 .. Len(lsq) : t[k] = lsq[k] - n
    BY <2>1, <2>2, <2>3
  <2>5. lsq' = t
    BY <2>1, <2>3 DEF Compacted, Moved
  <2>6. Increasing(t)
    <3>1. ASSUME NEW i \in 1 .. Len(lsq), NEW j \in 1 .. Len(lsq), i < j
          PROVE  lsq[i] - n < lsq[j] - n
      <4>1. lsq[i] < lsq[j] /\ lsq[i] \in Nat /\ lsq[j] \in Nat
        BY <2>1, <2>2, <3>1 DEF Increasing
      <4> QED BY <4>1
    <3> QED BY <2>4, <3>1 DEF Increasing
  <2>7. Range(t) = {k \in Live' : IsMem(InstrOf(k)')}
    <3>1. Range(t) = {t[k] : k \in 1 .. Len(lsq)}
      BY <2>4, RangeIs
    <3>2. ASSUME NEW x \in Range(t) PROVE x \in Live' /\ IsMem(InstrOf(x)')
      <4>1. PICK k \in 1 .. Len(lsq) : x = lsq[k] - n
        BY <2>4, <3>1
      <4>2. PICK y \in Live : y = lsq[k] /\ IsMem(InstrOf(y))
        BY <2>1
      <4>3. x \in Live' /\ x + n = y
        BY <1>1, <4>1, <4>2
      <4> QED BY <1>1, <4>2, <4>3
    <3>3. ASSUME NEW x \in Live', IsMem(InstrOf(x)') PROVE x \in Range(t)
      <4>1. x + n \in Live /\ IsMem(InstrOf(x + n))
        BY <1>1, <3>3
      <4>2. PICK k \in 1 .. Len(lsq) : lsq[k] = x + n
        BY <2>1, <4>1
      <4>3. t[k] = x
        BY <1>1, <2>4, <4>2
      <4> QED BY <3>1, <4>3
    <3> HIDE DEF Range
    <3> QED BY <3>2, <3>3
  <2> QED BY <2>1, <2>4, <2>5, <2>6, <2>7 DEF LsqOK, Increasing
<1>6. DroppedOK'
  BY DEF Inv, DroppedOK
<1>7. /\ executing \in Seq(Job) /\ Len(executing) \in Nat
      /\ \A k \in 1 .. Len(executing) : /\ executing[k].gone \/ executing[k].pos \in Live
                                       /\ executing[k] \in Job
  BY ElementOfSeq DEF Inv, ExecutingOK
<1>8. PICK t : t = [k \in 1 .. Len(executing) |-> [executing[k] EXCEPT !.pos = @ - n]]
  OBVIOUS
<1>9. executing' = t
  BY <1>7, <1>8 DEF Compacted
<1>10. ASSUME NEW k \in 1 .. Len(executing)
       PROVE  /\ t[k] \in Job /\ t[k].pos = executing[k].pos - n
              /\ t[k].gone = executing[k].gone
              /\ executing[k].pos \in Int
  <2>1. PICK e \in Job : e = executing[k]
    BY <1>7
  <2>2. t[k] = [e EXCEPT !.pos = @ - n]
    BY <1>8, <2>1
  <2>3. e.pos \in Int /\ e.left \in Nat /\ e.gone \in BOOLEAN
    BY <2>1 DEF Job
  <2>4. t[k] = [pos |-> e.pos - n, left |-> e.left, gone |-> e.gone]
    BY <2>1, <2>2 DEF Job
  <2>5. e.pos - n \in Int
    BY <2>3
  <2> QED BY <2>1, <2>3, <2>4, <2>5 DEF Job
<1>11. t \in Seq(Job) /\ Len(t) = Len(executing)
  BY <1>7, <1>8, <1>10
<1>12. \A k \in 1 .. Len(t) : t[k].gone \/ t[k].pos \in Live'
  BY <1>1, <1>7, <1>10, <1>11
<1>13. Once(t)
  <2>1. ASSUME NEW j \in 1 .. Len(t), NEW k \in 1 .. Len(t), ~t[j].gone, ~t[k].gone,
               t[j].pos = t[k].pos
        PROVE  j = k
    <3>1. executing[j].pos = executing[k].pos
      BY <1>10, <1>11, <2>1
    <3> QED BY <1>10, <1>11, <2>1, <3>1 DEF Inv, ExecutingOK, Once
  <2> QED BY <2>1 DEF Once
<1>14. ASSUME NEW p \in Live' PROVE Executes(p)' <=> Executes(p + n)
  <2>1. \A k \in 1 .. Len(executing) : t[k].pos = p <=> executing[k].pos = p + n
    BY <1>1, <1>10
  <2> QED BY <1>9, <1>10, <1>11, <2>1 DEF Executes, RunsIn
<1>15. \A p \in Live' : Executes(p)' <=> ~rob'[p].done /\ p \notin rs'
  BY <1>1, <1>4, <1>14 DEF Inv, ExecutingOK
<1>16. ExecutingOK'
  BY <1>9, <1>11, <1>12, <1>13, <1>15 DEF ExecutingOK
<1> QED BY <1>1, <1>3, <1>5, <1>6, <1>16

LEMMA EndCommitInv ==
  ASSUME Inv, EndCommit
  PROVE  Inv'
<1>1. /\ stage = "commit" /\ stage' = "exec" /\ cursor' = 0 /\ done' = 0
      /\ UNCHANGED <<setup, arch, physVal, physReady, rat, dropped, front, control, used,
                     progress, clock>>
      /\ \E n : free' = Reclaimed(n) /\ pendingFree' = Kept(pendingFree, n)
      /\ Compacted(head) \/ UNCHANGED <<rob, head, rs, lsq, executing>>
  BY DEF EndCommit, Enter, Compacted
<1>2. ArchOK' /\ FrontOK' /\ ClockOK' /\ FileOK'
  BY <1>1, ArchKept, FrontKept, ClockKept, FileKept DEF Inv
<1>3. ListsOK'
  <2>1. PICK n : free' = Reclaimed(n) /\ pendingFree' = Kept(pendingFree, n)
    BY <1>1
  <2> QED BY <2>1, ReclaimType DEF Inv, ListsOK
<1>4. LoopOK'
  BY <1>1 DEF Inv, LoopOK
<1>5. BufferOK' /\ WaitingOK' /\ LsqOK' /\ ExecutingOK' /\ DroppedOK'
  <2>1. CASE Compacted(head)
    <3>1. PICK n \in Nat : n = head
      BY EntryFacts DEF Inv
    <3>2. Compacted(n)
      BY <2>1, <3>1
    <3> QED BY <1>1, <3>1, <3>2, CompactedInv
  <2>2. CASE UNCHANGED <<rob, head, rs, lsq, executing>>
    <3>1. BufferOK' /\ WaitingOK' /\ LsqOK' /\ Live' = Live
      BY <1>1, <2>2, BufferKept, WaitingKept, LsqKept DEF Inv
    <3>2. DroppedOK'
      BY <1>1, <3>1 DEF Inv, DroppedOK
    <3>3. ExecutingOK'
      BY <1>1, <2>2, <3>1 DEF Inv, ExecutingOK, Executes
    <3> QED BY <3>1, <3>2, <3>3
  <2> QED BY <1>1, <2>1, <2>2
<1> QED BY <1>2, <1>3, <1>4, <1>5 DEF Inv

-----------------------------------------------------------------------------
(* The invariant holds.                                                    *)

LEMMA InitInv ==
  ASSUME Init
  PROVE  Inv
<1>1. SetupOK(setup)
  BY SetupsAssumption DEF Init
<1>2. ArchOK
  <2>1. setup \in Setups /\ regs = setup.regs /\ mem = setup.mem /\ exitCode = 0
        /\ halted = FALSE
    BY DEF Init
  <2>2. 0 \in Word
    BY Sizes DEF Word
  <2>3. regs \in [Reg -> Word] /\ regs[0] = 0 /\ mem \in [Addr -> Word]
    BY <1>1, <2>1 DEF SetupOK
  <2> QED BY <2>1, <2>2, <2>3 DEF ArchOK
<1>3. FileOK
  BY PhysFacts, Sizes DEF Init, FileOK, Word
<1>4. ListsOK
  <2>1. PICK n \in Nat, m \in Nat : n = Cfg.phys /\ m = NumRegs /\ n > m
    BY CfgAssumption, Sizes
  <2>2. free = [k \in 1 .. n - m |-> n - k] /\ Phys = 0 .. n - 1
    BY <2>1 DEF Init, Phys
  <2>3. \A k \in 1 .. n - m : n - k \in 0 .. n - 1
    OBVIOUS
  <2>4. free \in Seq(Phys)
    BY <2>1, <2>2, <2>3
  <2> QED BY <2>4 DEF Init, ListsOK
<1>5. BufferOK /\ Live = {}
  BY <1>2, BufferSize DEF Init, BufferOK, Live
<1>6. FrontOK
  <2>1. fetchQ = <<>> /\ <<>> \in Seq(Slot)
    BY DEF Init
  <2>2. fetchPc = 0 /\ bubble = 0 /\ fetchHalted = FALSE /\ line = -1
    BY DEF Init, NoReg
  <2>3. fetchQ \in Seq(Slot) /\ line \in Int /\ fetchPc \in Int
    BY <2>1, <2>2
  <2> QED BY <2>2, <2>3 DEF FrontOK
<1>7. LoopOK
  BY <1>1 DEF Init, LoopOK, SetupOK
<1>8. ClockOK
  BY <1>2, BufferSize, TimingAssumption, SMTT(20) DEF Init, ClockOK
<1>9. WaitingOK
  <2>1. Cardinality({}) = 0 /\ Cfg.rs \in Nat
    BY FS_EmptySet, CfgAssumption
  <2> QED BY <2>1 DEF Init, WaitingOK
<1>10. LsqOK
  <2>1. lsq = <<>> /\ Len(<<>>) = 0 /\ <<>> \in Seq(Nat)
    BY DEF Init
  <2>2. Range(<<>>) = {}
    BY DEF Range
  <2> QED BY <1>5, <2>1, <2>2, CfgAssumption DEF LsqOK, Increasing
<1>11. ExecutingOK /\ DroppedOK
  BY <1>5 DEF Init, ExecutingOK, DroppedOK, Once
<1> QED BY <1>2, <1>3, <1>4, <1>5, <1>6, <1>7, <1>8, <1>9, <1>10, <1>11 DEF Inv

\* The kinds of steps.
CommitStep == Squash \/ CommitStore \/ CommitHalt \/ CommitOther \/ EndCommit
ExecStep   == ExecDropped \/ Tick \/ Complete \/ ResolveBranch \/ Redirect \/ Astray
              \/ EndExec
OtherStep  == Stop \/ Starting \/ EndIssue \/ Rename \/ EndRename \/ FetchStep \/ EndCycle
              \/ Deadlock

LEMMA NextKinds ==
  ASSUME Next
  PROVE  CommitStep \/ ExecStep \/ IssueStep \/ OtherStep
BY DEF Next, CommitStep, ExecStep, IssueStep, OtherStep, Starting, FetchStep

LEMMA StutterInv ==
  ASSUME Inv, UNCHANGED vars
  PROVE  Inv'
<1>1. UNCHANGED <<setup, arch, rename, window, front, control, loop, clock>>
  BY DEF vars
<1>2. ArchOK' /\ FrontOK'
  BY <1>1, ArchKept, FrontKept DEF Inv
<1>3. FileOK' /\ ListsOK' /\ BufferOK' /\ WaitingOK' /\ LsqOK'
  BY <1>1, FileKept, ListsKept, BufferKept, WaitingKept, LsqKept DEF Inv, rename, window
<1>4. LoopOK'
  BY <1>1 DEF loop, Inv, LoopOK, UnitCount
<1>5. ClockOK'
  BY <1>1 DEF loop, clock, arch, Inv, ClockOK, Watchdog
<1>6. ExecutingOK' /\ DroppedOK'
  BY <1>1, ExecutingKept DEF window, loop, Inv
<1> QED BY <1>2, <1>3, <1>4, <1>5, <1>6 DEF Inv

LEMMA NextInv ==
  ASSUME Inv, [Next]_vars
  PROVE  Inv'
<1>1. CASE CommitStep
  BY <1>1, SquashInv, CommitStoreInv, CommitHaltInv, CommitOtherInv, EndCommitInv
  DEF CommitStep
<1>2. CASE ExecStep
  BY <1>2, ExecDroppedInv, TickInv, CompleteInv, ResolveInv, RedirectInv, AstrayInv,
     EndExecInv DEF ExecStep
<1>3. CASE IssueStep
  BY <1>3, IssueStepInv
<1>4. CASE OtherStep
  BY <1>4, StopInv, StartInv, EndIssueInv, RenameInv, EndRenameInv, FetchStepInv,
     EndCycleInv, DeadlockInv DEF OtherStep
<1>5. CASE UNCHANGED vars
  BY <1>5, StutterInv
<1> QED BY <1>1, <1>2, <1>3, <1>4, <1>5, NextKinds

LEMMA InvHolds == Spec => []Inv
<1>1. Init => Inv
  BY InitInv
<1>2. Inv /\ [Next]_vars => Inv'
  BY NextInv
<1> QED BY <1>1, <1>2, PTL DEF Spec

\* Whatever program it runs, with any sizes of its queues and under any history of
\* bundles and heat, the core keeps its types: no queue, buffer, station or unit holds
\* more than it has room for, and no list names an entry outside the window.
THEOREM TypeCorrect == Spec => []TypeOK
<1>1. Inv => TypeOK
  BY InvTypes
<1> QED BY <1>1, InvHolds, PTL

\* From the invariant: every live entry waits, executes once, or is done, and the
\* load/store queue is the list of the window's loads and stores.
AllOwn(x) == \A k \in 1 .. Len(x) : ~x[k].gone
Unmarked  == AllOwn(executing)

LEMMA InvQueues ==
  ASSUME Inv, TakenArePredicted(setup) => Unmarked
  PROVE  QueuesAgree
<1>a. PICK own : own = {k \in DOMAIN executing : ~executing[k].gone}
  OBVIOUS
<1>0. SUFFICES ASSUME stage \notin {"exec", "done"}
      PROVE  /\ \A p \in Live :
                  Cardinality({k \in own : executing[k].pos = p})
                    = IF rob[p].done \/ p \in rs THEN 0 ELSE 1
             /\ \A p \in rs : ~rob[p].done
             /\ {executing[k].pos : k \in own} \subseteq Live
             /\ TakenArePredicted(setup) => own = DOMAIN executing
             /\ lsq = Ascending({p \in Live : IsMem(InstrOf(p))})
  BY <1>a DEF QueuesAgree
<1>1. /\ DOMAIN executing = 1 .. Len(executing)
      /\ \A k \in 1 .. Len(executing) : executing[k].gone \/ executing[k].pos \in Live
      /\ \A k \in own : k \in 1 .. Len(executing) /\ ~executing[k].gone
      /\ \A k \in 1 .. Len(executing) : ~executing[k].gone => k \in own
      /\ \A j, k \in own : executing[j].pos = executing[k].pos => j = k
      /\ \A p \in Live : Executes(p) <=> ~rob[p].done /\ p \notin rs
  BY <1>0, <1>a DEF Inv, ExecutingOK, Once
<1>2. ASSUME NEW p \in Live
      PROVE  Cardinality({k \in own : executing[k].pos = p})
               = IF rob[p].done \/ p \in rs THEN 0 ELSE 1
  <2>1. PICK running : running = {k \in own : executing[k].pos = p}
    OBVIOUS
  <2>2. CASE Executes(p)
    <3>1. PICK k \in 1 .. Len(executing) : executing[k].pos = p /\ ~executing[k].gone
      BY <2>2 DEF Executes, RunsIn
    <3>2. running = {k}
      BY <1>1, <2>1, <3>1
    <3>3. Cardinality(running) = 1
      BY <3>2, FS_Singleton
    <3> QED BY <1>1, <2>1, <2>2, <3>3
  <2>3. CASE ~Executes(p)
    <3>1. running = {}
      BY <1>1, <2>1, <2>3 DEF Executes, RunsIn
    <3>2. Cardinality(running) = 0
      BY <3>1, FS_EmptySet
    <3> QED BY <1>1, <2>1, <2>3, <3>2
  <2> QED BY <2>2, <2>3
<1>3. \A p \in rs : ~rob[p].done
  BY DEF Inv, WaitingOK
<1>4. lsq = Ascending({p \in Live : IsMem(InstrOf(p))})
  <2>1. lsq \in Seq(Nat) /\ Increasing(lsq) /\ Range(lsq) = {p \in Live : IsMem(InstrOf(p))}
    BY DEF Inv, LsqOK
  <2>2. lsq = Ascending(Range(lsq))
    BY <2>1, AscendingIsUnique
  <2> QED BY <2>1, <2>2
<1>5. {executing[k].pos : k \in own} \subseteq Live
  BY <1>1
<1>6. TakenArePredicted(setup) => own = DOMAIN executing
  BY <1>1, <1>a DEF Unmarked, AllOwn
<1> QED BY <1>2, <1>3, <1>4, <1>5, <1>6

-----------------------------------------------------------------------------
(* Where every taken branch is predicted no redirect happens.              *)

\* What a step does to an entry that stays where it is: its part in renaming is kept,
\* and what it delivers becomes ready.
Quiet ==
  /\ UNCHANGED <<setup, rat, free, pendingFree, head>>
  /\ Len(rob') = Len(rob)
  /\ \A k \in 1 .. Len(rob) :
       /\ SameRoles(rob'[k], rob[k])
       /\ rob'[k].done /\ rob[k].dst # NoReg => rob[k].done \/ physReady'[rob[k].dst]
  /\ \A d \in Phys : physReady[d] => physReady'[d]

Retire ==
  /\ CanCommit /\ Committed
  /\ UNCHANGED <<rob, rat, free, physReady>>
  /\ pendingFree' = IF WritesRd(OldestInstr) THEN Append(pendingFree, Oldest.prev)
                                             ELSE pendingFree

LEMMA SameIsQuiet ==
  ASSUME BufferOK, UNCHANGED <<setup, rat, free, pendingFree, head, rob, physReady>>
  PROVE  Quiet
BY DEF Quiet, SameRoles, BufferOK

LEMMA OtherIsQuiet ==
  ASSUME Inv, OtherStep
  PROVE  Quiet \/ Rename
<1>1. CASE FetchStep
  BY <1>1, FetchStepKinds, SameIsQuiet DEF Inv, Still, rename, window
<1>2. CASE Starting
  BY <1>2, SameIsQuiet DEF Starting, StartCycle, Inv, rename, window
<1>3. CASE Stop \/ EndIssue \/ EndRename \/ EndCycle \/ Deadlock
  BY <1>3, SameIsQuiet DEF Stop, EndIssue, EndRename, EndCycle, Deadlock, Inv, rename, window
<1> QED BY <1>1, <1>2, <1>3 DEF OtherStep

\* One entry is rewritten and its result, if it has one, is ready.
LEMMA RewriteIsQuiet ==
  ASSUME Inv, NEW p \in 1 .. Len(rob), NEW e \in Sound, rob' = [rob EXCEPT ![p] = e],
         SameRoles(e, rob[p]), UNCHANGED <<setup, rat, free, pendingFree, head>>,
         \A d \in Phys : physReady[d] => physReady'[d],
         e.done /\ rob[p].dst # NoReg => rob[p].done \/ physReady'[rob[p].dst]
  PROVE  Quiet
<1>1. /\ Len(rob') = Len(rob)
      /\ \A k \in 1 .. Len(rob) : rob'[k] = IF k = p THEN e ELSE rob[k]
  BY Rewritten DEF Inv
<1> QED BY <1>1 DEF Quiet, SameRoles

LEMMA IssueIsQuiet ==
  ASSUME Inv, IssueStep
  PROVE  Quiet
<1>1. PICK e \in Sound : IssueForm(e)
  BY IssueStepForm
<1>2. PICK p : p = Chosen
  OBVIOUS
<1>3. /\ CanIssue /\ rob' = [rob EXCEPT ![p] = e] /\ SameRoles(e, rob[p])
      /\ UNCHANGED <<setup, rat, free, pendingFree, head>>
      /\ Sent(e) \/ Settled(e)
  BY <1>1, <1>2 DEF IssueForm, LeaveRs
<1>4. p \in 1 .. Len(rob) /\ ~rob[p].done
  BY <1>2, <1>3, ChosenFacts
<1>5. \A d \in Phys : physReady[d] => physReady'[d]
  BY <1>3 DEF Sent, Settled
<1>6. e.done /\ rob[p].dst # NoReg => physReady'[rob[p].dst]
  BY <1>3 DEF Sent, Settled, SameRoles
<1> QED BY <1>3, <1>4, <1>5, <1>6, RewriteIsQuiet

LEMMA CompleteIsQuiet ==
  ASSUME Inv, Complete
  PROVE  Quiet
<1>1. PICK p : p = Current.pos
  OBVIOUS
<1>2. PICK e : e = [rob[p] EXCEPT !.done = TRUE]
  OBVIOUS
<1>3. PICK d : d = ResultReg(rob[p])
  OBVIOUS
<1>4. /\ Finishing /\ rob' = [rob EXCEPT ![p] = e]
      /\ physReady' = IF d = NoReg THEN physReady ELSE [physReady EXCEPT ![d] = TRUE]
      /\ UNCHANGED <<setup, rat, free, pendingFree, head>>
  BY <1>1, <1>2, <1>3 DEF Complete
<1>5. /\ p \in 1 .. Len(rob) /\ rob[p] \in Sound /\ rob[p] \in Entry
  BY <1>1, <1>4, FinishingFacts
<1>6. e \in Sound /\ SameRoles(e, rob[p])
  BY <1>2, <1>5, DoneIsSound
<1>7. physReady \in [Phys -> BOOLEAN] /\ rob[p].dst \in Phys \cup {NoReg}
  BY <1>5 DEF Inv, FileOK, Entry
<1>8. \A x \in Phys : physReady[x] => physReady'[x]
  BY <1>4, <1>7
<1>9. rob[p].dst # NoReg => d = rob[p].dst /\ physReady'[rob[p].dst]
  BY <1>3, <1>4, <1>7 DEF ResultReg
<1> QED BY <1>4, <1>5, <1>6, <1>8, <1>9, RewriteIsQuiet

LEMMA ExecIsQuiet ==
  ASSUME Inv, ExecStep
  PROVE  Quiet \/ Redirect
<1>1. CASE ExecDropped \/ Tick \/ Astray \/ EndExec
  BY <1>1, SameIsQuiet DEF ExecDropped, Tick, Astray, EndExec, Inv, rename, window
<1>2. CASE ResolveBranch
  <2>1. PICK p : p = Current.pos
    OBVIOUS
  <2>2. PICK e : e = Resolved(rob[p])
    OBVIOUS
  <2>3. /\ Finishing /\ IsBranch(InstrOf(p)) /\ rob' = [rob EXCEPT ![p] = e]
        /\ UNCHANGED <<setup, rat, free, pendingFree, head, physReady>>
    BY <1>2, <2>1, <2>2 DEF ResolveBranch, rename
  <2>4. p \in 1 .. Len(rob) /\ rob[p] \in Sound /\ Fits(rob[p])
    BY <2>1, <2>3, FinishingFacts
  <2>5. e \in Sound /\ SameRoles(e, rob[p])
    BY <2>2, <2>3, <2>4, ResolvedIsSound DEF Inv, InstrOf, SameRoles
  <2>6. rob[p].dst = NoReg
    <3>1. ~WritesRd(InstrOf(p))
      BY <2>3 DEF WritesRd, Micro!Writes, IsBranch, Micro!IsBranch, Micro!BranchOps
    <3> QED BY <2>4, <3>1 DEF Fits, InstrOf
  <2> QED BY <2>3, <2>4, <2>5, <2>6, RewriteIsQuiet
<1> QED BY <1>1, <1>2, CompleteIsQuiet DEF ExecStep

LEMMA CommitKinds ==
  ASSUME Inv, CommitStore \/ CommitHalt \/ CommitOther
  PROVE  Retire
<1>1. CanCommit /\ Committed /\ UNCHANGED <<rob, rat, free, physReady>>
  BY DEF CommitStore, CommitHalt, CommitOther, rename
<1>2. /\ Fits(Oldest) /\ OldestInstr = InstrAt(Oldest.pc)
  BY <1>1, OldestFacts DEF OldestInstr
<1>3. Oldest.prev # NoReg <=> WritesRd(OldestInstr)
  BY <1>2 DEF Fits
<1>4. CASE CommitStore \/ CommitHalt
  <2>1. pendingFree' = pendingFree
    BY <1>4 DEF CommitStore, CommitHalt, rename
  <2>2. ~WritesRd(OldestInstr)
    BY <1>4 DEF CommitStore, CommitHalt, IsHalt, WritesRd, Micro!Writes
  <2> QED BY <1>1, <2>1, <2>2 DEF Retire
<1>5. CASE CommitOther
  BY <1>1, <1>3, <1>5 DEF CommitOther, CommitResult, Retire
<1> QED BY <1>4, <1>5

LEMMA StepKinds ==
  ASSUME Inv, [Next]_vars
  PROVE  Quiet \/ Rename \/ Retire \/ Squash \/ EndCommit \/ Redirect
<1>1. CASE UNCHANGED vars
  BY <1>1, SameIsQuiet DEF vars, rename, window, Inv
<1>2. CASE CommitStep
  BY <1>2, CommitKinds DEF CommitStep
<1> QED BY <1>1, <1>2, NextKinds, ExecIsQuiet, IssueIsQuiet, OtherIsQuiet

LEMMA BranchWritesNothing ==
  ASSUME NEW i, IsBranch(i)
  PROVE  ~WritesRd(i) /\ ~IsHalt(i)
BY DEF WritesRd, Micro!Writes, IsBranch, Micro!IsBranch, Micro!BranchOps, IsHalt

LEMMA NoRedirect ==
  ASSUME Inv, TakenArePredicted(setup), Predicted, Redirect
  PROVE  FALSE
<1>1. PICK p : p = Current.pos
  OBVIOUS
<1>2. /\ Finishing /\ IsBranch(InstrOf(p)) /\ rob[p].pred = "none" /\ Taken(rob[p])
  BY <1>1 DEF Redirect, Redirects
<1>3. p \in 1 .. Len(rob) /\ Fits(rob[p]) /\ rob[p].pc \in 0 .. Len(prog) - 1
  BY <1>1, <1>2, FinishingFacts, EntryFacts DEF Inv
<1>4. CASE Speculating
  BY <1>2, <1>3, <1>4 DEF Predicted
<1>5. CASE \A i \in Range(setup.prog) : IsBranch(i) => NeverTaken(i)
  <2>1. rob[p].pc + 1 \in DOMAIN prog
    BY <1>3, SetupFacts DEF Inv
  <2>2. InstrOf(p) \in Range(setup.prog)
    BY <2>1 DEF InstrOf, InstrAt, prog, Range
  <2>3. NeverTaken(InstrOf(p))
    BY <1>2, <1>5, <2>2
  <2>4. rob[p].operands[1] = rob[p].operands[2]
    BY <1>3, <2>3 DEF Fits, InstrOf
  <2>5. InstrOf(p).op = "BNE"
    BY <2>3 DEF NeverTaken
  <2> QED BY <1>2, <2>4, <2>5 DEF Taken, TakenOn, InstrOf
<1> QED BY <1>4, <1>5 DEF TakenArePredicted, Speculating

\* The parts of the prediction: what is queued, and what is in the buffer.
QueuePredicted ==
  \A k \in 1 .. Len(fetchQ) : IsBranch(InstrAt(fetchQ[k].pc)) => fetchQ[k].pred # "none"
BufferPredicted ==
  \A p \in 1 .. Len(rob) : IsBranch(InstrOf(p)) => rob[p].pred # "none"

LEMMA QueuedSlot ==
  ASSUME Inv, QueuePredicted, NEW slot \in Slot, fetchQ' = Append(fetchQ, slot),
         setup' = setup, IsBranch(InstrAt(slot.pc)) => slot.pred # "none"
  PROVE  QueuePredicted'
<1>1. fetchQ \in Seq(Slot) /\ Len(fetchQ) \in Nat
  BY DEF Inv, FrontOK
<1>2. /\ Len(fetchQ') = Len(fetchQ) + 1 /\ fetchQ'[Len(fetchQ) + 1] = slot
      /\ \A k \in 1 .. Len(fetchQ) : fetchQ'[k] = fetchQ[k]
  BY <1>1, AppendProperties
<1>3. \A k \in 1 .. Len(fetchQ') : k \in 1 .. Len(fetchQ) \/ k = Len(fetchQ) + 1
  BY <1>1, <1>2
<1> QED BY <1>2, <1>3, SoundKept DEF QueuePredicted

LEMMA FetchPredicts ==
  ASSUME Inv, QueuePredicted, control.spec # "off", FetchStep
  PROVE  QueuePredicted' /\ control' = control
<1>0. control' = control /\ setup' = setup
  BY FetchStepKinds DEF Still
<1>1. ASSUME fetchQ' = fetchQ PROVE QueuePredicted'
  BY <1>0, <1>1, SoundKept DEF QueuePredicted
<1>2. ASSUME InProgram, NEW pred \in {"none", "taken", "fall"}, NEW target,
             Fetch(pred, target), IsBranch(Fetched) => pred # "none"
      PROVE  QueuePredicted'
  <2>1. PICK slot : slot = [pc |-> fetchPc, pred |-> pred]
    OBVIOUS
  <2>2. slot \in Slot /\ slot.pc = fetchPc /\ slot.pred = pred
    BY <1>2, <2>1, FetchedFacts DEF Slot
  <2>3. fetchQ' = Append(fetchQ, slot)
    BY <1>2, <2>1 DEF Fetch
  <2> QED BY <1>0, <1>2, <2>2, <2>3, QueuedSlot DEF Fetched
<1>3. CASE FetchPlain
  <2>1. InProgram /\ Fetch("none", fetchPc + 1) /\ ~IsBranch(Fetched)
    BY <1>3 DEF FetchPlain
  <2> QED BY <1>0, <1>2, <2>1
<1>4. CASE FetchUnpredicted
  BY <1>4 DEF FetchUnpredicted, Speculates
<1>5. CASE FetchHalt
  <2>1. InProgram /\ Fetch("none", fetchPc + 1) /\ IsHalt(Fetched)
    BY <1>5 DEF FetchHalt
  <2> QED BY <1>0, <1>2, <2>1, BranchWritesNothing
<1>6. ASSUME NEW t \in BOOLEAN, FetchPredicted(t) PROVE QueuePredicted'
  BY <1>2, <1>6 DEF FetchPredicted
<1>7. CASE FetchBubble \/ FetchOutside \/ FetchWaits \/ EndFetch
           \/ \E c \in setup.lines : FetchMiss(c)
  BY <1>1, <1>7 DEF FetchBubble, FetchOutside, FetchWaits, EndFetch, FetchMiss, front
<1> QED BY <1>0, <1>3, <1>4, <1>5, <1>6, <1>7 DEF FetchStep

LEMMA StartPredicts ==
  ASSUME Inv, Speculating, QueuePredicted, control.spec # "off", Starting
  PROVE  QueuePredicted' /\ control'.spec # "off"
<1>1. PICK b \in setup.plan \cup {control}, h \in setup.headroom : StartCycle(b, h)
  BY DEF Starting
<1>2. setup.plan # {}
  BY SetupFacts DEF Inv, SetupOK
<1>3. b.spec # "off" /\ h # "exhausted"
  BY <1>2 DEF Speculating
<1>4. Governed(b, h).spec = b.spec
  BY <1>3, GovernedType DEF Inv, LoopOK
<1>5. control' = Governed(b, h) /\ UNCHANGED <<setup, fetchQ>>
  BY <1>1 DEF StartCycle, front
<1> QED BY <1>3, <1>4, <1>5, SoundKept DEF QueuePredicted

LEMMA QueueShrinks ==
  ASSUME Inv, QueuePredicted, setup' = setup,
         fetchQ' = fetchQ \/ fetchQ' = <<>> \/ (fetchQ # <<>> /\ fetchQ' = Tail(fetchQ))
  PROVE  QueuePredicted'
<1>1. CASE fetchQ' = fetchQ \/ fetchQ' = <<>>
  BY <1>1, SoundKept DEF QueuePredicted
<1>2. CASE fetchQ # <<>> /\ fetchQ' = Tail(fetchQ)
  <2>1. fetchQ \in Seq(Slot) /\ Len(fetchQ) \in Nat
    BY DEF Inv, FrontOK
  <2>2. /\ Len(fetchQ') = Len(fetchQ) - 1
        /\ \A k \in 1 .. Len(fetchQ') : fetchQ'[k] = fetchQ[k + 1]
    BY <1>2, <2>1, HeadTailProperties
  <2>3. \A k \in 1 .. Len(fetchQ') : k + 1 \in 1 .. Len(fetchQ)
    BY <2>1, <2>2
  <2> QED BY <2>2, <2>3, SoundKept DEF QueuePredicted
<1> QED BY <1>1, <1>2

LEMMA ShrinkKinds ==
  ASSUME Inv, [Next]_vars
  PROVE  \/ FetchStep \/ Starting
         \/ /\ UNCHANGED <<setup, control>>
            /\ fetchQ' = fetchQ \/ fetchQ' = <<>> \/ (fetchQ # <<>> /\ fetchQ' = Tail(fetchQ))
<1>1. CASE UNCHANGED vars
  BY <1>1 DEF vars, front
<1>2. CASE CommitStep
  BY <1>2 DEF CommitStep, Squash, CommitStore, CommitHalt, CommitOther, EndCommit, Committed,
              Truncate, front
<1>3. CASE ExecStep
  BY <1>3 DEF ExecStep, ExecDropped, Tick, Complete, ResolveBranch, Redirect, Astray,
              EndExec, front
<1>4. CASE IssueStep
  <2>1. PICK e \in Sound : IssueForm(e)
    BY <1>4, IssueStepForm
  <2> QED BY <2>1 DEF IssueForm, LeaveRs, front
<1>5. CASE OtherStep
  BY <1>5 DEF OtherStep, Stop, EndIssue, Rename, CanRename, EndRename, EndCycle, Deadlock, front
<1> QED BY <1>1, <1>2, <1>3, <1>4, <1>5, NextKinds

\* The window after a squash: the branch is the last entry, and has committed.
LEMMA SquashShape ==
  ASSUME Inv, Squash
  PROVE  \E p \in 1 .. Len(rob) :
           /\ p = head + 1 /\ p \in Live /\ head' = p /\ Len(rob') = p /\ Live' = {}
           /\ \A k \in 1 .. p : k \in 1 .. Len(rob) /\ rob'[k] = rob[k]
           /\ IsBranch(InstrOf(p)) /\ rat' = rob[p].checkpoint
           /\ free' = RebuiltFree(p, rob[p].checkpoint)
           /\ physReady' = RebuiltReady(p, rob[p].checkpoint)
           /\ UNCHANGED <<setup, pendingFree>>
<1>1. PICK p : p = head + 1
  OBVIOUS
<1>2. /\ CanCommit /\ Oldest.mispredicted /\ Oldest = rob[p]
      /\ rat' = rob[p].checkpoint /\ free' = RebuiltFree(p, rob[p].checkpoint)
      /\ physReady' = RebuiltReady(p, rob[p].checkpoint)
      /\ rob' = SubSeq(rob, 1, p) /\ head' = p /\ UNCHANGED <<setup, pendingFree>>
  BY <1>1 DEF Squash, Truncate, Committed, Oldest
<1>3. /\ p \in 1 .. Len(rob) /\ p \in Live /\ Len(rob) \in Nat /\ p \in Nat
      /\ Fits(Oldest) /\ OldestInstr = InstrOf(p) /\ OldestInstr = InstrAt(Oldest.pc)
  BY <1>1, <1>2, OldestFacts DEF OldestInstr
<1>4. IsBranch(InstrOf(p))
  BY <1>2, <1>3 DEF Fits
<1>5. \A k \in 1 .. p : k \in 1 .. Len(rob) /\ rob[k] \in Sound
  BY <1>3, EntryFacts DEF Inv
<1>6. Len(rob') = p /\ \A k \in 1 .. p : rob'[k] = rob[k]
  BY <1>2, <1>3, <1>5, SubSeqProperties DEF Inv, BufferOK
<1>7. Live' = {}
  BY <1>2, <1>3, <1>6 DEF Live
<1> QED BY <1>1, <1>2, <1>3, <1>4, <1>5, <1>6, <1>7

\* The window moves to the front of the buffer, or stays.
Shifted(n) ==
  /\ n <= head /\ head' = head - n /\ Len(rob') = Len(rob) - n /\ Len(rob') \in Nat
  /\ \A k \in 1 .. Len(rob') : /\ k + n \in 1 .. Len(rob) /\ rob'[k] = rob[k + n]
                               /\ InstrOf(k)' = InstrOf(k + n)
  /\ \A k \in Live' : /\ k \in Nat /\ k \in 1 .. Len(rob') /\ k + n \in Live
                      /\ rob'[k] = rob[k + n] /\ InstrOf(k)' = InstrOf(k + n)
                      /\ k \in rs' <=> k + n \in rs
  /\ \A q \in Live : q - n \in Live' /\ (q - n) + n = q

LEMMA EndCommitShape ==
  ASSUME Inv, EndCommit
  PROVE  /\ \E n \in Nat : Shifted(n)
         /\ \E needed : free' = Reclaimed(needed) /\ pendingFree' = Kept(pendingFree, needed)
         /\ UNCHANGED <<setup, rat, physReady>>
<1>1. /\ UNCHANGED <<setup, rat, physReady>>
      /\ \E n : free' = Reclaimed(n) /\ pendingFree' = Kept(pendingFree, n)
      /\ Compacted(head) \/ UNCHANGED <<rob, head, rs, lsq, executing>>
  BY DEF EndCommit, Compacted
<1>2. head \in Nat /\ Len(rob) \in Nat
  BY EntryFacts DEF Inv
<1>3. CASE Compacted(head)
  <2>1. PICK n \in Nat : n = head
    BY <1>2
  <2>2. Compacted(n) /\ head' = 0
    BY <1>3, <2>1 DEF Compacted
  <2>3. /\ Len(rob') = Len(rob) - n /\ Len(rob) - n \in Nat
        /\ \A k \in 1 .. Len(rob') : k + n \in 1 .. Len(rob) /\ rob'[k] = rob[k + n]
        /\ \A k \in Live' : /\ k \in 1 .. Len(rob') /\ k \in Nat /\ k + n \in Live
                            /\ rob'[k] = rob[k + n] /\ InstrOf(k)' = InstrOf(k + n)
        /\ \A q \in Live : q - n \in Live' /\ (q - n) + n = q
    BY <1>1, <2>1, <2>2, CompactedBuffer
  <2>4. \A k \in 1 .. Len(rob') : InstrOf(k)' = InstrOf(k + n)
    BY <1>1, <2>3, SoundKept DEF InstrOf
  <2>5. \A k \in Live' : k \in rs' <=> k + n \in rs
    <3>1. rs' = {q - n : q \in rs} /\ rs \subseteq Live
      BY <2>2 DEF Compacted, Inv, WaitingOK
    <3>2. ASSUME NEW k \in Live', k \in rs' PROVE k + n \in rs
      <4>1. PICK q \in rs : k = q - n
        BY <3>1, <3>2
      <4> QED BY <2>3, <3>1, <4>1
    <3>3. ASSUME NEW k \in Live', k + n \in rs PROVE k \in rs'
      <4>1. (k + n) - n = k
        BY <2>3
      <4> QED BY <3>1, <3>3, <4>1
    <3> QED BY <3>2, <3>3
  <2>6. Shifted(n)
    BY <2>1, <2>2, <2>3, <2>4, <2>5 DEF Shifted
  <2> QED BY <1>1, <2>6
<1>4. CASE UNCHANGED <<rob, head, rs, lsq, executing>>
  <2>1. Live' = Live /\ \A k : InstrOf(k)' = InstrOf(k)
    BY <1>1, <1>4, BufferKept DEF Inv
  <2>2. \A k \in Live : k \in 1 .. Len(rob)
    BY EntryFacts DEF Inv
  <2>3. \A k \in 1 .. Len(rob) : k + 0 = k /\ k - 0 = k
    BY <1>2
  <2>4. Shifted(0)
    BY <1>2, <1>4, <2>1, <2>2, <2>3 DEF Shifted
  <2> QED BY <1>1, <2>4
<1> QED BY <1>1, <1>3, <1>4

LEMMA BufferPredicts ==
  ASSUME Inv, Inv', QueuePredicted, BufferPredicted, [Next]_vars, ~Redirect
  PROVE  BufferPredicted'
<1>1. /\ Len(rob) \in Nat /\ Len(rob') \in Nat
  BY EntryFacts DEF Inv, BufferOK
<1>2. CASE Quiet
  BY <1>2, SoundKept DEF Quiet, SameRoles, InstrOf, BufferPredicted
<1>3. CASE Rename
  <2>1. PICK e \in Sound : /\ CanRename /\ rob' = Append(rob, e) /\ e.pc = Head(fetchQ).pc
                           /\ e.pred = Head(fetchQ).pred
    BY <1>3, RenameShape
  <2>2. UNCHANGED <<setup, head>>
    BY <1>3 DEF Rename
  <2>3. PICK p : p = Len(rob) + 1
    OBVIOUS
  <2>4. /\ Len(rob') = p /\ rob'[p] = e /\ InstrOf(p)' = InstrAt(e.pc)
        /\ \A k \in 1 .. Len(rob) : rob'[k] = rob[k]
    BY <2>1, <2>2, <2>3, GrownBuffer
  <2>5. \A k \in 1 .. Len(rob) : InstrOf(k)' = InstrOf(k)
    BY <2>2, <2>4, SoundKept DEF InstrOf
  <2>6. \A k \in 1 .. Len(rob') : k \in 1 .. Len(rob) \/ k = p
    BY <1>1, <2>3, <2>4
  <2>7. fetchQ \in Seq(Slot) /\ fetchQ # <<>> /\ Head(fetchQ) = fetchQ[1] /\ 1 \in 1 .. Len(fetchQ)
    BY <2>1, IncomingFacts, EmptySeq
  <2>8. IsBranch(InstrAt(e.pc)) => e.pred # "none"
    BY <2>1, <2>7 DEF QueuePredicted
  <2> QED BY <2>4, <2>5, <2>6, <2>8 DEF BufferPredicted
<1>4. CASE Retire
  BY <1>4, SoundKept DEF Retire, Committed, InstrOf, BufferPredicted
<1>5. CASE Squash
  <2>1. PICK p \in 1 .. Len(rob) :
             /\ Len(rob') = p /\ setup' = setup
             /\ \A k \in 1 .. p : k \in 1 .. Len(rob) /\ rob'[k] = rob[k]
    BY <1>5, SquashShape
  <2>2. \A k \in 1 .. Len(rob') : InstrOf(k)' = InstrOf(k)
    BY <2>1, SoundKept DEF InstrOf
  <2> QED BY <2>1, <2>2 DEF BufferPredicted
<1>6. CASE EndCommit
  <2>1. PICK n \in Nat : Shifted(n)
    BY <1>6, EndCommitShape
  <2>2. \A k \in 1 .. Len(rob') : /\ k + n \in 1 .. Len(rob) /\ rob'[k] = rob[k + n]
                                  /\ InstrOf(k)' = InstrOf(k + n)
    BY <2>1 DEF Shifted
  <2> QED BY <2>2 DEF BufferPredicted
<1> QED BY <1>2, <1>3, <1>4, <1>5, <1>6, StepKinds

LEMMA PredictedKept ==
  ASSUME Inv, Inv', TakenArePredicted(setup), Predicted, [Next]_vars
  PROVE  Predicted' /\ ~Redirect /\ setup' = setup
<1>1. ~Redirect
  BY NoRedirect
<1>2. setup' = setup
  BY ShrinkKinds, FetchStepKinds DEF Still, Starting, StartCycle
<1>3. Speculating' = Speculating
  BY <1>2 DEF Speculating
<1>4. ASSUME Speculating PROVE QueuePredicted' /\ BufferPredicted' /\ control'.spec # "off"
  <2>1. QueuePredicted /\ BufferPredicted /\ control.spec # "off"
    BY <1>4 DEF Predicted, QueuePredicted, BufferPredicted
  <2>2. QueuePredicted' /\ control'.spec # "off"
    BY <1>4, <2>1, ShrinkKinds, FetchPredicts, StartPredicts, QueueShrinks
  <2> QED BY <1>1, <2>1, <2>2, BufferPredicts
<1> QED BY <1>1, <1>2, <1>3, <1>4 DEF Predicted, QueuePredicted, BufferPredicted

-----------------------------------------------------------------------------
(* Every physical register keeps one role.                                 *)

LEMMA OwnerFacts ==
  ASSUME Inv
  PROVE  /\ \A p \in Owners : p \in Live /\ rob[p].dst \in Phys /\ WritesRd(InstrOf(p))
         /\ \A p \in Live : p \in Owners <=> WritesRd(InstrOf(p))
         /\ \A p \in Live : p \notin Owners => rob[p].dst = NoReg
         /\ \A d : d \in Held <=> \E p \in Owners : rob[p].dst = d
<1>1. \A p \in Live : rob[p] \in Entry /\ Fits(rob[p])
  BY EntryFacts DEF Inv
<1>2. \A p \in Live : rob[p].dst \in Phys \cup {NoReg} /\ (rob[p].dst # NoReg <=> WritesRd(InstrOf(p)))
  BY <1>1 DEF Entry, Fits, InstrOf
<1> QED BY <1>2 DEF Owners, Held

LEMMA RenamedSame ==
  ASSUME NEW i, NEW e, NEW f, NEW a, NEW b, SameRoles(f, e), Renamed(i, e, a, b)
  PROVE  Renamed(i, f, a, b)
BY DEF SameRoles, Renamed

LEMMA QuietRegisters ==
  ASSUME Inv, Registers, Quiet
  PROVE  Registers'
<1>1. PICK m \in Tables, c \in [Reg -> Phys] :
         c = m[head + 1] /\ Mapped(m) /\ Parted(c) /\ Delivered(c)
  BY DEF Registers
<1>2. /\ UNCHANGED <<setup, rat, free, pendingFree, head>> /\ Len(rob') = Len(rob)
      /\ Live' = Live /\ \A p \in Live : p \in 1 .. Len(rob)
      /\ \A p \in Live : InstrOf(p)' = InstrOf(p)
  BY EntryFacts, SoundKept DEF Quiet, Live, SameRoles, InstrOf, Inv
<1>3. \A p \in Live : SameRoles(rob'[p], rob[p])
  BY <1>2 DEF Quiet
<1>4. Owners' = Owners /\ \A p \in Owners : p \in Live /\ rob'[p].dst = rob[p].dst
  BY <1>2, <1>3 DEF Owners, SameRoles
<1>5. Held' = Held
  BY <1>4 DEF Held
<1>6. Mapped(m)'
  <2>1. \A p \in Live : Renamed(InstrOf(p), rob[p], m[p], m[p + 1])
    BY <1>1 DEF Mapped
  <2>2. \A p \in Live : Renamed(InstrOf(p), rob'[p], m[p], m[p + 1])
    BY <1>3, <2>1, RenamedSame
  <2>3. m[Len(rob') + 1] = rat'
    BY <1>1, <1>2 DEF Mapped
  <2> QED BY <1>2, <2>2, <2>3 DEF Mapped
<1>7. Parted(c)'
  BY <1>1, <1>2, <1>4, <1>5 DEF Parted
<1>8. Delivered(c)'
  <2>1. \A d \in Phys : physReady[d] => physReady'[d]
    BY DEF Quiet
  <2>2. \A r \in Reg : physReady'[c[r]]
    BY <1>1, <2>1 DEF Delivered
  <2>3. ASSUME NEW p \in Owners, rob'[p].done PROVE physReady'[rob'[p].dst]
    <3>1. rob[p].dst \in Phys /\ rob[p].dst # NoReg /\ p \in 1 .. Len(rob)
      BY <1>2, OwnerFacts DEF Owners
    <3>2. rob[p].done \/ physReady'[rob[p].dst]
      BY <2>3, <3>1 DEF Quiet
    <3>3. rob[p].done => physReady[rob[p].dst]
      BY <1>1 DEF Delivered
    <3> QED BY <1>4, <2>1, <3>1, <3>2, <3>3
  <2> QED BY <1>4, <2>2, <2>3 DEF Delivered
<1> QED BY <1>1, <1>2, <1>6, <1>7, <1>8 DEF Registers

LEMMA FrontFacts ==
  ASSUME NEW T, NEW q \in Seq(T), q # <<>>, Distinct(q)
  PROVE  /\ Last(q) \in Range(q) /\ Range(Front(q)) = Range(q) \ {Last(q)}
         /\ Distinct(Front(q))
<1>1. PICK n \in Nat : n = Len(q) /\ n >= 1
  BY EmptySeq
<1>2. PICK f : f = Front(q)
  OBVIOUS
<1>3. f = SubSeq(q, 1, n - 1) /\ Last(q) = q[n]
  BY <1>1, <1>2 DEF Front, Last
<1>4. f \in Seq(T) /\ Len(f) = n - 1 /\ \A k \in 1 .. n - 1 : f[k] = q[k] /\ k \in 1 .. n
  <2>1. \A k \in 1 .. n - 1 : q[k] \in T /\ k \in 1 .. n
    BY <1>1
  <2> QED BY <1>1, <1>3, <2>1, SubSeqProperties, SMTT(20)
<1>5. Range(f) = {f[k] : k \in 1 .. n - 1} /\ Range(q) = {q[k] : k \in 1 .. n}
  BY <1>1, <1>4, RangeIs
<1>6. n \in 1 .. n /\ \A k \in 1 .. n : k \in 1 .. n - 1 \/ k = n
  BY <1>1
<1>7. \A k \in 1 .. n - 1 : k # n
  BY <1>1
<1>8. \A k \in 1 .. n - 1 : q[k] # q[n]
  BY <1>1, <1>4, <1>6, <1>7 DEF Distinct
<1>9. Range(f) = Range(q) \ {q[n]}
  <2>1. ASSUME NEW x \in Range(f) PROVE x \in Range(q) \ {q[n]}
    BY <1>4, <1>5, <1>8
  <2>2. ASSUME NEW x \in Range(q), x # q[n] PROVE x \in Range(f)
    <3>1. PICK k \in 1 .. n : x = q[k]
      BY <1>5
    <3> QED BY <1>4, <1>5, <1>6, <2>2, <3>1
  <2> HIDE DEF Range
  <2> QED BY <2>1, <2>2
<1>10. Distinct(f)
  BY <1>1, <1>4 DEF Distinct
<1> QED BY <1>2, <1>3, <1>5, <1>6, <1>9, <1>10

LEMMA RenameRegisters ==
  ASSUME Inv, Registers, Rename
  PROVE  Registers'
<1>1. PICK m \in Tables, c \in [Reg -> Phys] :
         c = m[head + 1] /\ Mapped(m) /\ Parted(c) /\ Delivered(c)
  BY DEF Registers
<1>2. PICK e \in Sound, d \in Phys \cup {NoReg} :
           /\ CanRename /\ (d # NoReg <=> WritesRd(Incoming))
           /\ d # NoReg => d = Last(free) /\ free # <<>>
           /\ rob' = Append(rob, e) /\ e.pc = Head(fetchQ).pc /\ e.dst = d
           /\ e.srcs = Sources(Incoming)
           /\ WritesRd(Incoming) => e.prev = rat[Incoming.rd]
           /\ IsBranch(Incoming) => e.checkpoint = rat
           /\ e.done <=> IsHalt(Incoming) \/ Incoming.op = "FENCE"
           /\ free' = IF d = NoReg THEN free ELSE Front(free)
           /\ physReady' = IF d = NoReg THEN physReady ELSE [physReady EXCEPT ![d] = FALSE]
           /\ rat' = IF d = NoReg THEN rat ELSE [rat EXCEPT ![Incoming.rd] = d]
  BY RenameShape
<1>3. UNCHANGED <<setup, head, pendingFree>> /\ Incoming \in Instr
  BY <1>2, IncomingFacts DEF Rename
<1>4. PICK p : p = Len(rob) + 1
  OBVIOUS
<1>5. /\ Len(rob') = p /\ rob'[p] = e
      /\ \A k \in 1 .. Len(rob) : rob'[k] = rob[k]
      /\ Live' = Live \cup {p} /\ p \notin Live
      /\ \A k \in Live : k \in 1 .. Len(rob) /\ k < p
      /\ \A k \in Live : InstrOf(k)' = InstrOf(k)
      /\ InstrOf(p)' = InstrAt(e.pc)
  BY <1>2, <1>3, <1>4, GrownBuffer
<1>6. InstrOf(p)' = Incoming /\ \A k \in Live : rob'[k] = rob[k]
  BY <1>2, <1>5 DEF Incoming
<1>7. /\ rat \in [Reg -> Phys] /\ rat' \in [Reg -> Phys] /\ Incoming.rd \in Reg
      /\ physReady \in [Phys -> BOOLEAN]
  BY <1>2, <1>3, ReadsType DEF Inv, FileOK
<1>8. p \in Nat /\ head \in Nat /\ head < p /\ Len(rob) \in Nat
  BY <1>4, EntryFacts DEF Inv
<1>9. PICK n : n = [m EXCEPT ![p + 1] = rat']
  OBVIOUS
<1>10. n \in Tables /\ n[p + 1] = rat' /\ n[p] = rat /\ n[head + 1] = c
       /\ \A k \in Live : n[k] = m[k] /\ n[k + 1] = m[k + 1]
  <2>1. p + 1 \in Nat /\ p # p + 1 /\ head + 1 # p + 1 /\ head + 1 \in Nat
    BY <1>8
  <2>2. \A k \in Live : k \in Nat /\ k + 1 \in Nat /\ k # p + 1 /\ k + 1 # p + 1
    BY <1>5, <1>8
  <2>3. m[p] = rat
    BY <1>1, <1>4 DEF Mapped
  <2>4. n \in Tables
    BY <1>7, <1>9, <2>1 DEF Tables
  <2>5. \A k \in Nat : n[k] = IF k = p + 1 THEN rat' ELSE m[k]
    BY <1>9 DEF Tables
  <2> QED BY <1>1, <1>8, <2>1, <2>2, <2>3, <2>4, <2>5
<1>11. Mapped(n)'
  <2>1. \A k \in Live : Renamed(InstrOf(k)', rob'[k], n[k], n[k + 1])
    BY <1>1, <1>5, <1>6, <1>10 DEF Mapped
  <2>2. \A j \in 1 .. Len(e.srcs) : e.srcs[j] = n[p][Reads(Incoming)[j]]
    BY <1>2, <1>3, <1>7, <1>10, SourcesType
  <2>3. Renamed(Incoming, e, n[p], n[p + 1])
    BY <1>2, <1>10, <2>2 DEF Renamed
  <2>4. n[Len(rob') + 1] = rat'
    BY <1>5, <1>10
  <2>5. \A k \in Live' : Renamed(InstrOf(k)', rob'[k], n[k], n[k + 1])
    BY <1>5, <1>6, <2>1, <2>3
  <2> QED BY <2>4, <2>5 DEF Mapped
<1>12. \A k \in Owners : k \in Live /\ rob[k].dst \in Phys /\ rob[k].dst # NoReg
  BY OwnerFacts DEF Owners
<1>13. CASE d = NoReg
  <2>1. UNCHANGED <<free, physReady>> /\ rob'[p].dst = NoReg
    BY <1>2, <1>5, <1>13
  <2>2. Owners' = Owners
    BY <1>5, <1>6, <2>1 DEF Owners
  <2>3. Held' = Held /\ \A k \in Owners : rob'[k] = rob[k]
    BY <1>6, <1>12, <2>2 DEF Held
  <2>4. Parted(c)' /\ Delivered(c)'
    BY <1>1, <1>3, <2>1, <2>2, <2>3 DEF Parted, Delivered
  <2> QED BY <1>1, <1>3, <1>10, <1>11, <2>4 DEF Registers
<1>14. CASE d # NoReg
  <2>1. d \in Phys /\ rob'[p].dst = d /\ ~rob'[p].done
    BY <1>2, <1>5, <1>14 DEF WritesRd, Micro!Writes, IsHalt
  <2>2. /\ free' = Front(free) /\ physReady' = [physReady EXCEPT ![d] = FALSE]
        /\ d = Last(free) /\ free # <<>>
    BY <1>2, <1>14
  <2>3. d \in Range(free) /\ Range(free') = Range(free) \ {d} /\ Distinct(free')
    <3>1. free \in Seq(Phys) /\ Distinct(free)
      BY <1>1 DEF Parted, Inv, ListsOK
    <3> QED BY <2>2, <3>1, FrontFacts
  <2>4. Owners' = Owners \cup {p} /\ p \notin Owners /\ \A k \in Owners : rob'[k] = rob[k]
    BY <1>5, <1>6, <1>12, <1>14, <2>1 DEF Owners
  <2>5. Held' = Held \cup {d}
    BY <2>1, <2>4 DEF Held
  <2>6. d \notin Held /\ d \notin Range(pendingFree) /\ \A r \in Reg : c[r] # d
    BY <1>1, <2>3 DEF Parted
  <2>7. \A k \in Owners : rob[k].dst # d
    BY <2>6 DEF Held
  <2>8. Parted(c)'
    <3>1. Distinct(free') /\ Distinct(pendingFree') /\ pendingFree' = pendingFree
      BY <1>1, <1>3, <2>3 DEF Parted
    <3>2. \A k, q \in Owners' : rob'[k].dst = rob'[q].dst => k = q
      BY <1>1, <2>1, <2>4, <2>7 DEF Parted
    <3>3. Range(free') \cap Range(pendingFree) = {}
      BY <1>1, <2>3 DEF Parted
    <3>4. \A r \in Reg : c[r] \notin Range(free') \cup Range(pendingFree) \cup Held'
      BY <1>1, <2>3, <2>5, <2>6 DEF Parted
    <3>5. Held' \cap (Range(free') \cup Range(pendingFree)) = {}
      BY <1>1, <2>3, <2>5, <2>6 DEF Parted
    <3>6. \A x \in Phys : x \in Range(free') \cup Range(pendingFree) \cup Held'
                             \/ \E r \in Reg : x = c[r]
      BY <1>1, <2>3, <2>5 DEF Parted
    <3>7. \A r, q \in Reg : c[r] = c[q] => r = q
      BY <1>1 DEF Parted
    <3> HIDE DEF Range
    <3> QED BY <3>1, <3>2, <3>3, <3>4, <3>5, <3>6, <3>7 DEF Parted
  <2>9. Delivered(c)'
    <3>1. \A x \in Phys : x # d => physReady'[x] = physReady[x]
      BY <1>7, <2>2
    <3>2. \A r \in Reg : physReady'[c[r]]
      BY <1>1, <2>6, <3>1 DEF Delivered
    <3>3. \A k \in Owners : rob'[k].done => physReady'[rob'[k].dst]
      BY <1>1, <1>12, <2>4, <2>7, <3>1 DEF Delivered
    <3> QED BY <2>1, <2>4, <3>2, <3>3 DEF Delivered
  <2> QED BY <1>1, <1>3, <1>10, <1>11, <2>8, <2>9 DEF Registers
<1> QED BY <1>13, <1>14

LEMMA AppendFacts ==
  ASSUME NEW T, NEW q \in Seq(T), NEW x \in T, Distinct(q), x \notin Range(q)
  PROVE  Range(Append(q, x)) = Range(q) \cup {x} /\ Distinct(Append(q, x))
<1>1. PICK n \in Nat : n = Len(q)
  OBVIOUS
<1>2. PICK a : a = Append(q, x)
  OBVIOUS
<1>3. /\ a \in Seq(T) /\ Len(a) = n + 1 /\ a[n + 1] = x
      /\ \A k \in 1 .. n : a[k] = q[k] /\ k \in 1 .. n + 1
  BY <1>1, <1>2, AppendProperties
<1>4. Range(a) = {a[k] : k \in 1 .. n + 1} /\ Range(q) = {q[k] : k \in 1 .. n}
  BY <1>1, <1>3, RangeIs
<1>5. n + 1 \in 1 .. n + 1 /\ \A k \in 1 .. n + 1 : k \in 1 .. n \/ k = n + 1
  OBVIOUS
<1>6. Range(a) = Range(q) \cup {x}
  BY <1>3, <1>4, <1>5
<1>7. \A k \in 1 .. n : q[k] # x
  BY <1>4
<1>8. Distinct(a)
  BY <1>1, <1>3, <1>5, <1>7 DEF Distinct
<1> QED BY <1>2, <1>6, <1>8

\* The oldest entry's result becomes the committed register; the one it replaces waits to
\* be reclaimed.
LEMMA RetireRegisters ==
  ASSUME Inv, Registers, Retire
  PROVE  Registers'
<1>1. PICK m \in Tables, c \in [Reg -> Phys] :
         c = m[head + 1] /\ Mapped(m) /\ Parted(c) /\ Delivered(c)
  BY DEF Registers
<1>2. PICK p : p = head + 1
  OBVIOUS
<1>3. PICK i : i = InstrOf(p)
  OBVIOUS
<1>4. PICK e : e = rob[p]
  OBVIOUS
<1>5. /\ head' = p /\ UNCHANGED <<setup, rob, rat, free, physReady>> /\ CanCommit
      /\ pendingFree' = IF WritesRd(i) THEN Append(pendingFree, e.prev) ELSE pendingFree
  BY <1>2, <1>3, <1>4, OldestFacts DEF Retire, Committed
<1>6. /\ head \in Nat /\ Len(rob) \in Nat /\ p \in 1 .. Len(rob) /\ p \in Live /\ p \in Nat
      /\ e \in Entry /\ Fits(e) /\ e.done /\ i \in Instr
  BY <1>2, <1>3, <1>4, <1>5, OldestFacts
<1>7. Live' = Live \ {p} /\ \A k : InstrOf(k)' = InstrOf(k)
  BY <1>2, <1>5, <1>6, SoundKept DEF Live, InstrOf
<1>8. PICK d : d = m[p + 1]
  OBVIOUS
<1>9. d \in [Reg -> Phys] /\ d = m[head' + 1] /\ Renamed(i, e, c, d)
  <2>1. p + 1 \in Nat
    BY <1>6
  <2>2. m[p + 1] \in [Reg -> Phys]
    BY <2>1 DEF Tables
  <2> QED BY <1>1, <1>2, <1>3, <1>4, <1>5, <1>6, <1>8, <2>2 DEF Mapped
<1>10. Mapped(m)'
  BY <1>1, <1>5, <1>7 DEF Mapped
<1>11. Owners' = Owners \ {p} /\ \A k \in Owners : k \in Live /\ rob[k].dst \in Phys
  BY <1>5, <1>7, OwnerFacts DEF Owners
<1>12. CASE ~WritesRd(i)
  <2>1. d = c /\ pendingFree' = pendingFree
    BY <1>5, <1>9, <1>12 DEF Renamed
  <2>2. p \notin Owners
    BY <1>3, <1>12, OwnerFacts
  <2>3. Owners' = Owners /\ Held' = Held
    BY <1>5, <1>11, <2>2 DEF Held
  <2>4. Parted(d)' /\ Delivered(d)'
    BY <1>1, <1>5, <2>1, <2>3 DEF Parted, Delivered
  <2> QED BY <1>9, <1>10, <2>4 DEF Registers
<1>13. CASE WritesRd(i)
  <2>1. PICK r : r = i.rd
    OBVIOUS
  <2>2. PICK x : x = e.dst
    OBVIOUS
  <2>3. PICK y : y = c[r]
    OBVIOUS
  <2>4. /\ r \in Reg /\ p \in Owners /\ x \in Phys /\ y \in Phys /\ x \in Held
        /\ e.prev = y /\ d = [c EXCEPT ![r] = x]
        /\ pendingFree' = Append(pendingFree, y)
    <3>1. r \in Reg
      BY <1>6, <2>1, ReadsType
    <3>2. p \in Owners /\ x \in Phys /\ x \in Held
      BY <1>3, <1>4, <1>6, <1>13, <2>2, OwnerFacts
    <3>3. e.prev = y /\ d = [c EXCEPT ![r] = x]
      BY <1>9, <1>13, <2>1, <2>2, <2>3 DEF Renamed
    <3>4. y \in Phys
      BY <1>1, <2>3, <3>1
    <3> QED BY <1>5, <1>13, <3>1, <3>2, <3>3, <3>4
  <2>5. \A k \in Owners : rob[k].dst = x => k = p
    BY <1>1, <1>4, <2>2, <2>4 DEF Parted
  <2>6. Held' = Held \ {x}
    <3>1. \A k \in Owners' : k \in Owners /\ k # p /\ rob[k].dst # x
      BY <1>11, <2>5
    <3>2. \A k \in Owners : k # p => k \in Owners'
      BY <1>11
    <3>3. rob[p].dst = x
      BY <1>4, <2>2
    <3> QED BY <1>5, <3>1, <3>2, <3>3 DEF Held
  <2>7. /\ y \notin Range(free) /\ y \notin Range(pendingFree) /\ y \notin Held
        /\ x \notin Range(free) /\ x \notin Range(pendingFree) /\ \A q \in Reg : c[q] # x
        /\ \A q \in Reg : q # r => c[q] # y
    BY <1>1, <2>3, <2>4 DEF Parted
  <2>8. Range(pendingFree') = Range(pendingFree) \cup {y} /\ Distinct(pendingFree')
    <3>1. pendingFree \in Seq(Phys) /\ Distinct(pendingFree)
      BY <1>1 DEF Parted, Inv, ListsOK
    <3> QED BY <2>4, <2>7, <3>1, AppendFacts
  <2>9. \A q \in Reg : d[q] = IF q = r THEN x ELSE c[q]
    BY <1>1, <2>4
  <2>10. Parted(d)'
    <3>1. Distinct(free') /\ free' = free
      BY <1>1, <1>5 DEF Parted
    <3>2. \A k, q \in Owners' : rob'[k].dst = rob'[q].dst => k = q
      BY <1>1, <1>5, <1>11 DEF Parted
    <3>3. Range(free) \cap Range(pendingFree') = {}
      BY <1>1, <2>7, <2>8 DEF Parted
    <3>4. \A q \in Reg : d[q] \notin Range(free) \cup Range(pendingFree') \cup Held'
      BY <1>1, <2>4, <2>6, <2>7, <2>8, <2>9 DEF Parted
    <3>5. Held' \cap (Range(free) \cup Range(pendingFree')) = {}
      BY <1>1, <2>6, <2>7, <2>8 DEF Parted
    <3>6. ASSUME NEW z \in Phys
          PROVE  z \in Range(free) \cup Range(pendingFree') \cup Held' \/ \E q \in Reg : z = d[q]
      <4>1. z \in Range(free) \cup Range(pendingFree) \cup Held \/ \E q \in Reg : z = c[q]
        BY <1>1 DEF Parted
      <4>2. ASSUME NEW q \in Reg, z = c[q] PROVE z = y \/ z = d[q]
        BY <2>3, <2>9, <4>2
      <4>3. z = x => z = d[r]
        BY <2>4, <2>9
      <4> HIDE DEF Range
      <4> QED BY <2>4, <2>6, <2>8, <4>1, <4>2, <4>3
    <3>7. \A q, s \in Reg : d[q] = d[s] => q = s
      BY <1>1, <2>7, <2>9 DEF Parted
    <3> HIDE DEF Range
    <3> QED BY <2>8, <3>1, <3>2, <3>3, <3>4, <3>5, <3>6, <3>7 DEF Parted
  <2>11. Delivered(d)'
    <3>1. physReady[x]
      BY <1>1, <1>4, <1>6, <2>2, <2>4 DEF Delivered
    <3>2. \A q \in Reg : physReady[d[q]]
      BY <1>1, <2>9, <3>1 DEF Delivered
    <3> QED BY <1>1, <1>5, <1>11, <3>2 DEF Delivered
  <2> QED BY <1>9, <1>10, <2>10, <2>11 DEF Registers
<1> QED BY <1>12, <1>13

\* The map saved with the branch is the committed one: what it leaves to the free list is
\* neither committed nor waiting to be reclaimed.
LEMMA SquashRegisters ==
  ASSUME Inv, Registers, Squash
  PROVE  Registers'
<1>1. PICK m \in Tables, c \in [Reg -> Phys] :
         c = m[head + 1] /\ Mapped(m) /\ Parted(c) /\ Delivered(c)
  BY DEF Registers
<1>2. PICK p \in 1 .. Len(rob) :
           /\ p = head + 1 /\ p \in Live /\ head' = p /\ Len(rob') = p /\ Live' = {}
           /\ IsBranch(InstrOf(p)) /\ rat' = rob[p].checkpoint
           /\ free' = RebuiltFree(p, rob[p].checkpoint)
           /\ physReady' = RebuiltReady(p, rob[p].checkpoint)
           /\ UNCHANGED <<setup, pendingFree>>
  BY SquashShape
<1>3. Renamed(InstrOf(p), rob[p], c, m[p + 1])
  BY <1>1, <1>2 DEF Mapped
<1>4. /\ rob[p].checkpoint = c /\ m[p + 1] = c
      /\ \A k \in 1 .. Len(rob[p].srcs) : rob[p].srcs[k] = c[Reads(InstrOf(p))[k]]
  BY <1>2, <1>3, BranchWritesNothing DEF Renamed
<1>5. rat' = c /\ free' = RebuiltFree(p, c) /\ physReady' = RebuiltReady(p, c)
  BY <1>2, <1>4
<1>6. /\ rob[p].dst = NoReg /\ Len(rob[p].srcs) = Len(Reads(InstrOf(p)))
      /\ rob[p].srcs \in Seq(Phys) /\ InstrOf(p) \in Instr /\ head \in Nat /\ p \in Nat
  <2>1. rob[p] \in Entry /\ Fits(rob[p]) /\ InstrOf(p) \in Instr /\ head \in Nat
    BY <1>2, EntryFacts DEF Inv
  <2> QED BY <1>2, <2>1, BranchWritesNothing DEF Fits, Entry, InstrOf
<1>7. \A k \in head + 1 .. p : k = p
  BY <1>2, <1>6
<1>8. p \in head + 1 .. p
  BY <1>2, <1>6
<1>9. \A z \in Range(rob[p].srcs) : \E r \in Reg : z = c[r]
  <2>1. Reads(InstrOf(p)) \in Seq(Reg)
    BY <1>6, ReadsType
  <2>2. \A k \in 1 .. Len(rob[p].srcs) : Reads(InstrOf(p))[k] \in Reg
    BY <1>6, <2>1, ElementOfSeq
  <2>3. Range(rob[p].srcs) = {rob[p].srcs[k] : k \in 1 .. Len(rob[p].srcs)}
    BY <1>6, RangeIs
  <2> QED BY <1>4, <2>2, <2>3
<1>10. Range(c) = {c[r] : r \in Reg}
  BY <1>1 DEF Range
<1>11. \A z \in Phys : z \in InUse(p, c) <=> z \in Range(pendingFree) \/ \E r \in Reg : z = c[r]
  <2>1. ASSUME NEW z \in Phys, z \in InUse(p, c)
        PROVE  z \in Range(pendingFree) \/ \E r \in Reg : z = c[r]
    <3>1. z # NoReg
      BY PhysFacts
    <3> QED BY <1>6, <1>7, <1>9, <1>10, <2>1, <3>1 DEF InUse
  <2>2. \A z \in Phys : z \in Range(pendingFree) \/ (\E r \in Reg : z = c[r]) => z \in InUse(p, c)
    BY <1>10 DEF InUse
  <2> QED BY <2>1, <2>2
<1>12. Distinct(free') /\ Range(free') = Phys \ InUse(p, c)
  BY <1>5, RebuiltFreeIs
<1>13. Owners' = {} /\ Held' = {}
  BY <1>2 DEF Owners, Held
<1>14. Parted(c)'
  <2>1. Range(free') \cap Range(pendingFree) = {}
    BY <1>11, <1>12
  <2>2. \A r \in Reg : c[r] \notin Range(free') \cup Range(pendingFree)
    BY <1>1, <1>11, <1>12 DEF Parted
  <2>3. \A z \in Phys : z \in Range(free') \cup Range(pendingFree) \/ \E r \in Reg : z = c[r]
    BY <1>11, <1>12
  <2>4. Distinct(pendingFree) /\ \A r, q \in Reg : c[r] = c[q] => r = q
    BY <1>1 DEF Parted
  <2> HIDE DEF Range
  <2> QED BY <1>2, <1>12, <1>13, <2>1, <2>2, <2>3, <2>4 DEF Parted
<1>15. Delivered(c)'
  <2>1. ASSUME NEW r \in Reg PROVE physReady'[c[r]]
    <3>1. PICK z \in Phys : z = c[r]
      BY <1>1
    <3>2. z \notin Range(RebuiltFree(p, c))
      BY <1>5, <1>11, <1>12, <3>1
    <3>3. {k \in head + 1 .. p : rob[k].dst = z} = {}
      BY <1>6, <1>7, PhysFacts
    <3>4. RebuiltReady(p, c)[z]
      BY <3>2, <3>3 DEF RebuiltReady
    <3> QED BY <1>5, <3>1, <3>4
  <2> QED BY <1>13, <2>1 DEF Delivered
<1>16. Mapped(m)'
  BY <1>2, <1>4, <1>5 DEF Mapped
<1> QED BY <1>1, <1>2, <1>4, <1>14, <1>15, <1>16 DEF Registers

\* A list followed by one that shares nothing with it.
LEMMA ConcatFacts ==
  ASSUME NEW T, NEW q \in Seq(T), NEW r \in Seq(T), Distinct(q), Distinct(r),
         Range(q) \cap Range(r) = {}
  PROVE  Range(q \o r) = Range(q) \cup Range(r) /\ Distinct(q \o r)
<1>1. PICK a : a = q \o r
  OBVIOUS
<1>2. PICK n \in Nat : n = Len(q)
  OBVIOUS
<1>3. PICK l \in Nat : l = Len(r)
  OBVIOUS
<1>4. /\ a \in Seq(T) /\ Len(a) = n + l
      /\ \A k \in 1 .. n + l : a[k] = IF k <= n THEN q[k] ELSE r[k - n]
  BY <1>1, <1>2, <1>3, ConcatProperties
<1>5. /\ Range(a) = {a[k] : k \in 1 .. n + l} /\ Range(q) = {q[k] : k \in 1 .. n}
      /\ Range(r) = {r[k] : k \in 1 .. l}
  BY <1>2, <1>3, <1>4, RangeIs
<1>6. /\ \A k \in 1 .. n : k \in 1 .. n + l /\ k <= n
      /\ \A k \in 1 .. l : k + n \in 1 .. n + l /\ ~(k + n <= n) /\ (k + n) - n = k
      /\ \A k \in 1 .. n + l : (k <= n /\ k \in 1 .. n) \/ (~(k <= n) /\ k - n \in 1 .. l)
  OBVIOUS
<1>7. Range(a) = Range(q) \cup Range(r)
  <2>1. ASSUME NEW x \in Range(a) PROVE x \in Range(q) \cup Range(r)
    <3>1. PICK k \in 1 .. n + l : x = a[k]
      BY <1>5
    <3>2. CASE k <= n
      <4>1. k \in 1 .. n /\ x = q[k]
        BY <1>4, <1>6, <3>1, <3>2
      <4> QED BY <1>5, <4>1
    <3>3. CASE ~(k <= n)
      <4>1. k - n \in 1 .. l /\ x = r[k - n]
        BY <1>4, <1>6, <3>1, <3>3
      <4> QED BY <1>5, <4>1
    <3> QED BY <3>2, <3>3
  <2>2. ASSUME NEW x \in Range(q) PROVE x \in Range(a)
    BY <1>4, <1>5, <1>6
  <2>3. ASSUME NEW x \in Range(r) PROVE x \in Range(a)
    <3>1. PICK k \in 1 .. l : x = r[k]
      BY <1>5
    <3>2. PICK j \in 1 .. n + l : j = k + n /\ ~(j <= n) /\ j - n = k
      BY <1>6
    <3>3. a[j] = r[k]
      BY <1>4, <3>2
    <3> QED BY <1>5, <3>1, <3>3
  <2> HIDE DEF Range
  <2> QED BY <2>1, <2>2, <2>3
<1>8. ASSUME NEW j \in 1 .. n + l, NEW k \in 1 .. n + l, a[j] = a[k] PROVE j = k
  <2>1. CASE j <= n /\ k <= n
    BY <1>2, <1>4, <1>6, <1>8, <2>1 DEF Distinct
  <2>2. CASE ~(j <= n) /\ ~(k <= n)
    <3>1. j - n = k - n
      BY <1>3, <1>4, <1>6, <1>8, <2>2 DEF Distinct
    <3> QED BY <3>1
  <2>3. \A x \in 1 .. n, y \in 1 .. l : q[x] # r[y]
    BY <1>5
  <2>4. ~(j <= n /\ ~(k <= n))
    BY <1>4, <1>6, <1>8, <2>3
  <2>5. ~(k <= n /\ ~(j <= n))
    BY <1>4, <1>6, <1>8, <2>3
  <2> QED BY <2>1, <2>2, <2>4, <2>5
<1>9. Distinct(a)
  BY <1>4, <1>8 DEF Distinct
<1> QED BY <1>1, <1>7, <1>9

\* Reclaiming moves the registers nobody needs from one list to the other.
LEMMA ReclaimedFacts ==
  ASSUME free \in Seq(Phys), pendingFree \in Seq(Phys), Distinct(free), Distinct(pendingFree),
         Range(free) \cap Range(pendingFree) = {}, NEW needed
  PROVE  /\ Distinct(Reclaimed(needed)) /\ Distinct(Kept(pendingFree, needed))
         /\ Range(Reclaimed(needed)) = Range(free) \cup (Range(pendingFree) \ needed)
         /\ Range(Kept(pendingFree, needed)) = Range(pendingFree) \cap needed
<1>1. PICK I : I = {k \in DOMAIN pendingFree :
                      /\ pendingFree[k] \notin needed \cup Range(free)
                      /\ \A j \in 1 .. k - 1 : pendingFree[j] # pendingFree[k]}
  OBVIOUS
<1>2. /\ I \in SUBSET (1 .. Len(pendingFree)) /\ Reclaimed(needed) = free \o At(pendingFree, I)
  BY <1>1 DEF Reclaimed
<1>3. Range(pendingFree) = {pendingFree[k] : k \in 1 .. Len(pendingFree)}
  BY RangeIs
<1>4. PICK n \in Nat : n = Len(pendingFree)
  OBVIOUS
<1>5. \A k \in 1 .. n : \A j \in 1 .. k - 1 : j \in 1 .. n /\ j # k
  OBVIOUS
<1>6. \A k \in 1 .. n : \A j \in 1 .. k - 1 : pendingFree[j] # pendingFree[k]
  BY <1>4, <1>5 DEF Distinct
<1>7. \A k \in 1 .. n : pendingFree[k] \notin Range(free)
  BY <1>3, <1>4
<1>8. \A k \in 1 .. n : k \in I <=> pendingFree[k] \notin needed
  BY <1>1, <1>4, <1>6, <1>7
<1>9. PICK q : q = At(pendingFree, I)
  OBVIOUS
<1>10. q \in Seq(Phys) /\ Range(q) = {pendingFree[k] : k \in I} /\ Distinct(q)
  BY <1>2, <1>9, AtFacts, AtKeepsDistinct
<1>11. Range(q) = Range(pendingFree) \ needed
  <2>1. ASSUME NEW x \in Range(q) PROVE x \in Range(pendingFree) \ needed
    <3>1. PICK k \in I : x = pendingFree[k]
      BY <1>10
    <3>2. k \in 1 .. n
      BY <1>2, <1>4
    <3> QED BY <1>3, <1>4, <1>8, <3>1, <3>2
  <2>2. ASSUME NEW x \in Range(pendingFree), x \notin needed PROVE x \in Range(q)
    <3>1. PICK k \in 1 .. n : x = pendingFree[k]
      BY <1>3, <1>4
    <3> QED BY <1>8, <1>10, <2>2, <3>1
  <2> HIDE DEF Range
  <2> QED BY <2>1, <2>2
<1>12. Range(free) \cap Range(q) = {}
  BY <1>11
<1>13. Range(free \o q) = Range(free) \cup Range(q) /\ Distinct(free \o q)
  BY <1>10, <1>12, ConcatFacts
<1>14. Range(Kept(pendingFree, needed)) = Range(pendingFree) \cap needed
       /\ Distinct(Kept(pendingFree, needed))
  BY KeptFacts
<1> QED BY <1>2, <1>9, <1>11, <1>13, <1>14

\* Compaction renumbers the entries, reclaiming moves registers between the lists.
LEMMA EndCommitRegisters ==
  ASSUME Inv, Inv', Registers, EndCommit
  PROVE  Registers'
<1>1. PICK m \in Tables, c \in [Reg -> Phys] :
         c = m[head + 1] /\ Mapped(m) /\ Parted(c) /\ Delivered(c)
  BY DEF Registers
<1>2. PICK n \in Nat : Shifted(n)
  BY EndCommitShape
<1>3. UNCHANGED <<setup, rat, physReady>>
  BY EndCommitShape
<1>4. PICK needed : free' = Reclaimed(needed) /\ pendingFree' = Kept(pendingFree, needed)
  BY EndCommitShape
<1>5. free \in Seq(Phys) /\ pendingFree \in Seq(Phys)
  BY DEF Inv, ListsOK
<1>6. /\ Distinct(free') /\ Distinct(pendingFree')
      /\ Range(free') = Range(free) \cup (Range(pendingFree) \ needed)
      /\ Range(pendingFree') = Range(pendingFree) \cap needed
  BY <1>1, <1>4, <1>5, ReclaimedFacts DEF Parted
<1>7. PICK t : t = [k \in Nat |-> m[k + n]]
  OBVIOUS
<1>8. t \in Tables /\ \A k \in Nat : t[k] = m[k + n]
  <2>1. \A k \in Nat : k + n \in Nat
    OBVIOUS
  <2> QED BY <1>7, <2>1 DEF Tables
<1>9. /\ head' \in Nat /\ head' = head - n /\ Len(rob') = Len(rob) - n /\ Len(rob') \in Nat
      /\ head \in Nat /\ Len(rob) \in Nat
      /\ \A k \in Live' : /\ k \in Nat /\ k + n \in Live
                          /\ rob'[k] = rob[k + n] /\ InstrOf(k)' = InstrOf(k + n)
      /\ \A q \in Live : q - n \in Live' /\ (q - n) + n = q
  BY <1>2, EntryFacts DEF Shifted, Inv
<1>10. t[head' + 1] = c /\ t[Len(rob') + 1] = rat'
  <2>1. head' + 1 \in Nat /\ (head' + 1) + n = head + 1
    BY <1>9
  <2>2. Len(rob') + 1 \in Nat /\ (Len(rob') + 1) + n = Len(rob) + 1
    BY <1>9
  <2> QED BY <1>1, <1>3, <1>8, <2>1, <2>2 DEF Mapped
<1>11. Mapped(t)'
  <2>1. ASSUME NEW k \in Live' PROVE Renamed(InstrOf(k)', rob'[k], t[k], t[k + 1])
    <3>1. k \in Nat /\ k + n \in Live /\ rob'[k] = rob[k + n] /\ InstrOf(k)' = InstrOf(k + n)
      BY <1>9
    <3>2. k + 1 \in Nat /\ (k + 1) + n = (k + n) + 1
      BY <3>1
    <3>3. t[k] = m[k + n] /\ t[k + 1] = m[(k + n) + 1]
      BY <1>8, <3>1, <3>2
    <3>4. Renamed(InstrOf(k + n), rob[k + n], m[k + n], m[(k + n) + 1])
      BY <1>1, <3>1 DEF Mapped
    <3> QED BY <3>1, <3>3, <3>4
  <2> QED BY <1>10, <2>1 DEF Mapped
<1>12. /\ \A k \in Owners' : k \in Nat /\ k + n \in Owners /\ rob'[k] = rob[k + n]
       /\ \A q \in Owners : q - n \in Owners' /\ rob'[q - n] = rob[q]
  BY <1>9 DEF Owners
<1>13. Held' = Held
  <2>1. \A x \in Held' : x \in Held
    BY <1>12 DEF Held
  <2>2. \A x \in Held : x \in Held'
    BY <1>12 DEF Held
  <2> QED BY <2>1, <2>2
<1>14. Parted(c)'
  <2>1. \A k, q \in Owners' : rob'[k].dst = rob'[q].dst => k = q
    <3>1. ASSUME NEW k \in Owners', NEW q \in Owners', rob'[k].dst = rob'[q].dst PROVE k = q
      <4>1. k + n = q + n
        BY <1>1, <1>12, <3>1 DEF Parted
      <4>2. k \in Nat /\ q \in Nat
        BY <1>12
      <4> QED BY <4>1, <4>2
    <3> QED BY <3>1
  <2>2. Range(free') \cap Range(pendingFree') = {}
    BY <1>1, <1>6 DEF Parted
  <2>3. Range(free') \cup Range(pendingFree') = Range(free) \cup Range(pendingFree)
    BY <1>6
  <2>4. \A r \in Reg : c[r] \notin Range(free') \cup Range(pendingFree') \cup Held'
    BY <1>1, <1>13, <2>3 DEF Parted
  <2>5. Held' \cap (Range(free') \cup Range(pendingFree')) = {}
    BY <1>1, <1>13, <2>3 DEF Parted
  <2>6. \A x \in Phys : x \in Range(free') \cup Range(pendingFree') \cup Held'
                          \/ \E r \in Reg : x = c[r]
    BY <1>1, <1>13, <2>3 DEF Parted
  <2>7. \A r, q \in Reg : c[r] = c[q] => r = q
    BY <1>1 DEF Parted
  <2> HIDE DEF Range
  <2> QED BY <1>6, <2>1, <2>2, <2>4, <2>5, <2>6, <2>7 DEF Parted
<1>15. Delivered(c)'
  BY <1>1, <1>3, <1>12 DEF Delivered
<1> QED BY <1>1, <1>8, <1>10, <1>11, <1>14, <1>15 DEF Registers

LEMMA InitRegisters ==
  ASSUME Init
  PROVE  Orderly
<1>1. /\ setup \in Setups /\ rat = [r \in Reg |-> r] /\ physReady = [p \in Phys |-> TRUE]
      /\ free = [k \in 1 .. Cfg.phys - NumRegs |-> Cfg.phys - k]
      /\ pendingFree = <<>> /\ rob = <<>> /\ head = 0 /\ fetchQ = <<>> /\ control \in setup.plan
  BY DEF Init
<1>2. Predicted
  <2>1. Len(fetchQ) = 0 /\ Len(rob) = 0
    BY <1>1
  <2> QED BY <1>1, <2>1 DEF Predicted, Speculating
<1>3. PICK n \in Nat : n = NumRegs
  BY Sizes
<1>4. PICK l \in Nat : l = Cfg.phys
  BY CfgAssumption
<1>5. n < l /\ Reg = 0 .. n - 1 /\ Phys = 0 .. l - 1 /\ free = [k \in 1 .. l - n |-> l - k]
  BY <1>1, <1>3, <1>4, CfgAssumption, Sizes DEF Phys
<1>6. \A r \in Reg : r \in Phys /\ rat[r] = r
  BY <1>1, <1>5
<1>7. rat \in [Reg -> Phys]
  BY <1>1, <1>6
<1>8. PICK m : m = [k \in Nat |-> rat]
  OBVIOUS
<1>9. m \in Tables /\ m[head + 1] = rat /\ m[Len(rob) + 1] = rat
  BY <1>1, <1>7, <1>8 DEF Tables
<1>10. Live = {} /\ Owners = {} /\ Held = {}
  BY <1>1 DEF Live, Owners, Held
<1>11. Mapped(m)
  BY <1>9, <1>10 DEF Mapped
<1>12. free \in Seq(Phys) /\ Len(free) = l - n /\ Distinct(free) /\ DOMAIN free = 1 .. l - n
  <2>1. l - n \in Nat /\ \A k \in 1 .. l - n : l - k \in Phys
    BY <1>5
  <2>2. free \in Seq(Phys) /\ Len(free) = l - n
    BY <1>5, <2>1
  <2>3. \A j, k \in 1 .. l - n : l - j = l - k => j = k
    OBVIOUS
  <2> QED BY <1>5, <2>2, <2>3 DEF Distinct
<1>13. \A x \in Phys : x \in Range(free) <=> x >= n
  <2>1. Range(free) = {l - k : k \in 1 .. l - n}
    BY <1>5, <1>12 DEF Range
  <2>2. \A k \in 1 .. l - n : l - k >= n
    OBVIOUS
  <2>3. ASSUME NEW x \in Phys, x >= n PROVE \E k \in 1 .. l - n : x = l - k
    <3>1. x \in 0 .. l - 1 /\ l - x \in 1 .. l - n /\ x = l - (l - x)
      BY <1>5, <2>3
    <3> QED BY <3>1
  <2> QED BY <2>1, <2>2, <2>3
<1>14. Range(pendingFree) = {} /\ Distinct(pendingFree)
  BY <1>1 DEF Range, Distinct
<1>15. \A r \in Reg : rat[r] \notin Range(free)
  <2>1. \A r \in Reg : ~(r >= n)
    BY <1>5
  <2> QED BY <1>6, <1>13, <2>1
<1>16. \A x \in Phys : x \in Range(free) \/ \E r \in Reg : x = rat[r]
  <2>1. \A x \in Phys : x >= n \/ x \in Reg
    BY <1>5
  <2> QED BY <1>6, <1>13, <2>1
<1>17. Parted(rat)
  <2>1. Range(free) \cap Range(pendingFree) = {} /\ Held \cap (Range(free) \cup Range(pendingFree)) = {}
    BY <1>10, <1>14
  <2>2. \A r \in Reg : rat[r] \notin Range(free) \cup Range(pendingFree) \cup Held
    BY <1>10, <1>14, <1>15
  <2>3. \A r, q \in Reg : rat[r] = rat[q] => r = q
    BY <1>6
  <2> HIDE DEF Range
  <2> QED BY <1>10, <1>12, <1>14, <1>16, <2>1, <2>2, <2>3 DEF Parted
<1>18. Delivered(rat)
  BY <1>1, <1>6, <1>10 DEF Delivered
<1> QED BY <1>2, <1>7, <1>9, <1>11, <1>17, <1>18 DEF Orderly, Registers

\* Every step that is not a redirect keeps the roles of the registers.
LEMMA OrderlyKept ==
  ASSUME Inv, Inv', Orderly, [Next]_vars
  PROVE  Orderly'
<1>1. SUFFICES ASSUME TakenArePredicted(setup)' PROVE Predicted' /\ Registers'
  BY DEF Orderly
<1>2. setup' = setup
  BY ShrinkKinds, FetchStepKinds DEF Still, Starting, StartCycle
<1>3. Predicted /\ Registers /\ TakenArePredicted(setup)
  BY <1>1, <1>2 DEF Orderly, TakenArePredicted
<1>4. Predicted' /\ ~Redirect
  BY <1>3, PredictedKept
<1>5. Quiet \/ Rename \/ Retire \/ Squash \/ EndCommit
  BY <1>4, StepKinds
<1>6. Registers'
  BY <1>3, <1>5, QuietRegisters, RenameRegisters, RetireRegisters, SquashRegisters,
     EndCommitRegisters
<1> QED BY <1>4, <1>6

LEMMA OrderlyHolds == Spec => []Orderly
<1>1. Init => Orderly
  BY InitRegisters
<1>2. Inv /\ Inv' /\ Orderly /\ [Next]_vars => Orderly'
  BY OrderlyKept
<1> QED BY <1>1, <1>2, InvHolds, PTL DEF Spec

\* Only a redirect leaves a slot behind its entry.
LEMMA SquashLeaves ==
  ASSUME Inv, Unmarked, Squash
  PROVE  Unmarked'
<1>1. PICK I : I = {k \in DOMAIN executing : executing[k].pos = head + 1}
  OBVIOUS
<1>2. PICK y : y = executing'
  OBVIOUS
<1>3. executing \in Seq(Job) /\ y = At(executing, I)
  BY <1>1, <1>2 DEF Squash, Inv, ExecutingOK
<1>4. I \in SUBSET (1 .. Len(executing))
  BY <1>1, <1>3
<1>5. \E f : Selects(f, y, executing, I)
  BY <1>3, <1>4, AtFacts
<1>6. AllOwn(y)
  BY <1>4, <1>5 DEF Selects, Unmarked, AllOwn
<1> QED BY <1>2, <1>6 DEF Unmarked

LEMMA CompactionLeaves ==
  ASSUME Inv, Unmarked, EndCommit
  PROVE  Unmarked'
<1>1. CASE UNCHANGED executing
  BY <1>1 DEF Unmarked, AllOwn
<1>2. CASE executing' = [k \in DOMAIN executing |-> [executing[k] EXCEPT !.pos = @ - head]]
  <2>1. PICK y : y = [k \in DOMAIN executing |-> [executing[k] EXCEPT !.pos = @ - head]]
    OBVIOUS
  <2>2. executing \in Seq(Job) /\ \A k \in 1 .. Len(executing) : executing[k] \in Job
    BY ElementOfSeq DEF Inv, ExecutingOK
  <2>3. DOMAIN executing = 1 .. Len(executing) /\ Len(executing) \in Nat
    BY <2>2
  <2>4. Len(y) = Len(executing)
    BY <2>1, <2>3
  <2>5. \A k \in 1 .. Len(executing) : y[k].gone = executing[k].gone
    BY <2>1, <2>2, <2>3 DEF Job
  <2>6. AllOwn(y)
    BY <2>4, <2>5 DEF Unmarked, AllOwn
  <2> QED BY <1>2, <2>1, <2>6 DEF Unmarked
<1> QED BY <1>1, <1>2 DEF EndCommit

LEMMA PassLeaves ==
  ASSUME Inv, Unmarked, ExecStep, ~Redirect
  PROVE  Unmarked'
<1>1. CASE ExecDropped \/ Complete \/ ResolveBranch
  <2>1. AtExec /\ LeaveExec
    BY <1>1 DEF ExecDropped, Complete, ResolveBranch, Finishing, Ending
  <2>2. ASSUME NEW j \in 1 .. Len(executing') PROVE ~executing'[j].gone
    BY <2>1, LeftPlaces DEF Unmarked, AllOwn
  <2> QED BY <2>2 DEF Unmarked, AllOwn
<1>2. CASE Tick
  <2>1. /\ AtExec /\ executing' = [executing EXCEPT ![cursor + 1].left = @ - 1]
    BY <1>2 DEF Tick
  <2>2. executing \in Seq(Job) /\ cursor \in Nat /\ cursor < Len(executing)
    BY <2>1 DEF Inv, LoopOK, ExecutingOK, AtExec
  <2>3. cursor + 1 \in 1 .. Len(executing)
    BY <2>2
  <2>4. executing[cursor + 1] \in Job
    BY <2>2, <2>3, ElementOfSeq
  <2>5. PICK e : e = [executing[cursor + 1] EXCEPT !.left = @ - 1]
    OBVIOUS
  <2>6. e.gone = executing[cursor + 1].gone
    BY <2>4, <2>5 DEF Job
  <2>7. executing' = [executing EXCEPT ![cursor + 1] = e]
    BY <2>1, <2>3, <2>5
  <2>8. \A k \in 1 .. Len(executing) : executing'[k].gone = executing[k].gone
    BY <2>2, <2>3, <2>6, <2>7
  <2>9. Len(executing') = Len(executing)
    BY <2>2, <2>7
  <2> QED BY <2>8, <2>9 DEF Unmarked, AllOwn
<1>3. CASE Astray \/ EndExec
  BY <1>3 DEF Astray, EndExec, window, Unmarked, AllOwn
<1> QED BY <1>1, <1>2, <1>3 DEF ExecStep

LEMMA IssueLeaves ==
  ASSUME Inv, Unmarked, IssueStep
  PROVE  Unmarked'
<1>1. UNCHANGED executing \/ \E n \in Nat : Dispatch(Chosen, n)
  BY IssueStepForm DEF IssueForm, Sent, Settled
<1>2. ASSUME NEW n \in Nat, Dispatch(Chosen, n) PROVE Unmarked'
  <2>1. Chosen \in Int /\ executing \in Seq(Job)
    BY IssueStepForm, ChosenFacts DEF IssueForm, Inv, ExecutingOK
  <2>2. PICK e : e = [pos |-> Chosen, left |-> n, gone |-> FALSE]
    OBVIOUS
  <2>3. e \in Job /\ ~e.gone
    BY <2>1, <2>2 DEF Job
  <2>4. executing' = Append(executing, e)
    BY <1>2, <2>2 DEF Dispatch
  <2>5. /\ Len(executing') = Len(executing) + 1 /\ Len(executing) \in Nat
        /\ \A k \in 1 .. Len(executing) : executing'[k] = executing[k]
        /\ executing'[Len(executing) + 1] = e
    BY <2>1, <2>3, <2>4, AppendProperties
  <2> QED BY <2>3, <2>5 DEF Unmarked, AllOwn
<1> QED BY <1>1, <1>2 DEF Unmarked, AllOwn

LEMMA UnmarkedKept ==
  ASSUME Inv, Unmarked, [Next]_vars, ~Redirect
  PROVE  Unmarked'
<1>1. CASE UNCHANGED vars
  BY <1>1 DEF vars, window, Unmarked, AllOwn
<1>2. CASE CommitStore \/ CommitHalt \/ CommitOther
  BY <1>2 DEF CommitStore, CommitHalt, CommitOther, Unmarked, AllOwn
<1>3. CASE FetchStep
  BY <1>3, FetchStepKinds DEF Still, window, Unmarked, AllOwn
<1>4. CASE Starting
  BY <1>4 DEF Starting, StartCycle, window, Unmarked, AllOwn
<1>5. CASE Stop \/ EndIssue \/ Rename \/ EndRename \/ EndCycle \/ Deadlock
  BY <1>5 DEF Stop, EndIssue, Rename, EndRename, EndCycle, Deadlock, window, Unmarked, AllOwn
<1> QED BY <1>1, <1>2, <1>3, <1>4, <1>5, NextKinds, SquashLeaves, CompactionLeaves, PassLeaves,
           IssueLeaves DEF CommitStep, OtherStep

LEMMA UnmarkedHolds == Spec => [](TakenArePredicted(setup) => Unmarked)
<1>1. Init => (TakenArePredicted(setup) => Unmarked)
  <2>1. Init => Len(executing) = 0
    BY EmptySeq DEF Init
  <2> QED BY <2>1 DEF Unmarked, AllOwn
<1>2. ASSUME Inv, Orderly, TakenArePredicted(setup) => Unmarked, [Next]_vars
      PROVE  (TakenArePredicted(setup) => Unmarked)'
  <2>1. setup' = setup
    BY <1>2, ShrinkKinds, FetchStepKinds DEF Still, Starting, StartCycle
  <2>2. ASSUME TakenArePredicted(setup) PROVE Unmarked'
    BY <1>2, <2>2, NoRedirect, UnmarkedKept DEF Orderly
  <2> QED BY <2>1, <2>2 DEF TakenArePredicted
<1> QED BY <1>1, <1>2, InvHolds, OrderlyHolds, PTL DEF Spec

-----------------------------------------------------------------------------
(* What the roles of the registers imply.                                  *)

\* What a map holds is the committed register or the result of an older live writer.
Origin(m, p, r) ==
  m[p][r] = m[head + 1][r] \/ \E k \in Writers(r) : k < p /\ rob[k].dst = m[p][r]

LEMMA OriginHolds ==
  ASSUME Inv, NEW m \in Tables, Mapped(m)
  PROVE  \A p \in head + 1 .. Len(rob) + 1 : \A r \in Reg : Origin(m, p, r)
<1>1. PICK h \in Nat : h = head
  BY EntryFacts DEF Inv
<1>2. PICK l \in Nat : l = Len(rob)
  BY EntryFacts DEF Inv
<1>3. SUFFICES ASSUME NEW q \in h + 1 .. l + 1, ~(\A r \in Reg : Origin(m, q, r))
               PROVE  FALSE
  BY <1>1, <1>2
<1>4. PICK S : S = {p \in h + 1 .. l + 1 : ~(\A r \in Reg : Origin(m, p, r))}
  OBVIOUS
<1>5. S \in SUBSET Nat /\ S # {}
  BY <1>3, <1>4
<1>6. PICK p \in S : \A k \in S : p <= k
  BY <1>5, LeastNatural
<1>7. p \in h + 1 .. l + 1 /\ p \in Nat
  BY <1>4, <1>6
<1>8. PICK r \in Reg : ~Origin(m, p, r)
  BY <1>4, <1>6
<1>9. p # h + 1
  BY <1>1, <1>8 DEF Origin
<1>10. PICK k \in Nat : k = p - 1
  BY <1>7
<1>11. k \in h + 1 .. l /\ k \in h + 1 .. l + 1 /\ k < p /\ k + 1 = p /\ ~(p <= k)
  BY <1>7, <1>9, <1>10
<1>12. Origin(m, k, r)
  BY <1>4, <1>6, <1>11
<1>13. k \in Live
  BY <1>1, <1>2, <1>11 DEF Live
<1>14. Renamed(InstrOf(k), rob[k], m[k], m[p])
  BY <1>11, <1>13 DEF Mapped
<1>15. m[k] \in [Reg -> Phys]
  BY DEF Tables
<1>16. CASE WritesRd(InstrOf(k)) /\ InstrOf(k).rd = r
  <2>1. m[p][r] = rob[k].dst
    BY <1>14, <1>15, <1>16 DEF Renamed
  <2>2. k \in Writers(r)
    BY <1>13, <1>16 DEF Writers
  <2> QED BY <1>8, <1>11, <2>1, <2>2 DEF Origin
<1>17. CASE ~(WritesRd(InstrOf(k)) /\ InstrOf(k).rd = r)
  <2>1. m[p][r] = m[k][r]
    BY <1>14, <1>15, <1>17 DEF Renamed
  <2>2. ASSUME NEW j \in Writers(r), j < k PROVE j < p
    <3>1. j \in Nat
      BY EntryFacts DEF Inv, Writers
    <3> QED BY <1>7, <1>11, <2>2, <3>1
  <2> QED BY <1>8, <1>12, <2>1, <2>2 DEF Origin
<1> QED BY <1>16, <1>17

\* Of the live writers of a register the oldest replaces the committed one.
LEMMA CommittedIs ==
  ASSUME Inv, NEW m \in Tables, Mapped(m), NEW c \in [Reg -> Phys], c = m[head + 1]
  PROVE  \A r \in Reg : CommittedReg(r) = c[r]
<1> SUFFICES ASSUME NEW r \in Reg PROVE CommittedReg(r) = c[r]
  OBVIOUS
<1>1. /\ head \in Nat /\ Len(rob) \in Nat /\ head <= Len(rob)
      /\ \A p \in Live : p \in Nat /\ p \in head + 1 .. Len(rob) + 1
  <2>1. head \in Nat /\ Len(rob) \in Nat /\ head <= Len(rob)
    BY EntryFacts DEF Inv, BufferOK
  <2> QED BY <2>1 DEF Live
<1>2. \A p \in head + 1 .. Len(rob) + 1 : Origin(m, p, r)
  BY OriginHolds
<1>3. CASE Writers(r) = {}
  <2>1. Len(rob) + 1 \in head + 1 .. Len(rob) + 1
    BY <1>1
  <2>2. rat[r] = c[r]
    BY <1>2, <1>3, <2>1 DEF Origin, Mapped
  <2> QED BY <1>3, <2>2 DEF CommittedReg
<1>4. CASE Writers(r) # {}
  <2>1. Writers(r) \in SUBSET Nat
    BY <1>1 DEF Writers
  <2>2. PICK w : w = Min(Writers(r))
    OBVIOUS
  <2>3. w \in Writers(r) /\ \A k \in Writers(r) : w <= k
    BY <1>4, <2>1, <2>2, MinOfNaturals
  <2>4. \A k \in Writers(r) : ~(k < w)
    BY <2>1, <2>3
  <2>5. w \in Live /\ WritesRd(InstrOf(w)) /\ InstrOf(w).rd = r
    BY <2>3 DEF Writers
  <2>6. m[w][r] = c[r]
    BY <1>1, <1>2, <2>4, <2>5 DEF Origin
  <2>7. rob[w].prev = m[w][r]
    BY <2>5 DEF Mapped, Renamed
  <2> QED BY <1>4, <2>2, <2>6, <2>7 DEF CommittedReg
<1> QED BY <1>3, <1>4

LEMMA WritersOwn ==
  ASSUME Inv, NEW r
  PROVE  \A k \in Writers(r) : k \in Owners
BY OwnerFacts DEF Writers

\* What waits for a register waits for its producer.
LEMMA NoOrphans ==
  ASSUME Inv, Orderly
  PROVE  NoOrphanWaits
<1>1. SUFFICES ASSUME TakenArePredicted(setup), NEW p \in rs, NEW s \in Range(rob[p].srcs)
               PROVE  physReady[s] \/ \E k \in Live : k < p /\ rob[k].dst = s /\ ~rob[k].done
  BY DEF NoOrphanWaits
<1>2. PICK m \in Tables, c \in [Reg -> Phys] :
         c = m[head + 1] /\ Mapped(m) /\ Parted(c) /\ Delivered(c)
  BY <1>1 DEF Orderly, Registers
<1>3. p \in Live
  BY DEF Inv, WaitingOK
<1>4. /\ rob[p] \in Entry /\ Fits(rob[p]) /\ InstrOf(p) \in Instr
      /\ head \in Nat /\ Len(rob) \in Nat
  BY <1>3, EntryFacts DEF Inv
<1>5. p \in head + 1 .. Len(rob) + 1
  BY <1>3, <1>4 DEF Live
<1>6. rob[p].srcs \in Seq(Phys) /\ Len(rob[p].srcs) = Len(Reads(InstrOf(p)))
  BY <1>4 DEF Entry, Fits, InstrOf
<1>7. PICK j \in 1 .. Len(rob[p].srcs) : s = rob[p].srcs[j]
  BY <1>6, RangeIs
<1>8. PICK r \in Reg : s = m[p][r]
  <2>1. Reads(InstrOf(p)) \in Seq(Reg)
    BY <1>4, ReadsType
  <2>2. Reads(InstrOf(p))[j] \in Reg
    BY <1>6, <1>7, <2>1, ElementOfSeq
  <2> QED BY <1>2, <1>3, <1>7, <2>2 DEF Mapped, Renamed
<1>9. Origin(m, p, r)
  BY <1>2, <1>5, OriginHolds
<1>10. CASE s = c[r]
  BY <1>2, <1>10 DEF Delivered
<1>11. CASE s # c[r]
  <2>1. PICK k \in Writers(r) : k < p /\ rob[k].dst = s
    BY <1>2, <1>8, <1>9, <1>11 DEF Origin
  <2>2. k \in Owners /\ k \in Live
    BY WritersOwn DEF Owners
  <2>3. rob[k].done => physReady[s]
    BY <1>2, <2>1, <2>2 DEF Delivered
  <2> QED BY <2>1, <2>2, <2>3
<1> QED BY <1>10, <1>11

\* No register that the map or a live entry names is free.
LEMMA NoneInUse ==
  ASSUME Inv, Orderly, TakenArePredicted(setup)
  PROVE  NoneInUseIsFree
<1>1. PICK m \in Tables, c \in [Reg -> Phys] :
         c = m[head + 1] /\ Mapped(m) /\ Parted(c) /\ Delivered(c)
  BY DEF Orderly, Registers
<1>2. /\ head \in Nat /\ Len(rob) \in Nat /\ head <= Len(rob)
      /\ free \in Seq(Phys) /\ rat \in [Reg -> Phys]
  BY EntryFacts DEF Inv, BufferOK, ListsOK, FileOK
<1>3. Len(rob) + 1 \in head + 1 .. Len(rob) + 1
  BY <1>2
<1>4. ASSUME NEW r \in Reg PROVE rat[r] \notin Range(free)
  <2>1. Origin(m, Len(rob) + 1, r) /\ m[Len(rob) + 1] = rat
    BY <1>1, <1>3, OriginHolds DEF Mapped
  <2>2. rat[r] = c[r] \/ \E k \in Writers(r) : rob[k].dst = rat[r]
    BY <1>1, <2>1 DEF Origin
  <2>3. rat[r] = c[r] \/ rat[r] \in Held
    BY <2>2, WritersOwn DEF Held
  <2> QED BY <1>1, <2>3 DEF Parted
<1>5. ASSUME NEW p \in Live PROVE rob[p].dst \notin Range(free)
  <2>1. CASE p \in Owners
    BY <1>1, <2>1 DEF Parted, Held
  <2>2. CASE p \notin Owners
    <3>1. rob[p].dst = NoReg
      BY <2>2 DEF Owners
    <3>2. \A x \in Range(free) : x \in Phys
      BY <1>2, RangeIs, ElementOfSeq
    <3> QED BY <3>1, <3>2, PhysFacts
  <2> QED BY <2>1, <2>2
<1>6. Range(rat) = {rat[r] : r \in Reg}
  BY <1>2 DEF Range
<1> HIDE DEF Range
<1> QED BY <1>4, <1>5, <1>6 DEF NoneInUseIsFree

-----------------------------------------------------------------------------
(* The registers counted by role.                                          *)

\* As many different values as arguments.
LEMMA Counted ==
  ASSUME NEW S, IsFiniteSet(S), NEW U, NEW f \in [S -> U],
         \A x, y \in S : f[x] = f[y] => x = y, \A u \in U : \E x \in S : f[x] = u
  PROVE  IsFiniteSet(U) /\ Cardinality(U) = Cardinality(S)
<1>1. f \in Injection(S, U) /\ f \in Surjection(S, U)
  BY DEF Injection, IsInjective, Surjection
<1>2. ExistsBijection(S, U)
  BY <1>1 DEF ExistsBijection, Bijection
<1> QED BY <1>2, FS_Bijection

LEMMA DistinctCount ==
  ASSUME NEW T, NEW q \in Seq(T), Distinct(q)
  PROVE  IsFiniteSet(Range(q)) /\ Cardinality(Range(q)) = Len(q)
<1>1. PICK n \in Nat : n = Len(q)
  OBVIOUS
<1>2. PICK S : S = 1 .. n
  OBVIOUS
<1>3. IsFiniteSet(S) /\ Cardinality(S) = n
  BY <1>2, FS_Interval
<1>4. PICK U : U = Range(q)
  OBVIOUS
<1>5. U = {q[k] : k \in S}
  BY <1>1, <1>2, <1>4, RangeIs
<1>6. q \in [S -> U] /\ \A j, k \in S : q[j] = q[k] => j = k
  BY <1>1, <1>2, <1>5 DEF Distinct
<1>7. \A u \in U : \E k \in S : q[k] = u
  BY <1>5
<1> QED BY <1>1, <1>3, <1>4, <1>6, <1>7, Counted

LEMMA DisjointUnion ==
  ASSUME NEW S, IsFiniteSet(S), NEW T, IsFiniteSet(T), S \cap T = {}
  PROVE  /\ IsFiniteSet(S \cup T) /\ Cardinality(S \cup T) = Cardinality(S) + Cardinality(T)
         /\ Cardinality(S) \in Nat /\ Cardinality(T) \in Nat
<1>1. Cardinality(S) \in Nat /\ Cardinality(T) \in Nat /\ Cardinality(S \cap T) = 0
  BY FS_CardinalityType, FS_EmptySet
<1>2. IsFiniteSet(S \cup T)
      /\ Cardinality(S \cup T) = Cardinality(S) + Cardinality(T) - Cardinality(S \cap T)
  BY FS_Union
<1> QED BY <1>1, <1>2

LEMMA Accounted ==
  ASSUME Inv, Orderly
  PROVE  RegistersAccounted
<1>0. CASE ~TakenArePredicted(setup)
  BY <1>0 DEF RegistersAccounted
<1> SUFFICES ASSUME TakenArePredicted(setup) PROVE RegistersAccounted
  BY <1>0
<1>1. PICK m \in Tables, c \in [Reg -> Phys] :
         c = m[head + 1] /\ Mapped(m) /\ Parted(c) /\ Delivered(c)
  BY DEF Orderly, Registers
<1>2. free \in Seq(Phys) /\ pendingFree \in Seq(Phys)
  BY DEF Inv, ListsOK
<1>3. PICK A : A = Range(free)
  OBVIOUS
<1>4. PICK B : B = Range(pendingFree)
  OBVIOUS
<1>5. PICK C : C = {c[r] : r \in Reg}
  OBVIOUS
<1>6. C = {CommittedReg(r) : r \in Reg}
  BY <1>1, <1>5, CommittedIs
<1>7. PICK D : D = {rob[p].dst : p \in Owners}
  OBVIOUS
<1>8. D = Held
  BY <1>7 DEF Held
<1>9. A \cap B = {} /\ (A \cup B) \cap C = {} /\ (A \cup B \cup C) \cap D = {}
  <2>1. A \cap B = {} /\ D \cap (A \cup B) = {} /\ \A r \in Reg : c[r] \notin A \cup B \cup D
    BY <1>1, <1>3, <1>4, <1>8 DEF Parted
  <2> QED BY <1>5, <2>1
<1>10. A \cup B \cup C \cup D = Phys
  <2>1. \A x \in A : x \in Phys
    BY <1>2, <1>3, RangeIs, ElementOfSeq
  <2>2. \A x \in B : x \in Phys
    BY <1>2, <1>4, RangeIs, ElementOfSeq
  <2>3. \A x \in C : x \in Phys
    BY <1>1, <1>5
  <2>4. \A x \in D : x \in Phys
    BY <1>7, OwnerFacts
  <2>5. \A x \in Phys : x \in A \cup B \cup D \/ \E r \in Reg : x = c[r]
    BY <1>1, <1>3, <1>4, <1>8 DEF Parted
  <2>6. \A x \in Phys : x \in A \cup B \cup C \cup D
    BY <1>5, <2>5
  <2> QED BY <2>1, <2>2, <2>3, <2>4, <2>6
<1>11. IsFiniteSet(A) /\ Cardinality(A) = Len(free)
  BY <1>1, <1>2, <1>3, DistinctCount DEF Parted
<1>12. IsFiniteSet(B) /\ Cardinality(B) = Len(pendingFree)
  BY <1>1, <1>2, <1>4, DistinctCount DEF Parted
<1>13. IsFiniteSet(C) /\ Cardinality(C) = NumRegs
  <2>1. IsFiniteSet(Reg) /\ Cardinality(Reg) = NumRegs
    <3>1. PICK n \in Nat : n = NumRegs
      BY Sizes
    <3>2. IsFiniteSet(0 .. n - 1) /\ Cardinality(0 .. n - 1) = n
      BY FS_Interval
    <3> QED BY <3>1, <3>2, Sizes
  <2>2. \A r, q \in Reg : c[r] = c[q] => r = q
    BY <1>1 DEF Parted
  <2>3. c \in [Reg -> C] /\ \A x \in C : \E r \in Reg : c[r] = x
    BY <1>1, <1>5
  <2> QED BY <2>1, <2>2, <2>3, Counted
<1>14. IsFiniteSet(D) /\ Cardinality(D) = Cardinality(Owners)
  <2>1. IsFiniteSet(Owners)
    <3>1. PICK n \in Nat : n = Len(rob)
      BY EntryFacts DEF Inv
    <3>2. \A p \in Owners : p \in 1 .. n
      BY <3>1, EntryFacts DEF Owners, Inv
    <3>3. IsFiniteSet(1 .. n) /\ Owners \in SUBSET (1 .. n)
      BY <3>2, FS_Interval
    <3> QED BY <3>3, FS_Subset
  <2>2. PICK f : f = [p \in Owners |-> rob[p].dst]
    OBVIOUS
  <2>3. f \in [Owners -> D] /\ \A p \in Owners : f[p] = rob[p].dst
    BY <1>7, <2>2
  <2>4. \A p, q \in Owners : f[p] = f[q] => p = q
    BY <1>1, <2>3 DEF Parted
  <2>5. \A x \in D : \E p \in Owners : f[p] = x
    BY <1>7, <2>3
  <2> QED BY <2>1, <2>3, <2>4, <2>5, Counted
<1>15. PICK E : E = A \cup B
  OBVIOUS
<1>16. IsFiniteSet(E) /\ Cardinality(E) = Len(free) + Len(pendingFree)
  BY <1>9, <1>11, <1>12, <1>15, DisjointUnion
<1>17. PICK F : F = E \cup C
  OBVIOUS
<1>18. IsFiniteSet(F) /\ Cardinality(F) = Cardinality(E) + NumRegs
  <2>1. E \cap C = {}
    BY <1>9, <1>15
  <2> QED BY <1>13, <1>16, <1>17, <2>1, DisjointUnion
<1>19. Cardinality(F \cup D) = Cardinality(F) + Cardinality(Owners)
  <2>1. F \cap D = {}
    BY <1>9, <1>15, <1>17
  <2> QED BY <1>14, <1>18, <2>1, DisjointUnion
<1>20. F \cup D = Phys
  BY <1>10, <1>15, <1>17
<1>21. Len(free) + Len(pendingFree) + NumRegs + Cardinality(Owners) = Cfg.phys
  BY <1>16, <1>18, <1>19, <1>20, PhysFacts
<1>22. Owners = {p \in Live : rob[p].dst # NoReg}
  BY DEF Owners
<1> QED BY <1>3, <1>4, <1>6, <1>7, <1>10, <1>21, <1>22 DEF RegistersAccounted

\* Whatever the program, the sizes and the history of bundles and heat, after every squash,
\* redirect and compaction each entry of the window that is not done waits or executes, once,
\* and the load/store queue lists the window's loads and stores in program order.  Where every
\* taken branch is predicted (or there is none) nothing else executes and no instruction waits
\* for a register that nobody is going to deliver; where one is not, operations that the pass
\* had gone by when it redirected stay behind their entries, and this does not exclude them.
THEOREM WindowIsConsistent == Spec => []WindowConsistent
<1>1. Inv /\ Orderly /\ (TakenArePredicted(setup) => Unmarked) => WindowConsistent
  BY InvTypes, InvQueues, NoOrphans DEF WindowConsistent
<1> QED BY <1>1, InvHolds, OrderlyHolds, UnmarkedHolds, PTL

\* Where every taken branch is predicted no physical register is lost and none has two
\* owners, through renaming, squashes, commits, reclaiming and compaction: each is free,
\* waits to be reclaimed, holds a committed register, or is the destination of a live entry.
THEOREM RegistersAreAccounted == Spec => []RegistersAccounted
<1>1. Inv /\ Orderly => RegistersAccounted
  BY Accounted
<1> QED BY <1>1, InvHolds, OrderlyHolds, PTL

\* A register that is handed out while in use (the double allocation a redirect leads to)
\* needs a redirect: where every taken branch is predicted no free register is named by the
\* map or by a live entry.
THEOREM NothingInUseIsHandedOut == Spec => [](TakenArePredicted(setup) => NoneInUseIsFree)
<1>1. Inv /\ Orderly => (TakenArePredicted(setup) => NoneInUseIsFree)
  BY NoneInUse
<1> QED BY <1>1, InvHolds, OrderlyHolds, PTL

\* What run() reports as its end changes only in these steps.
LEMMA StatusKinds ==
  ASSUME Inv, [Next]_vars
  PROVE  \/ status' = status \/ status' \in {"HALTED", "TIMEOUT", "DEADLOCK"}
         \/ Astray
<1>1. CASE UNCHANGED vars
  BY <1>1 DEF vars, clock
<1>2. CASE Squash \/ CommitStore \/ CommitHalt \/ CommitOther
  <2>1. Committed
    BY <1>2 DEF Squash, CommitStore, CommitHalt, CommitOther
  <2> QED BY <2>1 DEF Committed, clock
<1>3. CASE EndCommit
  BY <1>3 DEF EndCommit, clock
<1>4. CASE ExecDropped \/ Tick \/ Complete \/ ResolveBranch \/ Redirect \/ EndExec
  BY <1>4 DEF ExecDropped, Tick, Complete, ResolveBranch, Redirect, EndExec, clock
<1>5. CASE IssueStep
  BY <1>5 DEF IssueStep, IssueAlu, IssueBranch, IssueStore, IssueLoad, Forward, IssuePrefetch,
              LeaveRs, clock
<1>6. CASE Rename \/ EndRename \/ EndIssue
  BY <1>6 DEF Rename, EndRename, EndIssue, clock
<1>7. CASE FetchStep
  BY <1>7, FetchStepKinds DEF clock
<1>8. CASE Starting
  BY <1>8 DEF Starting, StartCycle, clock
<1>9. CASE Stop \/ EndCycle \/ Deadlock
  BY <1>9 DEF Stop, EndCycle, Deadlock
<1> QED BY <1>1, <1>2, <1>3, <1>4, <1>5, <1>6, <1>7, <1>8, <1>9, NextKinds
        DEF CommitStep, ExecStep, OtherStep

\* Where every taken branch is predicted the core never completes an operation that belongs
\* to no entry of the window: it neither spoils an entry that took the place nor raises.
Unspoilt == TakenArePredicted(setup) => status \notin {"CORRUPT", "RAISED"}

THEOREM NeverCorrupt == Spec => []Unspoilt
<1>1. Init => Unspoilt
  BY DEF Init, Unspoilt
<1>2. ASSUME Inv, TakenArePredicted(setup) => Unmarked, Orderly, Unspoilt, [Next]_vars
      PROVE  Unspoilt'
  <2>1. setup' = setup
    BY <1>2, ShrinkKinds, FetchStepKinds DEF Still, Starting, StartCycle
  <2>2. ASSUME TakenArePredicted(setup), Astray PROVE FALSE
    <3>1. Current.gone /\ AtExec
      BY <2>2 DEF Astray, Ending
    <3>2. cursor + 1 \in 1 .. Len(executing)
      BY <1>2, <3>1 DEF AtExec, Inv, LoopOK, ExecutingOK
    <3>3. Unmarked
      BY <1>2, <2>2
    <3>4. ~executing[cursor + 1].gone
      BY <3>2, <3>3 DEF Unmarked, AllOwn
    <3> QED BY <3>1, <3>4 DEF Current
  <2>3. ASSUME TakenArePredicted(setup) PROVE status' \notin {"CORRUPT", "RAISED"}
    BY <1>2, <2>2, <2>3, StatusKinds DEF Unspoilt
  <2> QED BY <2>1, <2>3 DEF Unspoilt, TakenArePredicted
<1> QED BY <1>1, <1>2, InvHolds, OrderlyHolds, UnmarkedHolds, PTL DEF Spec

-----------------------------------------------------------------------------
(* The path that is fetched.                                               *)

\* Where fetch goes on in the program P behind an entry of the window or the queue.
After(P, e) == IF e.pred = "taken" THEN e.pc + P[e.pc + 1].imm ELSE e.pc + 1

\* Only a branch is predicted taken.
JumpsWell(P, e) == e.pred = "taken" => IsBranch(P[e.pc + 1])

\* The next instruction that is not in the window.
QueuePc == IF fetchQ # <<>> THEN fetchQ[1].pc ELSE fetchPc

WindowChained ==
  /\ \A p \in Live : p + 1 \in Live => rob[p + 1].pc = After(prog, rob[p])
  /\ \A p \in Live : JumpsWell(prog, rob[p])

QueueChained ==
  /\ \A k \in 1 .. Len(fetchQ) : JumpsWell(prog, fetchQ[k])
  /\ \A k \in 1 .. Len(fetchQ) : k + 1 \in 1 .. Len(fetchQ) =>
       fetchQ[k + 1].pc = After(prog, fetchQ[k])
  /\ fetchQ # <<>> => fetchPc = After(prog, fetchQ[Len(fetchQ)])

Joined == Live # {} => QueuePc = After(prog, rob[Len(rob)])

\* A branch that is done knows where the program goes on; if it is not known as
\* mispredicted, fetch went on there as well.
Decided(e) ==
  /\ e.val = IF Taken(e) THEN e.pc + InstrAt(e.pc).imm ELSE e.pc + 1
  /\ ~e.mispredicted => e.val = After(prog, e)

BranchesDecided == \A p \in Live : IsBranch(InstrOf(p)) /\ rob[p].done => Decided(rob[p])

\* Fetch stops at an instruction that stops the machine, or behind the program.
HaltSeen ==
  fetchHalted =>
    \/ halted \/ fetchPc >= Len(prog)
    \/ \E p \in Live : IsHalt(InstrOf(p))
    \/ \E k \in 1 .. Len(fetchQ) : IsHalt(prog[fetchQ[k].pc + 1])

Path == WindowChained /\ QueueChained /\ Joined /\ BranchesDecided /\ HaltSeen

LEMMA AfterStep ==
  ASSUME NEW P, NEW e, NEW f, e.pc = f.pc, e.pred = f.pred
  PROVE  After(P, e) = After(P, f) /\ (JumpsWell(P, e) <=> JumpsWell(P, f))
BY DEF After, JumpsWell

\* What a step of fetch does to the queue.
Queued(slot) ==
  /\ slot \in Slot /\ slot.pc = fetchPc /\ JumpsWell(prog, slot)
  /\ fetchQ' = Append(fetchQ, slot) /\ fetchPc' = After(prog, slot)
  /\ ~fetchHalted /\ (fetchHalted' => IsHalt(prog[slot.pc + 1]))

LEMMA FetchShape ==
  ASSUME Inv, FetchStep
  PROVE  \/ /\ UNCHANGED <<fetchQ, fetchPc>>
            /\ fetchHalted' => fetchHalted \/ fetchPc >= Len(prog)
         \/ \E slot : Queued(slot)
<1>1. ASSUME Fetching, InProgram, NEW pred \in {"none", "taken", "fall"}, NEW target,
             Fetch(pred, target), pred = "taken" => IsBranch(Fetched),
             target = IF pred = "taken" THEN fetchPc + Fetched.imm ELSE fetchPc + 1,
             fetchHalted' => fetchHalted \/ IsHalt(Fetched)
      PROVE  \E slot : Queued(slot)
  <2>1. PICK slot : slot = [pc |-> fetchPc, pred |-> pred]
    OBVIOUS
  <2>2. slot \in Slot /\ slot.pc = fetchPc /\ slot.pred = pred
    BY <1>1, <2>1, FetchedFacts DEF Slot
  <2>3. Fetched = prog[slot.pc + 1] /\ Fetched = InstrAt(slot.pc)
    BY <2>2 DEF Fetched, InstrAt
  <2>4. After(prog, slot) = target /\ JumpsWell(prog, slot)
    BY <1>1, <2>2, <2>3 DEF After, JumpsWell
  <2>5. ~fetchHalted
    BY <1>1 DEF Fetching
  <2>6. fetchQ' = Append(fetchQ, slot) /\ fetchPc' = target
    BY <1>1, <2>1 DEF Fetch
  <2>7. fetchHalted' => IsHalt(prog[slot.pc + 1])
    BY <1>1, <2>3, <2>5
  <2>8. Queued(slot)
    BY <2>2, <2>4, <2>5, <2>6, <2>7 DEF Queued
  <2> QED BY <2>8
<1>2. CASE FetchPlain
  BY <1>1, <1>2 DEF FetchPlain
<1>3. CASE FetchUnpredicted
  BY <1>1, <1>3 DEF FetchUnpredicted
<1>4. CASE FetchHalt
  BY <1>1, <1>4 DEF FetchHalt
<1>5. ASSUME NEW t \in BOOLEAN, FetchPredicted(t) PROVE \E slot : Queued(slot)
  <2>1. Fetching /\ InProgram /\ IsBranch(Fetched) /\ UNCHANGED fetchHalted
    BY <1>5 DEF FetchPredicted
  <2>2. CASE t
    <3>1. Fetch("taken", fetchPc + Fetched.imm)
      BY <1>5, <2>2 DEF FetchPredicted
    <3> QED BY <1>1, <2>1, <3>1
  <2>3. CASE ~t
    <3>1. Fetch("fall", fetchPc + 1)
      BY <1>5, <2>3 DEF FetchPredicted
    <3> QED BY <1>1, <2>1, <3>1
  <2> QED BY <2>2, <2>3
<1>6. CASE FetchOutside
  BY <1>6 DEF FetchOutside
<1>7. CASE FetchBubble \/ FetchWaits \/ EndFetch \/ \E c \in setup.lines : FetchMiss(c)
  BY <1>7 DEF FetchBubble, FetchWaits, EndFetch, FetchMiss, front
<1> QED BY <1>2, <1>3, <1>4, <1>5, <1>6, <1>7 DEF FetchStep

LEMMA FetchKeepsPath ==
  ASSUME Inv, Path, FetchStep
  PROVE  Path'
<1>1. /\ UNCHANGED <<setup, rob, head, halted>> /\ Live' = Live
      /\ prog' = prog /\ \A p : InstrOf(p)' = InstrOf(p)
  BY FetchStepKinds, BufferKept, SoundKept DEF Still, arch, window, Inv
<1>2. \A pc : InstrAt(pc)' = InstrAt(pc)
  BY <1>1, SoundKept
<1>3. WindowChained'
  BY <1>1 DEF Path, WindowChained
<1>4. BranchesDecided'
  BY <1>1, <1>2 DEF Path, BranchesDecided, Decided, Taken
<1>5. CASE UNCHANGED <<fetchQ, fetchPc>> /\ (fetchHalted' => fetchHalted \/ fetchPc >= Len(prog))
  <2>1. QueueChained' /\ Joined'
    BY <1>1, <1>5 DEF Path, QueueChained, Joined, QueuePc
  <2>2. HaltSeen'
    BY <1>1, <1>2, <1>5 DEF Path, HaltSeen
  <2> QED BY <1>3, <1>4, <2>1, <2>2 DEF Path
<1>6. ASSUME NEW slot, Queued(slot) PROVE Path'
  <2>1. fetchQ \in Seq(Slot) /\ Len(fetchQ) \in Nat
    BY DEF Inv, FrontOK
  <2>2. PICK n \in Nat : n = Len(fetchQ)
    BY <2>1
  <2>3. /\ Len(fetchQ') = n + 1 /\ fetchQ'[n + 1] = slot /\ fetchQ' # <<>>
        /\ \A k \in 1 .. n : fetchQ'[k] = fetchQ[k]
    <3>1. fetchQ' = Append(fetchQ, slot) /\ slot \in Slot
      BY <1>6 DEF Queued
    <3>2. fetchQ' \in Seq(Slot) /\ Len(fetchQ') = n + 1
      BY <2>1, <2>2, <3>1, AppendProperties
    <3> QED BY <2>1, <2>2, <3>1, <3>2, AppendProperties, EmptySeq
  <2>4. \A k \in 1 .. n + 1 : k \in 1 .. n \/ k = n + 1
    BY <2>2
  <2>5. QueueChained'
    <3>1. \A k \in 1 .. n + 1 : JumpsWell(prog, fetchQ'[k])
      BY <1>6, <2>2, <2>3, <2>4 DEF Path, QueueChained, Queued
    <3>2. ASSUME NEW k \in 1 .. n + 1, k + 1 \in 1 .. n + 1
          PROVE  fetchQ'[k + 1].pc = After(prog, fetchQ'[k])
      <4>1. k \in 1 .. n
        BY <3>2
      <4>2. CASE k + 1 \in 1 .. n
        BY <2>2, <2>3, <4>1, <4>2 DEF Path, QueueChained
      <4>3. CASE k + 1 = n + 1
        <5>1. k = n /\ fetchQ # <<>>
          BY <2>1, <2>2, <4>1, <4>3, EmptySeq
        <5>2. fetchPc = After(prog, fetchQ[n])
          BY <2>2, <5>1 DEF Path, QueueChained
        <5> QED BY <1>6, <2>3, <4>1, <5>1, <5>2 DEF Queued
      <4> QED BY <3>2, <4>1, <4>2, <4>3
    <3>3. fetchPc' = After(prog, fetchQ'[n + 1])
      BY <1>6, <2>3 DEF Queued
    <3> QED BY <1>1, <2>3, <3>1, <3>2, <3>3 DEF QueueChained
  <2>6. QueuePc' = QueuePc
    <3>1. CASE fetchQ = <<>>
      <4>1. n = 0 /\ fetchQ'[1] = slot
        BY <2>2, <2>3, <3>1
      <4> QED BY <1>6, <2>3, <3>1, <4>1 DEF QueuePc, Queued
    <3>2. CASE fetchQ # <<>>
      <4>1. 1 \in 1 .. n
        BY <2>1, <2>2, <3>2, EmptySeq
      <4> QED BY <2>3, <3>2, <4>1 DEF QueuePc
    <3> QED BY <3>1, <3>2
  <2>7. Joined'
    BY <1>1, <2>6 DEF Path, Joined
  <2>8. HaltSeen'
    <3>1. fetchHalted' => IsHalt(prog[fetchQ'[n + 1].pc + 1])
      BY <1>6, <2>3 DEF Queued
    <3>2. n + 1 \in 1 .. Len(fetchQ')
      BY <2>2, <2>3
    <3> QED BY <1>1, <3>1, <3>2 DEF HaltSeen
  <2> QED BY <1>3, <1>4, <2>5, <2>7, <2>8 DEF Path
<1> QED BY <1>5, <1>6, FetchShape

\* The queue and where fetch stands change only in these steps.
LEMMA FrontKinds ==
  ASSUME Inv, [Next]_vars
  PROVE  \/ FetchStep \/ Rename \/ Squash \/ Redirect
         \/ UNCHANGED <<fetchQ, fetchPc, fetchHalted>>
<1>1. CASE UNCHANGED vars
  BY <1>1 DEF vars, front
<1>2. CASE CommitStep
  BY <1>2 DEF CommitStep, CommitStore, CommitHalt, CommitOther, EndCommit, front
<1>3. CASE ExecStep
  BY <1>3 DEF ExecStep, ExecDropped, Tick, Complete, ResolveBranch, Astray, EndExec, front
<1>4. CASE IssueStep
  <2>1. PICK e \in Sound : IssueForm(e)
    BY <1>4, IssueStepForm
  <2> QED BY <2>1 DEF IssueForm, LeaveRs, front
<1>5. CASE OtherStep
  BY <1>5 DEF OtherStep, Stop, Starting, StartCycle, EndIssue, EndRename, EndCycle, Deadlock, front
<1> QED BY <1>1, <1>2, <1>3, <1>4, <1>5, NextKinds

\* The machine that has halted stays so, and halts when a halting entry commits.
LEMMA HaltedKept ==
  ASSUME Inv, [Next]_vars
  PROVE  /\ halted => halted'
         /\ Retire /\ IsHalt(OldestInstr) => halted'
<1>1. CASE UNCHANGED vars
  <2>1. halted' = halted /\ head' = head
    BY <1>1 DEF vars, arch, window
  <2>2. head \in Nat
    BY EntryFacts DEF Inv
  <2>3. ~Retire
    BY <2>1, <2>2 DEF Retire, Committed
  <2> QED BY <2>1, <2>3
<1>2. CASE Squash \/ CommitStore \/ CommitHalt \/ CommitOther
  <2>1. CanCommit
    BY <1>2 DEF Squash, CommitStore, CommitHalt, CommitOther
  <2>2. ~halted
    BY <2>1 DEF CanCommit
  <2>3. CASE Squash
    <3>1. OldestInstr = InstrOf(head + 1) /\ Fits(Oldest) /\ Oldest = rob[head + 1]
      BY <2>1, OldestFacts
    <3>2. IsBranch(OldestInstr)
      BY <2>3, <3>1 DEF Fits, Squash, OldestInstr
    <3> QED BY <2>2, <3>2, BranchWritesNothing
  <2>4. CASE CommitStore
    BY <2>2, <2>4 DEF CommitStore, IsHalt
  <2> QED BY <1>2, <2>2, <2>3, <2>4 DEF CommitHalt, CommitOther
<1>3. ASSUME halted' = halted, stage # "commit" \/ ~CanCommit
      PROVE  (halted => halted') /\ (Retire /\ IsHalt(OldestInstr) => halted')
  BY <1>3 DEF Retire, CanCommit
<1>4. CASE EndCommit
  BY <1>3, <1>4 DEF EndCommit, arch
<1>5. CASE ExecStep
  <2>1. halted' = halted
    BY <1>5 DEF ExecStep, ExecDropped, Tick, Complete, ResolveBranch, Redirect, Astray,
                EndExec, arch
  <2>2. stage = "exec"
    BY <1>5 DEF ExecStep, ExecDropped, Tick, Complete, ResolveBranch, Redirect, Astray,
                EndExec, AtExec, Finishing, Ending
  <2> QED BY <1>3, <2>1, <2>2
<1>6. CASE IssueStep
  <2>1. PICK e \in Sound : IssueForm(e)
    BY <1>6, IssueStepForm
  <2>2. halted' = halted /\ stage = "issue"
    BY <2>1 DEF IssueForm, LeaveRs, arch, CanIssue
  <2> QED BY <1>3, <2>2
<1>7. CASE FetchStep
  BY <1>3, <1>7, FetchStepKinds DEF Still, arch
<1>8. CASE Rename
  BY <1>3, <1>8 DEF Rename, CanRename, arch
<1>9. CASE Stop \/ Starting \/ EndIssue \/ EndRename \/ EndCycle \/ Deadlock
  <2>1. stage # "commit"
    BY <1>9 DEF Stop, Starting, StartCycle, EndIssue, EndRename, EndCycle, Deadlock
  <2>2. CASE EndCycle
    BY <2>1, <2>2 DEF EndCycle, Retire, CanCommit
  <2>3. CASE ~EndCycle
    BY <1>3, <1>9, <2>1, <2>3 DEF Stop, Starting, StartCycle, EndIssue, EndRename, Deadlock, arch
  <2> QED BY <2>2, <2>3
<1> QED BY <1>1, <1>2, <1>4, <1>5, <1>6, <1>7, <1>8, <1>9, NextKinds DEF CommitStep, OtherStep

\* Entries that are kept as they are stay decided.
LEMMA DecidedKept ==
  ASSUME Inv, BranchesDecided, setup' = setup,
         \A p \in Live' : IsBranch(InstrOf(p)') /\ rob'[p].done => \E q \in Live : rob'[p] = rob[q]
  PROVE  BranchesDecided'
<1>1. prog' = prog /\ \A pc : InstrAt(pc)' = InstrAt(pc)
  BY SoundKept
<1>2. ASSUME NEW p \in Live', IsBranch(InstrOf(p)'), rob'[p].done PROVE Decided(rob[p])'
  <2>1. PICK q \in Live : rob'[p] = rob[q]
    BY <1>2
  <2>2. InstrOf(p)' = InstrOf(q)
    BY <1>1, <2>1 DEF InstrOf
  <2>3. Decided(rob[q])
    BY <1>2, <2>1, <2>2 DEF BranchesDecided
  <2> QED BY <1>1, <2>1, <2>3 DEF Decided, Taken
<1> QED BY <1>2 DEF BranchesDecided

LEMMA RenameKeepsPath ==
  ASSUME Inv, Path, Rename
  PROVE  Path'
<1>1. PICK e \in Sound : /\ CanRename /\ rob' = Append(rob, e) /\ e.pc = Head(fetchQ).pc
                         /\ e.pred = Head(fetchQ).pred
                         /\ e.done <=> IsHalt(Incoming) \/ Incoming.op = "FENCE"
  BY RenameShape
<1>2. /\ UNCHANGED <<setup, head, halted, fetchPc, fetchHalted>> /\ fetchQ' = Tail(fetchQ)
  BY DEF Rename, arch
<1>3. PICK n \in Nat : n = Len(rob)
  BY EntryFacts DEF Inv
<1>4. PICK p : p = n + 1
  OBVIOUS
<1>5. /\ Len(rob') = p /\ rob'[p] = e /\ InstrOf(p)' = InstrAt(e.pc)
      /\ \A k \in 1 .. n : rob'[k] = rob[k]
      /\ Live' = Live \cup {p} /\ p \notin Live
      /\ \A k \in Live : k \in 1 .. n /\ k < p /\ InstrOf(k)' = InstrOf(k)
  <2>1. p = Len(rob) + 1 /\ UNCHANGED <<setup, head>>
    BY <1>2, <1>3, <1>4
  <2> QED BY <1>1, <1>3, <2>1, GrownBuffer
<1>6. prog' = prog /\ \A pc : InstrAt(pc)' = InstrAt(pc)
  BY <1>2, SoundKept
<1>7. /\ fetchQ \in Seq(Slot) /\ fetchQ # <<>> /\ Head(fetchQ) = fetchQ[1]
  BY <1>1, IncomingFacts
<1>8. PICK l \in Nat : l = Len(fetchQ) /\ l >= 1
  BY <1>7, EmptySeq
<1>9. /\ fetchQ' \in Seq(Slot) /\ Len(fetchQ') = l - 1 /\ l - 1 \in Nat
      /\ \A k \in 1 .. l - 1 : fetchQ'[k] = fetchQ[k + 1] /\ k \in 1 .. l /\ k + 1 \in 1 .. l
  BY <1>2, <1>7, <1>8, HeadTailProperties
<1>10. 1 \in 1 .. l
  BY <1>8
<1>11. After(prog, e) = After(prog, fetchQ[1]) /\ JumpsWell(prog, e)
  BY <1>1, <1>7, <1>8, <1>10, AfterStep DEF Path, QueueChained
<1>12. WindowChained'
  <2>1. ASSUME NEW q \in Live', q + 1 \in Live' PROVE rob'[q + 1].pc = After(prog, rob'[q])
    <3>1. q \in Live /\ q \in 1 .. n /\ rob'[q] = rob[q]
      BY <1>3, <1>4, <1>5, <2>1
    <3>2. CASE q + 1 \in Live
      BY <1>5, <3>1, <3>2 DEF Path, WindowChained
    <3>3. CASE q + 1 = p
      <4>1. q = n
        BY <1>3, <1>4, <3>1, <3>3
      <4>2. QueuePc = After(prog, rob[q])
        BY <1>3, <3>1, <4>1 DEF Path, Joined
      <4>3. QueuePc = e.pc
        BY <1>1, <1>7 DEF QueuePc
      <4> QED BY <1>5, <3>1, <3>3, <4>2, <4>3
    <3> QED BY <1>5, <2>1, <3>2, <3>3
  <2>2. ASSUME NEW q \in Live' PROVE JumpsWell(prog, rob'[q])
    BY <1>5, <1>11 DEF Path, WindowChained
  <2> QED BY <1>6, <2>1, <2>2 DEF WindowChained
<1>13. QueueChained'
  <2>1. \A k \in 1 .. l - 1 : JumpsWell(prog, fetchQ'[k])
    BY <1>8, <1>9 DEF Path, QueueChained
  <2>2. \A k \in 1 .. l - 1 : k + 1 \in 1 .. l - 1 => fetchQ'[k + 1].pc = After(prog, fetchQ'[k])
    BY <1>8, <1>9 DEF Path, QueueChained
  <2>3. ASSUME fetchQ' # <<>> PROVE fetchPc = After(prog, fetchQ'[l - 1])
    <3>1. l - 1 \in 1 .. l - 1 /\ (l - 1) + 1 = l
      BY <1>8, <1>9, <2>3, EmptySeq
    <3> QED BY <1>7, <1>8, <1>9, <3>1 DEF Path, QueueChained
  <2> QED BY <1>2, <1>6, <1>9, <2>1, <2>2, <2>3 DEF QueueChained
<1>14. QueuePc' = After(prog, e)
  <2>1. CASE fetchQ' = <<>>
    <3>1. l = 1
      <4>1. PICK x \in Nat : x = l - 1
        BY <1>9
      <4>2. Len(fetchQ') = x
        BY <1>9, <4>1
      <4>3. x = 0
        BY <2>1, <4>2
      <4>4. ASSUME NEW y \in Nat, NEW z \in Nat, z = y - 1, z = 0 PROVE y = 1
        BY <4>4
      <4> QED BY <1>8, <4>1, <4>3, <4>4
    <3> QED BY <1>2, <1>7, <1>8, <1>11, <2>1, <3>1 DEF QueuePc, Path, QueueChained
  <2>2. CASE fetchQ' # <<>>
    <3>1. 1 \in 1 .. l - 1
      BY <1>9, <2>2, EmptySeq
    <3>2. fetchQ'[1] = fetchQ[1 + 1] /\ 1 + 1 \in 1 .. l
      BY <1>9, <3>1
    <3> QED BY <1>8, <1>10, <1>11, <2>2, <3>2 DEF QueuePc, Path, QueueChained
  <2> QED BY <2>1, <2>2
<1>15. Joined'
  BY <1>5, <1>6, <1>14 DEF Joined
<1>16. BranchesDecided'
  <2>1. ~(IsBranch(InstrOf(p)') /\ rob'[p].done)
    <3>1. InstrOf(p)' = Incoming
      BY <1>1, <1>5 DEF Incoming
    <3>2. rob'[p].done => IsHalt(Incoming) \/ Incoming.op = "FENCE"
      BY <1>1, <1>5
    <3>3. IsBranch(Incoming) => Incoming.op # "FENCE"
      BY DEF IsBranch, Micro!IsBranch, Micro!BranchOps
    <3> QED BY <3>1, <3>2, <3>3, BranchWritesNothing
  <2>2. \A q \in Live' : IsBranch(InstrOf(q)') /\ rob'[q].done => \E k \in Live : rob'[q] = rob[k]
    BY <1>5, <2>1
  <2> QED BY <1>2, <2>2, DecidedKept DEF Path
<1>17. HaltSeen'
  <2> SUFFICES ASSUME fetchHalted'
               PROVE  \/ halted' \/ fetchPc' >= Len(prog')
                      \/ \E q \in Live' : IsHalt(InstrOf(q)')
                      \/ \E k \in 1 .. Len(fetchQ') : IsHalt(prog[fetchQ'[k].pc + 1])
    BY <1>6 DEF HaltSeen
  <2>1. ASSUME NEW k \in 1 .. l, IsHalt(prog[fetchQ[k].pc + 1])
        PROVE  \/ IsHalt(InstrOf(p)') \/ \E j \in 1 .. Len(fetchQ') : IsHalt(prog[fetchQ'[j].pc + 1])
    <3>1. CASE k = 1
      BY <1>1, <1>5, <1>7, <2>1, <3>1 DEF InstrAt
    <3>2. CASE k # 1
      <4>1. PICK j \in 1 .. l - 1 : j + 1 = k
        <5>1. k - 1 \in 1 .. l - 1 /\ (k - 1) + 1 = k
          BY <1>8, <3>2
        <5> QED BY <5>1
      <4> QED BY <1>6, <1>9, <2>1, <4>1
    <3> QED BY <3>1, <3>2
  <2>2. CASE \E q \in Live : IsHalt(InstrOf(q))
    BY <1>5, <2>2
  <2>3. p \in Live'
    BY <1>5
  <2> QED BY <1>2, <1>6, <1>8, <2>1, <2>2, <2>3 DEF Path, HaltSeen
<1> QED BY <1>12, <1>13, <1>15, <1>16, <1>17 DEF Path

\* Retiring takes the oldest entry out of the window.
LEMMA RetireShape ==
  ASSUME Inv, Retire
  PROVE  \E p \in Live :
           /\ p = head + 1 /\ head' = p /\ Live' = Live \ {p} /\ rob[p].done /\ p \notin rs
           /\ Oldest = rob[p] /\ OldestInstr = InstrOf(p)
           /\ UNCHANGED <<setup, rob, rat, free, physReady>>
           /\ \A k \in Live : p <= k
           /\ \A k : InstrOf(k)' = InstrOf(k)
<1>1. PICK p : p = head + 1
  OBVIOUS
<1>2. CanCommit /\ head' = p /\ UNCHANGED <<setup, rob, rat, free, physReady>>
  BY <1>1 DEF Retire, Committed
<1>3. /\ p \in Live /\ Oldest = rob[p] /\ OldestInstr = InstrOf(p) /\ Oldest.done /\ p \notin rs
      /\ head \in Nat /\ Len(rob) \in Nat
  BY <1>1, <1>2, OldestFacts
<1>4. Live' = Live \ {p} /\ \A k \in Live : p <= k
  BY <1>1, <1>2, <1>3 DEF Live
<1>5. \A k : InstrOf(k)' = InstrOf(k)
  BY <1>2, SoundKept DEF InstrOf
<1> QED BY <1>1, <1>2, <1>3, <1>4, <1>5

LEMMA RetireKeepsPath ==
  ASSUME Inv, Path, Retire, [Next]_vars, UNCHANGED <<fetchQ, fetchPc, fetchHalted>>
  PROVE  Path'
<1>1. PICK p \in Live : /\ Live' = Live \ {p} /\ UNCHANGED <<setup, rob>>
                        /\ \A k : InstrOf(k)' = InstrOf(k)
                        /\ OldestInstr = InstrOf(p)
  BY RetireShape
<1>2. prog' = prog /\ \A pc : InstrAt(pc)' = InstrAt(pc)
  BY <1>1, SoundKept
<1>3. WindowChained' /\ QueueChained'
  BY <1>1, <1>2 DEF Path, WindowChained, QueueChained
<1>4. Joined'
  BY <1>1, <1>2 DEF Path, Joined, QueuePc
<1>5. BranchesDecided'
  BY <1>1, DecidedKept DEF Path
<1>6. HaltSeen'
  BY <1>1, <1>2, HaltedKept DEF Path, HaltSeen
<1> QED BY <1>3, <1>4, <1>5, <1>6 DEF Path

LEMMA SquashKeepsPath ==
  ASSUME Inv, Squash
  PROVE  Path'
<1>1. Live' = {}
  BY SquashShape
<1>2. fetchQ' = <<>> /\ ~fetchHalted'
  BY DEF Squash, Truncate
<1>3. Len(fetchQ') = 0
  BY <1>2
<1> QED BY <1>1, <1>2, <1>3
        DEF Path, WindowChained, QueueChained, Joined, BranchesDecided, HaltSeen

LEMMA EndCommitKeepsPath ==
  ASSUME Inv, Path, EndCommit
  PROVE  Path'
<1>1. PICK n \in Nat : Shifted(n)
  BY EndCommitShape
<1>2. /\ \A k \in Live' : /\ k \in Nat /\ k + n \in Live
                          /\ rob'[k] = rob[k + n] /\ InstrOf(k)' = InstrOf(k + n)
      /\ \A q \in Live : q - n \in Live' /\ (q - n) + n = q
      /\ Len(rob') = Len(rob) - n /\ Len(rob') \in Nat /\ Len(rob) \in Nat
  BY <1>1, EntryFacts DEF Shifted, Inv
<1>3. UNCHANGED <<setup, halted, fetchQ, fetchPc, fetchHalted>>
  BY DEF EndCommit, arch, front
<1>4. prog' = prog /\ \A pc : InstrAt(pc)' = InstrAt(pc)
  BY <1>3, SoundKept
<1>5. WindowChained'
  <2>1. ASSUME NEW q \in Live', q + 1 \in Live' PROVE rob'[q + 1].pc = After(prog, rob'[q])
    <3>1. (q + 1) + n = (q + n) + 1
      BY <1>2
    <3>2. rob'[q + 1] = rob[(q + n) + 1] /\ (q + n) + 1 \in Live
      BY <1>2, <2>1, <3>1
    <3>3. rob'[q] = rob[q + n] /\ q + n \in Live
      BY <1>2
    <3> QED BY <3>2, <3>3 DEF Path, WindowChained
  <2> QED BY <1>2, <1>4, <2>1 DEF Path, WindowChained
<1>6. QueueChained'
  BY <1>3, <1>4 DEF Path, QueueChained
<1>7. Joined'
  <2>1. ASSUME NEW q \in Live' PROVE rob'[Len(rob')] = rob[Len(rob)] /\ Live # {}
    <3>1. Live # {} /\ head' < Len(rob') /\ head' \in Nat
      BY <1>1, <1>2, EntryFacts DEF Live, Shifted, Inv
    <3>2. Len(rob') \in 1 .. Len(rob') /\ Len(rob') + n = Len(rob)
      BY <1>2, <3>1
    <3> QED BY <1>1, <3>1, <3>2 DEF Shifted
  <2> QED BY <1>3, <1>4, <2>1 DEF Path, Joined, QueuePc
<1>8. BranchesDecided'
  BY <1>2, <1>3, DecidedKept DEF Path
<1>9. HaltSeen'
  BY <1>2, <1>3, <1>4 DEF Path, HaltSeen
<1> QED BY <1>5, <1>6, <1>7, <1>8, <1>9 DEF Path

\* One entry is rewritten: it is decided if it is a branch that is done.
LEMMA RewriteDecides ==
  ASSUME Inv, BranchesDecided, NEW p \in 1 .. Len(rob), NEW e \in Sound,
         rob' = [rob EXCEPT ![p] = e], UNCHANGED <<setup, head>>,
         IsBranch(InstrAt(e.pc)) /\ e.done => Decided(e)
  PROVE  BranchesDecided'
<1>1. /\ Len(rob') = Len(rob)
      /\ \A k \in 1 .. Len(rob) : rob'[k] = IF k = p THEN e ELSE rob[k]
  BY Rewritten DEF Inv
<1>2. prog' = prog /\ \A pc : InstrAt(pc)' = InstrAt(pc)
  BY SoundKept
<1>3. Live' = Live /\ \A k \in Live : k \in 1 .. Len(rob)
  BY <1>1, EntryFacts DEF Live, Inv
<1>4. ASSUME NEW k \in Live', IsBranch(InstrOf(k)'), rob'[k].done PROVE Decided(rob[k])'
  <2>1. CASE k = p
    <3>1. rob'[k] = e
      BY <1>1, <1>3, <2>1
    <3>2. Decided(e)
      BY <1>2, <1>4, <3>1 DEF InstrOf
    <3> QED BY <1>2, <3>1, <3>2 DEF Decided, Taken
  <2>2. CASE k # p
    <3>1. rob'[k] = rob[k]
      BY <1>1, <1>3, <2>2
    <3>2. Decided(rob[k])
      BY <1>2, <1>3, <1>4, <3>1 DEF BranchesDecided, InstrOf
    <3> QED BY <1>2, <3>1, <3>2 DEF Decided, Taken
  <2> QED BY <2>1, <2>2
<1> QED BY <1>4 DEF BranchesDecided

\* A branch that issues is not done.
LEMMA BranchIsSent ==
  ASSUME Inv, IssueStep, IsBranch(InstrOf(Chosen))
  PROVE  ~rob'[Chosen].done
<1>1. PICK p : p = Chosen
  OBVIOUS
<1>2. CanIssue
  BY DEF IssueStep, IssueAlu, IssueBranch, IssueStore, Forward, IssuePrefetch, IssueLoad
<1>3. p \in 1 .. Len(rob) /\ rob[p] \in Entry /\ ~rob[p].done
  BY <1>1, <1>2, ChosenFacts
<1>4. rob \in Seq(Sound) /\ DOMAIN rob = 1 .. Len(rob)
  BY EntryFacts DEF Inv, BufferOK
<1>5. InstrOf(p).op \notin {"LOAD", "STORE", "PREFETCH"}
  BY <1>1 DEF IsBranch, Micro!IsBranch, Micro!BranchOps
<1>6. ASSUME NEW s \in BOOLEAN, IssueAlu(s) PROVE ~rob'[p].done
  <2>1. PICK v : v = Value(InstrOf(p), Operand(p, 1), Operand(p, 2))
    OBVIOUS
  <2>2. rob' = [rob EXCEPT ![p].val = v]
    BY <1>1, <1>6, <2>1 DEF IssueAlu
  <2> QED BY <1>3, <1>4, <2>2 DEF Entry
<1>7. CASE IssueBranch
  <2>1. PICK v : v = <<Operand(p, 1), Operand(p, 2)>>
    OBVIOUS
  <2>2. rob' = [rob EXCEPT ![p].operands = v]
    BY <1>1, <1>7, <2>1 DEF IssueBranch
  <2> QED BY <1>1, <1>3, <1>4, <2>2 DEF Entry
<1>8. ~IssueStore /\ ~Forward /\ ~IssuePrefetch /\ \A c \in setup.loads : ~IssueLoad(c)
  BY <1>1, <1>5 DEF IssueStore, Forward, IssuePrefetch, IssueLoad
<1> QED BY <1>1, <1>6, <1>7, <1>8 DEF IssueStep

LEMMA IssueDecides ==
  ASSUME Inv, BranchesDecided, IssueStep
  PROVE  BranchesDecided'
<1>1. PICK e \in Sound : IssueForm(e)
  BY IssueStepForm
<1>2. PICK p : p = Chosen
  OBVIOUS
<1>3. /\ CanIssue /\ rob' = [rob EXCEPT ![p] = e] /\ SameRoles(e, rob[p])
      /\ UNCHANGED <<setup, head>>
  BY <1>1, <1>2 DEF IssueForm, LeaveRs
<1>4. p \in 1 .. Len(rob)
  BY <1>2, <1>3, ChosenFacts
<1>5. rob'[p] = e
  BY <1>3, <1>4, Rewritten DEF Inv
<1>6. IsBranch(InstrAt(e.pc)) => ~e.done
  BY <1>2, <1>3, <1>5, BranchIsSent DEF SameRoles, InstrOf
<1> QED BY <1>3, <1>4, <1>6, RewriteDecides

LEMMA ExecDecides ==
  ASSUME Inv, BranchesDecided, Complete \/ ResolveBranch
  PROVE  BranchesDecided'
<1>1. PICK p : p = Current.pos
  OBVIOUS
<1>2. /\ Finishing /\ UNCHANGED <<setup, head>>
  BY DEF Complete, ResolveBranch
<1>3. p \in 1 .. Len(rob) /\ rob[p] \in Sound /\ Fits(rob[p]) /\ rob[p] \in Entry
  BY <1>1, <1>2, FinishingFacts DEF Sound
<1>4. CASE Complete
  <2>1. PICK e : e = [rob[p] EXCEPT !.done = TRUE]
    OBVIOUS
  <2>2. rob' = [rob EXCEPT ![p] = e] /\ ~IsBranch(InstrOf(p))
    BY <1>1, <1>4, <2>1 DEF Complete
  <2>3. e \in Sound /\ SameRoles(e, rob[p])
    BY <1>3, <2>1, DoneIsSound
  <2>4. ~IsBranch(InstrAt(e.pc))
    BY <2>2, <2>3 DEF SameRoles, InstrOf
  <2> QED BY <1>2, <1>3, <2>2, <2>3, <2>4, RewriteDecides
<1>5. CASE ResolveBranch
  <2>1. PICK f : f = rob[p]
    OBVIOUS
  <2>2. PICK e : e = Resolved(f)
    OBVIOUS
  <2>3. rob' = [rob EXCEPT ![p] = e] /\ ~Redirects(f) /\ IsBranch(InstrOf(p))
    BY <1>1, <1>5, <2>1, <2>2 DEF ResolveBranch
  <2>4. e \in Sound
    BY <1>3, <2>1, <2>2, <2>3, ResolvedIsSound DEF Inv, InstrOf
  <2>5. /\ e.pc = f.pc /\ e.operands = f.operands /\ e.pred = f.pred
        /\ e.val = IF Taken(f) THEN f.pc + InstrAt(f.pc).imm ELSE f.pc + 1
        /\ e.mispredicted <=> (f.pred # "none" /\ (f.pred = "taken") # Taken(f))
    BY <1>3, <2>1, <2>2 DEF Resolved, Entry
  <2>6. Taken(e) = Taken(f) /\ Taken(f) \in BOOLEAN
    BY <2>5 DEF Taken, TakenOn
  <2>7. ~e.mispredicted => (Taken(f) <=> f.pred = "taken")
    BY <2>3, <2>5, <2>6 DEF Redirects
  <2>8. Decided(e)
    BY <2>5, <2>6, <2>7 DEF Decided, After, InstrAt
  <2> QED BY <1>2, <1>3, <2>3, <2>4, <2>8, RewriteDecides
<1> QED BY <1>4, <1>5

\* Steps that move neither the window nor fetch.
LEMMA QuietKeepsPath ==
  ASSUME Inv, Path, Quiet, BranchesDecided', UNCHANGED <<fetchQ, fetchPc, fetchHalted>>,
         halted => halted'
  PROVE  Path'
<1>1. /\ UNCHANGED <<setup, head>> /\ Len(rob') = Len(rob) /\ Len(rob) \in Nat /\ head \in Nat
      /\ Live' = Live /\ \A p \in Live : p \in 1 .. Len(rob)
  BY EntryFacts DEF Quiet, Live, Inv
<1>2. prog' = prog /\ \A pc : InstrAt(pc)' = InstrAt(pc)
  BY <1>1, SoundKept
<1>3. \A p \in 1 .. Len(rob) : /\ rob'[p].pc = rob[p].pc /\ rob'[p].pred = rob[p].pred
                               /\ InstrOf(p)' = InstrOf(p)
  BY <1>2 DEF Quiet, SameRoles, InstrOf
<1>4. \A p \in 1 .. Len(rob) : /\ After(prog, rob'[p]) = After(prog, rob[p])
                               /\ JumpsWell(prog, rob'[p]) <=> JumpsWell(prog, rob[p])
  BY <1>3, AfterStep
<1>5. WindowChained'
  BY <1>1, <1>2, <1>3, <1>4 DEF Path, WindowChained
<1>6. QueueChained'
  BY <1>2 DEF Path, QueueChained
<1>7. Joined'
  <2>1. Live # {} => Len(rob) \in 1 .. Len(rob)
    BY <1>1
  <2> QED BY <1>1, <1>2, <1>4, <2>1 DEF Path, Joined, QueuePc
<1>8. HaltSeen'
  BY <1>1, <1>2, <1>3 DEF Path, HaltSeen
<1> QED BY <1>5, <1>6, <1>7, <1>8 DEF Path

LEMMA InitPath ==
  ASSUME Init
  PROVE  Path
<1>1. rob = <<>> /\ head = 0 /\ fetchQ = <<>> /\ ~fetchHalted /\ Len(rob) = 0 /\ Len(fetchQ) = 0
  BY DEF Init
<1>2. Live = {}
  BY <1>1 DEF Live
<1> QED BY <1>1, <1>2 DEF Path, WindowChained, QueueChained, Joined, BranchesDecided, HaltSeen

LEMMA PathKept ==
  ASSUME Inv, Path, [Next]_vars, ~Redirect
  PROVE  Path'
<1>0. halted => halted'
  BY HaltedKept
<1>1. ASSUME UNCHANGED rob, Quiet, UNCHANGED <<fetchQ, fetchPc, fetchHalted>> PROVE Path'
  <2>1. UNCHANGED <<setup, head>> /\ Live' = Live
    BY <1>1 DEF Quiet, Live
  <2>2. BranchesDecided'
    BY <1>1, <2>1, DecidedKept DEF Path
  <2> QED BY <1>0, <1>1, <2>2, QuietKeepsPath
<1>2. CASE UNCHANGED vars
  <2>1. Quiet /\ UNCHANGED rob /\ UNCHANGED <<fetchQ, fetchPc, fetchHalted>>
    BY <1>2, SameIsQuiet DEF vars, rename, window, front, Inv
  <2> QED BY <1>1, <2>1
<1>3. CASE CommitStore \/ CommitHalt \/ CommitOther
  <2>1. UNCHANGED <<fetchQ, fetchPc, fetchHalted>>
    BY <1>3 DEF CommitStore, CommitHalt, CommitOther, front
  <2> QED BY <1>3, <2>1, CommitKinds, RetireKeepsPath
<1>4. CASE IssueStep
  <2>1. BranchesDecided' /\ Quiet
    BY <1>4, IssueDecides, IssueIsQuiet DEF Path
  <2>2. PICK e \in Sound : IssueForm(e)
    BY <1>4, IssueStepForm
  <2>3. UNCHANGED <<fetchQ, fetchPc, fetchHalted>>
    BY <2>2 DEF IssueForm, LeaveRs, front
  <2> QED BY <1>0, <2>1, <2>3, QuietKeepsPath
<1>5. CASE Complete \/ ResolveBranch
  <2>1. BranchesDecided' /\ Quiet
    BY <1>5, ExecDecides, ExecIsQuiet DEF Path, ExecStep
  <2>2. UNCHANGED <<fetchQ, fetchPc, fetchHalted>>
    BY <1>5 DEF Complete, ResolveBranch, front
  <2> QED BY <1>0, <2>1, <2>2, QuietKeepsPath
<1>6. CASE ExecDropped \/ Tick \/ Astray \/ EndExec
  <2>1. Quiet
    BY <1>6, ExecIsQuiet DEF ExecStep
  <2>2. UNCHANGED rob /\ UNCHANGED <<fetchQ, fetchPc, fetchHalted>>
    BY <1>6 DEF ExecDropped, Tick, Astray, EndExec, front, window
  <2> QED BY <1>1, <2>1, <2>2
<1>7. CASE Stop \/ Starting \/ EndIssue \/ EndRename \/ EndCycle \/ Deadlock
  <2>1. /\ UNCHANGED <<setup, rename, window>> /\ UNCHANGED <<fetchQ, fetchPc, fetchHalted>>
    BY <1>7 DEF Stop, Starting, StartCycle, EndIssue, EndRename, EndCycle, Deadlock, front
  <2>2. Quiet
    BY <2>1, SameIsQuiet DEF rename, window, Inv
  <2> QED BY <1>1, <2>1, <2>2 DEF window
<1> QED BY <1>2, <1>3, <1>4, <1>5, <1>6, <1>7, NextKinds, FetchKeepsPath, RenameKeepsPath,
           SquashKeepsPath, EndCommitKeepsPath DEF CommitStep, ExecStep, OtherStep

LEMMA PathHolds == Spec => [](TakenArePredicted(setup) => Path)
<1>1. Init => (TakenArePredicted(setup) => Path)
  BY InitPath
<1>2. ASSUME Inv, Inv', Orderly, TakenArePredicted(setup) => Path, [Next]_vars
      PROVE  (TakenArePredicted(setup) => Path)'
  <2>1. SUFFICES ASSUME TakenArePredicted(setup)' PROVE Path'
    OBVIOUS
  <2>2. setup' = setup
    BY <1>2, ShrinkKinds, FetchStepKinds DEF Still, Starting, StartCycle
  <2>3. TakenArePredicted(setup)
    BY <2>1, <2>2 DEF TakenArePredicted
  <2>4. ~Redirect
    BY <1>2, <2>3, PredictedKept DEF Orderly
  <2> QED BY <1>2, <2>3, <2>4, PathKept
<1> QED BY <1>1, <1>2, InvHolds, OrderlyHolds, PTL DEF Spec

CommittedMap ==
  \A m \in Tables : Mapped(m) => \A r \in Reg : CommittedReg(r) = m[head + 1][r]

LEMMA CommittedMapIs == Inv => CommittedMap
<1>1. ASSUME Inv, NEW m \in Tables, Mapped(m) PROVE \A r \in Reg : CommittedReg(r) = m[head + 1][r]
  <2>1. head + 1 \in Nat
    BY <1>1, EntryFacts DEF Inv
  <2>2. PICK c : c = m[head + 1]
    OBVIOUS
  <2>3. c \in [Reg -> Phys]
    BY <2>1, <2>2 DEF Tables
  <2> QED BY <1>1, <2>2, <2>3, CommittedIs
<1> QED BY <1>1 DEF CommittedMap

LEMMA CommittedMapNext ==
  ASSUME Inv'
  PROVE  CommittedMap'
<1>1. (Inv => CommittedMap)'
  BY CommittedMapIs, PTL
<1> QED BY <1>1

-----------------------------------------------------------------------------
(* The committed registers, step by step.                                  *)

\* The maps of the window, with c that of the committed registers.
Roles(m, c) ==
  /\ m \in Tables /\ c \in [Reg -> Phys] /\ c = m[head + 1]
  /\ Mapped(m) /\ Parted(c) /\ Delivered(c)

LEMMA RolesAre ==
  ASSUME Inv, Registers
  PROVE  \E m, c : Roles(m, c) /\ \A r \in Reg : CommittedReg(r) = c[r]
<1>1. PICK m \in Tables, c \in [Reg -> Phys] :
         c = m[head + 1] /\ Mapped(m) /\ Parted(c) /\ Delivered(c)
  BY DEF Registers
<1>2. \A r \in Reg : CommittedReg(r) = c[r]
  BY <1>1, CommittedIs
<1>3. Roles(m, c)
  BY <1>1 DEF Roles
<1> QED BY <1>2, <1>3

CommittedKept == \A r \in Reg : CommittedReg(r)' = CommittedReg(r)

LEMMA QuietCommitted ==
  ASSUME Inv, Inv', Registers, Quiet
  PROVE  CommittedKept
<1>1. PICK m, c : Roles(m, c) /\ \A r \in Reg : CommittedReg(r) = c[r]
  BY RolesAre
<1>2. /\ UNCHANGED <<setup, rat, head>> /\ Len(rob') = Len(rob)
      /\ Live' = Live /\ \A p \in Live : p \in 1 .. Len(rob)
      /\ \A p \in Live : InstrOf(p)' = InstrOf(p)
  BY EntryFacts, SoundKept DEF Quiet, Live, SameRoles, InstrOf, Inv
<1>3. \A p \in Live : SameRoles(rob'[p], rob[p])
  BY <1>2 DEF Quiet
<1>4. \A p \in Live : Renamed(InstrOf(p), rob'[p], m[p], m[p + 1])
  BY <1>1, <1>3, RenamedSame DEF Roles, Mapped
<1>5. Mapped(m)'
  BY <1>1, <1>2, <1>4 DEF Roles, Mapped
<1> QED BY <1>1, <1>2, <1>5, CommittedMapNext DEF CommittedMap, CommittedKept, Roles

LEMMA RenameCommitted ==
  ASSUME Inv, Inv', Registers, Rename
  PROVE  CommittedKept
<1>1. PICK m, c : Roles(m, c) /\ \A r \in Reg : CommittedReg(r) = c[r]
  BY RolesAre
<1>2. PICK e \in Sound, d \in Phys \cup {NoReg} :
           /\ CanRename /\ (d # NoReg <=> WritesRd(Incoming))
           /\ rob' = Append(rob, e) /\ e.pc = Head(fetchQ).pc /\ e.dst = d
           /\ e.srcs = Sources(Incoming)
           /\ WritesRd(Incoming) => e.prev = rat[Incoming.rd]
           /\ IsBranch(Incoming) => e.checkpoint = rat
           /\ rat' = IF d = NoReg THEN rat ELSE [rat EXCEPT ![Incoming.rd] = d]
  BY RenameShape
<1>3. UNCHANGED <<setup, head>> /\ Incoming \in Instr
  BY <1>2, IncomingFacts DEF Rename
<1>4. PICK p : p = Len(rob) + 1
  OBVIOUS
<1>5. /\ Len(rob') = p /\ rob'[p] = e
      /\ \A k \in 1 .. Len(rob) : rob'[k] = rob[k]
      /\ Live' = Live \cup {p} /\ p \notin Live
      /\ \A k \in Live : k \in 1 .. Len(rob) /\ k < p /\ InstrOf(k)' = InstrOf(k)
      /\ InstrOf(p)' = InstrAt(e.pc)
  BY <1>2, <1>3, <1>4, GrownBuffer
<1>6. InstrOf(p)' = Incoming /\ \A k \in Live : rob'[k] = rob[k]
  BY <1>2, <1>5 DEF Incoming
<1>7. rat \in [Reg -> Phys] /\ rat' \in [Reg -> Phys] /\ Incoming.rd \in Reg
  BY <1>2, <1>3, ReadsType DEF Inv, FileOK
<1>8. p \in Nat /\ head \in Nat /\ head < p /\ Len(rob) \in Nat
  BY <1>4, EntryFacts DEF Inv
<1>9. PICK t : t = [k \in Nat |-> IF k = p + 1 THEN rat' ELSE m[k]]
  OBVIOUS
<1>10. t \in Tables /\ t[p + 1] = rat' /\ t[p] = rat /\ t[head + 1] = c
       /\ \A k \in Live : t[k] = m[k] /\ t[k + 1] = m[k + 1]
  <2>1. p + 1 \in Nat /\ p # p + 1 /\ head + 1 # p + 1 /\ head + 1 \in Nat
    BY <1>8
  <2>2. \A k \in Live : k \in Nat /\ k + 1 \in Nat /\ k # p + 1 /\ k + 1 # p + 1
    BY <1>5, <1>8
  <2>3. m[p] = rat
    BY <1>1, <1>4 DEF Roles, Mapped
  <2>4. t \in Tables
    BY <1>1, <1>7, <1>9 DEF Roles, Tables
  <2>5. \A k \in Nat : t[k] = IF k = p + 1 THEN rat' ELSE m[k]
    BY <1>9
  <2> QED BY <1>1, <1>8, <2>1, <2>2, <2>3, <2>4, <2>5 DEF Roles
<1>11. Mapped(t)'
  <2>1. \A k \in Live : Renamed(InstrOf(k)', rob'[k], t[k], t[k + 1])
    BY <1>1, <1>5, <1>6, <1>10 DEF Roles, Mapped
  <2>2. \A j \in 1 .. Len(e.srcs) : e.srcs[j] = t[p][Reads(Incoming)[j]]
    BY <1>2, <1>3, <1>7, <1>10, SourcesType
  <2>3. Renamed(Incoming, e, t[p], t[p + 1])
    BY <1>2, <1>10, <2>2 DEF Renamed
  <2>4. t[Len(rob') + 1] = rat'
    BY <1>5, <1>10
  <2>5. \A k \in Live' : Renamed(InstrOf(k)', rob'[k], t[k], t[k + 1])
    BY <1>5, <1>6, <2>1, <2>3
  <2> QED BY <2>4, <2>5 DEF Mapped
<1> QED BY <1>1, <1>3, <1>10, <1>11, CommittedMapNext DEF CommittedMap, CommittedKept

LEMMA RetireCommitted ==
  ASSUME Inv, Inv', Registers, Retire
  PROVE  \A r \in Reg : CommittedReg(r)' =
           IF WritesRd(OldestInstr) /\ OldestInstr.rd = r THEN Oldest.dst ELSE CommittedReg(r)
<1>1. PICK m, c : Roles(m, c) /\ \A r \in Reg : CommittedReg(r) = c[r]
  BY RolesAre
<1>2. PICK p \in Live : /\ p = head + 1 /\ head' = p /\ Live' = Live \ {p}
                        /\ Oldest = rob[p] /\ OldestInstr = InstrOf(p)
                        /\ UNCHANGED <<setup, rob, rat>>
                        /\ \A k : InstrOf(k)' = InstrOf(k)
  BY RetireShape
<1>3. Mapped(m)'
  BY <1>1, <1>2 DEF Roles, Mapped
<1>4. \A r \in Reg : CommittedReg(r)' = m[p + 1][r]
  BY <1>1, <1>2, <1>3, CommittedMapNext DEF CommittedMap, Roles
<1>5. Renamed(OldestInstr, Oldest, c, m[p + 1])
  BY <1>1, <1>2 DEF Roles, Mapped
<1>6. c \in [Reg -> Phys]
  BY <1>1 DEF Roles
<1>7. \A r \in Reg : m[p + 1][r] = IF WritesRd(OldestInstr) /\ OldestInstr.rd = r
                                   THEN Oldest.dst ELSE c[r]
  BY <1>5, <1>6 DEF Renamed
<1> QED BY <1>1, <1>4, <1>7

LEMMA SquashCommitted ==
  ASSUME Inv, Inv', Registers, Squash
  PROVE  CommittedKept
<1>1. PICK m, c : Roles(m, c) /\ \A r \in Reg : CommittedReg(r) = c[r]
  BY RolesAre
<1>2. PICK p \in 1 .. Len(rob) :
           /\ p = head + 1 /\ p \in Live /\ head' = p /\ Len(rob') = p /\ Live' = {}
           /\ IsBranch(InstrOf(p)) /\ rat' = rob[p].checkpoint
  BY SquashShape
<1>3. Renamed(InstrOf(p), rob[p], c, m[p + 1])
  BY <1>1, <1>2 DEF Roles, Mapped
<1>4. rat' = c /\ m[p + 1] = c
  BY <1>2, <1>3, BranchWritesNothing DEF Renamed
<1>5. Mapped(m)'
  BY <1>2, <1>4 DEF Mapped
<1> QED BY <1>1, <1>2, <1>4, <1>5, CommittedMapNext DEF CommittedMap, CommittedKept, Roles

LEMMA EndCommitCommitted ==
  ASSUME Inv, Inv', Registers, EndCommit
  PROVE  CommittedKept
<1>1. PICK m, c : Roles(m, c) /\ \A r \in Reg : CommittedReg(r) = c[r]
  BY RolesAre
<1>2. PICK n \in Nat : Shifted(n)
  BY EndCommitShape
<1>3. rat' = rat
  BY EndCommitShape
<1>4. PICK t : t = [k \in Nat |-> m[k + n]]
  OBVIOUS
<1>5. t \in Tables /\ \A k \in Nat : t[k] = m[k + n]
  <2>1. \A k \in Nat : k + n \in Nat
    OBVIOUS
  <2> QED BY <1>1, <1>4, <2>1 DEF Roles, Tables
<1>6. /\ head' \in Nat /\ head' = head - n /\ Len(rob') = Len(rob) - n /\ Len(rob') \in Nat
      /\ head \in Nat /\ Len(rob) \in Nat
      /\ \A k \in Live' : /\ k \in Nat /\ k + n \in Live
                          /\ rob'[k] = rob[k + n] /\ InstrOf(k)' = InstrOf(k + n)
  BY <1>2, EntryFacts DEF Shifted, Inv
<1>7. t[head' + 1] = c /\ t[Len(rob') + 1] = rat'
  <2>1. head' + 1 \in Nat /\ (head' + 1) + n = head + 1
    BY <1>6
  <2>2. Len(rob') + 1 \in Nat /\ (Len(rob') + 1) + n = Len(rob) + 1
    BY <1>6
  <2>3. c = m[head + 1] /\ rat = m[Len(rob) + 1]
    BY <1>1 DEF Roles, Mapped
  <2>4. t[head' + 1] = m[(head' + 1) + n] /\ t[Len(rob') + 1] = m[(Len(rob') + 1) + n]
    BY <1>5, <2>1, <2>2
  <2> QED BY <1>3, <2>1, <2>2, <2>3, <2>4
<1>8. Mapped(t)'
  <2>1. ASSUME NEW k \in Live' PROVE Renamed(InstrOf(k)', rob'[k], t[k], t[k + 1])
    <3>1. k \in Nat /\ k + n \in Live /\ rob'[k] = rob[k + n] /\ InstrOf(k)' = InstrOf(k + n)
      BY <1>6
    <3>2. k + 1 \in Nat /\ (k + 1) + n = (k + n) + 1
      BY <3>1
    <3>3. t[k] = m[k + n] /\ t[k + 1] = m[(k + n) + 1]
      BY <1>5, <3>1, <3>2
    <3>4. Renamed(InstrOf(k + n), rob[k + n], m[k + n], m[(k + n) + 1])
      BY <1>1, <3>1 DEF Roles, Mapped
    <3> QED BY <3>1, <3>3, <3>4
  <2> QED BY <1>7, <2>1 DEF Mapped
<1> QED BY <1>1, <1>5, <1>7, <1>8, CommittedMapNext DEF CommittedMap, CommittedKept

-----------------------------------------------------------------------------
(* What the entries hold.                                                  *)

\* The older stores that may write the word the load at p reads.
Stores(p) ==
  {k \in Live : k < p /\ InstrOf(k).op = "STORE" /\ MayMatch(InstrOf(k), InstrOf(p))}

\* The older stores have issued; the load has the datum of the one to its word, or what
\* memory holds.
LoadRight(p) ==
  /\ \A k \in Stores(p) : k \notin rs /\ (rob[k].addr = AddressOf(p) => rob[p].val = rob[k].val)
  /\ (\A k \in Stores(p) : rob[k].addr # AddressOf(p)) => rob[p].val = mem[AddressOf(p)]

\* What an entry holds once it has issued.
Right(p) ==
  /\ \A k \in 1 .. Len(rob[p].srcs) : physReady[rob[p].srcs[k]]
  /\ WritesRd(InstrOf(p)) /\ InstrOf(p).op # "LOAD" =>
       rob[p].val = Value(InstrOf(p), Operand(p, 1), Operand(p, 2))
  /\ InstrOf(p).op = "LOAD" => LoadRight(p)
  /\ InstrOf(p).op = "STORE" => rob[p].addr = AddressOf(p) /\ rob[p].val = Operand(p, 2)
  /\ IsBranch(InstrOf(p)) => /\ rob[p].operands[1] = Operand(p, 1)
                             /\ rob[p].operands[2] = Operand(p, 2)

Issues(i) == ~IsHalt(i) /\ i.op # "FENCE"

CommittedRight == \A r \in Reg : physVal[CommittedReg(r)] = regs[r]
IssuedRight    == \A p \in Live \ rs : Issues(InstrOf(p)) => Right(p)
Unissued       == \A p \in rs : InstrOf(p).op = "STORE" => rob[p].addr = NoReg
Results        == \A p \in Owners : /\ rob[p].done => physVal[rob[p].dst] = rob[p].val
                                    /\ ~rob[p].done => ~physReady[rob[p].dst]

Values == CommittedRight /\ IssuedRight /\ Unissued /\ Results

\* A source is a committed register or the result of an older entry.
LEMMA SourceFacts ==
  ASSUME Inv, NEW m, NEW c, Roles(m, c), NEW p \in Live, NEW j \in 1 .. Len(rob[p].srcs)
  PROVE  /\ rob[p].srcs[j] \in Phys /\ Reads(InstrOf(p))[j] \in Reg
         /\ j \in 1 .. Len(Reads(InstrOf(p)))
         /\ \/ rob[p].srcs[j] = c[Reads(InstrOf(p))[j]]
            \/ /\ rob[p].srcs[j] \in Held
               /\ Writers(Reads(InstrOf(p))[j]) # {}
         /\ p = head + 1 => rob[p].srcs[j] = c[Reads(InstrOf(p))[j]]
<1>1. /\ rob[p] \in Entry /\ Fits(rob[p]) /\ InstrOf(p) \in Instr
      /\ head \in Nat /\ Len(rob) \in Nat
  BY EntryFacts DEF Inv
<1>2. p \in head + 1 .. Len(rob) + 1
  BY <1>1 DEF Live
<1>3. rob[p].srcs \in Seq(Phys) /\ Len(rob[p].srcs) = Len(Reads(InstrOf(p)))
  BY <1>1 DEF Entry, Fits, InstrOf
<1>4. Reads(InstrOf(p)) \in Seq(Reg)
  BY <1>1, ReadsType
<1>5. PICK r \in Reg : r = Reads(InstrOf(p))[j]
  BY <1>3, <1>4, ElementOfSeq
<1>6. rob[p].srcs[j] = m[p][r]
  BY <1>5 DEF Roles, Mapped, Renamed
<1>7. Origin(m, p, r) /\ c = m[head + 1]
  BY <1>2, OriginHolds DEF Roles
<1>8. m[p][r] = c[r] \/ (m[p][r] \in Held /\ Writers(r) # {})
  <2>1. CASE m[p][r] = c[r]
    BY <2>1
  <2>2. CASE m[p][r] # c[r]
    <3>1. PICK k \in Writers(r) : rob[k].dst = m[p][r]
      BY <1>7, <2>2 DEF Origin
    <3>2. m[p][r] \in Held
      BY <3>1, WritersOwn DEF Held
    <3> QED BY <3>1, <3>2
  <2> QED BY <2>1, <2>2
<1>9. rob[p].srcs[j] \in Phys
  BY <1>3, ElementOfSeq
<1> QED BY <1>3, <1>5, <1>6, <1>7, <1>8, <1>9

LEMMA SourceNotFree ==
  ASSUME Inv, NEW m, NEW c, Roles(m, c), NEW p \in Live, NEW j \in 1 .. Len(rob[p].srcs)
  PROVE  rob[p].srcs[j] \notin Range(free)
<1>1. \/ \E r \in Reg : rob[p].srcs[j] = c[r]
      \/ rob[p].srcs[j] \in Held
  BY SourceFacts
<1> HIDE DEF Range
<1> QED BY <1>1 DEF Roles, Parted

\* Register 0 is never written: what reads it reads 0.
LEMMA ZeroSource ==
  ASSUME Inv, NEW m, NEW c, Roles(m, c), CommittedRight, NEW p \in Live,
         NEW j \in 1 .. Len(rob[p].srcs), Reads(InstrOf(p))[j] = 0
  PROVE  physVal[rob[p].srcs[j]] = 0
<1>1. Writers(0) = {}
  <2>1. ASSUME NEW k \in Writers(0) PROVE FALSE
    <3>1. k \in Live /\ WritesRd(InstrOf(k)) /\ InstrOf(k).rd = 0
      BY DEF Writers
    <3> QED BY <3>1, EntryFacts, ReadsType DEF Inv
  <2> QED BY <2>1
<1>2. rob[p].srcs[j] = c[0] /\ 0 \in Reg
  BY <1>1, SourceFacts
<1>3. CommittedReg(0) = c[0]
  BY <1>2, CommittedIs DEF Roles
<1> QED BY <1>2, <1>3 DEF CommittedRight, Inv, ArchOK

\* The oldest entry reads committed registers.
LEMMA OldestReads ==
  ASSUME Inv, NEW m, NEW c, Roles(m, c), CommittedRight, NEW p \in Live, p = head + 1,
         NEW j \in 1 .. Len(rob[p].srcs)
  PROVE  Operand(p, j) = regs[Reads(InstrOf(p))[j]]
<1>1. rob[p].srcs[j] = c[Reads(InstrOf(p))[j]] /\ Reads(InstrOf(p))[j] \in Reg
  BY SourceFacts
<1>2. CommittedReg(Reads(InstrOf(p))[j]) = c[Reads(InstrOf(p))[j]]
  BY <1>1, CommittedIs DEF Roles
<1>3. rob[p].srcs \in Seq(Phys)
  BY EntryFacts DEF Inv, Entry
<1>4. j \in DOMAIN rob[p].srcs
  BY <1>3
<1> QED BY <1>1, <1>2, <1>4 DEF CommittedRight, Operand

LEMMA OperandsKept ==
  ASSUME NEW p, NEW q, setup' = setup, rob'[p].pc = rob[q].pc, rob'[p].srcs = rob[q].srcs,
         \A k \in DOMAIN rob[q].srcs : physVal'[rob[q].srcs[k]] = physVal[rob[q].srcs[k]]
  PROVE  /\ InstrOf(p)' = InstrOf(q) /\ AddressOf(p)' = AddressOf(q)
         /\ \A k : Operand(p, k)' = Operand(q, k)
<1>1. InstrOf(p)' = InstrOf(q)
  BY SoundKept DEF InstrOf
<1>2. \A k : Operand(p, k)' = Operand(q, k)
  BY DEF Operand
<1> QED BY <1>1, <1>2 DEF AddressOf

LEMMA LoadKept ==
  ASSUME NEW p, NEW q, LoadRight(q), AddressOf(p)' = AddressOf(q), rob'[p].val = rob[q].val,
         mem' = mem,
         \A k \in Stores(p)' : \E j \in Stores(q) :
            /\ rob'[k].addr = rob[j].addr /\ rob'[k].val = rob[j].val
            /\ j \notin rs => k \notin rs',
         \A j \in Stores(q) : \E k \in Stores(p)' : rob'[k].addr = rob[j].addr
  PROVE  LoadRight(p)'
<1>1. PICK a : a = AddressOf(q)
  OBVIOUS
<1>2. /\ \A k \in Stores(q) : k \notin rs /\ (rob[k].addr = a => rob[q].val = rob[k].val)
      /\ (\A k \in Stores(q) : rob[k].addr # a) => rob[q].val = mem[a]
  BY <1>1 DEF LoadRight
<1>3. \A k \in Stores(p)' : k \notin rs' /\ (rob'[k].addr = a => rob'[p].val = rob'[k].val)
  BY <1>2
<1>4. (\A k \in Stores(p)' : rob'[k].addr # a) => rob'[p].val = mem'[a]
  BY <1>2
<1> QED BY <1>1, <1>3, <1>4 DEF LoadRight

LEMMA RightKept ==
  ASSUME NEW p, NEW q, Right(q), setup' = setup, rob[q].srcs \in Seq(Phys),
         rob'[p].pc = rob[q].pc, rob'[p].srcs = rob[q].srcs, rob'[p].val = rob[q].val,
         rob'[p].addr = rob[q].addr, rob'[p].operands = rob[q].operands,
         \A k \in 1 .. Len(rob[q].srcs) :
            physReady[rob[q].srcs[k]] =>
              /\ physReady'[rob[q].srcs[k]]
              /\ physVal'[rob[q].srcs[k]] = physVal[rob[q].srcs[k]],
         InstrOf(q).op = "LOAD" /\ LoadRight(q) /\ AddressOf(p)' = AddressOf(q) => LoadRight(p)'
  PROVE  Right(p)'
<1>1. DOMAIN rob[q].srcs = 1 .. Len(rob[q].srcs)
  OBVIOUS
<1>2. \A k \in 1 .. Len(rob[q].srcs) : physReady[rob[q].srcs[k]]
  BY DEF Right
<1>3. /\ InstrOf(p)' = InstrOf(q) /\ AddressOf(p)' = AddressOf(q)
      /\ \A k : Operand(p, k)' = Operand(q, k)
  BY <1>1, <1>2, OperandsKept
<1>4. InstrOf(q).op = "LOAD" => LoadRight(p)'
  BY <1>3 DEF Right
<1> QED BY <1>2, <1>3, <1>4 DEF Right

-----------------------------------------------------------------------------
(* One entry issues, or finishes.                                          *)

\* The result of the entry goes to its register once it is done.
Delivers(e) ==
  IF e.done /\ e.dst # NoReg
    THEN /\ physVal' = [physVal EXCEPT ![e.dst] = e.val]
         /\ physReady' = [physReady EXCEPT ![e.dst] = TRUE]
    ELSE UNCHANGED <<physVal, physReady>>

\* The entry at q becomes e: it leaves the station, or had issued and keeps its data.
Rewrites(q, e) ==
  /\ rob' = [rob EXCEPT ![q] = e] /\ SameRoles(e, rob[q]) /\ ~rob[q].done
  /\ UNCHANGED <<setup, head, rat, free, pendingFree, regs, mem>>
  /\ rs' = rs \ {q} /\ Delivers(e)
  /\ \/ q \in rs
     \/ IsBranch(InstrOf(q))
     \/ e.val = rob[q].val /\ e.addr = rob[q].addr

LEMMA RewriteFacts ==
  ASSUME Inv, NEW q \in Live, NEW e \in Sound, Rewrites(q, e)
  PROVE  /\ Live' = Live /\ rob'[q] = e /\ InstrOf(q)' = InstrOf(q)
         /\ \A p \in Live : p # q => rob'[p] = rob[p]
         /\ \A p \in Live : InstrOf(p)' = InstrOf(p) /\ SameRoles(rob'[p], rob[p])
         /\ Owners' = Owners
         /\ \A p \in Live : Stores(p)' = Stores(p)
<1>1. q \in 1 .. Len(rob) /\ \A p \in Live : p \in 1 .. Len(rob)
  BY EntryFacts DEF Inv
<1>2. /\ Len(rob') = Len(rob)
      /\ \A k \in 1 .. Len(rob) : rob'[k] = IF k = q THEN e ELSE rob[k]
  BY <1>1, Rewritten DEF Inv, Rewrites
<1>3. Live' = Live
  BY <1>2 DEF Rewrites, Live
<1>4. SameRoles(e, rob[q]) /\ setup' = setup
  BY DEF Rewrites
<1>5. \A p \in Live : SameRoles(rob'[p], rob[p])
  BY <1>1, <1>2, <1>4 DEF SameRoles
<1>6. \A p \in Live : InstrOf(p)' = InstrOf(p)
  BY <1>4, <1>5, SoundKept DEF InstrOf, SameRoles
<1>7. Owners' = Owners
  BY <1>3, <1>5 DEF Owners, SameRoles
<1>8. \A p \in Live : Stores(p)' = Stores(p)
  BY <1>3, <1>6 DEF Stores
<1> QED BY <1>1, <1>2, <1>3, <1>5, <1>6, <1>7, <1>8

\* What is ready stays as it is: the register written was not ready.
LEMMA RewriteReady ==
  ASSUME Inv, NEW q \in Live, NEW e \in Sound, Rewrites(q, e), Results
  PROVE  \A d \in Phys : physReady[d] => physReady'[d] /\ physVal'[d] = physVal[d]
<1>1. e.dst = rob[q].dst /\ ~rob[q].done
  BY DEF Rewrites, SameRoles
<1>2. e.dst # NoReg => ~physReady[e.dst]
  <2>1. e.dst # NoReg => q \in Owners
    BY <1>1 DEF Owners
  <2> QED BY <1>1, <2>1 DEF Results
<1>3. physReady \in [Phys -> BOOLEAN] /\ physVal \in [Phys -> Word]
  BY DEF Inv, FileOK
<1>4. Delivers(e)
  BY DEF Rewrites
<1>5. CASE e.done /\ e.dst # NoReg
  BY <1>2, <1>3, <1>4, <1>5 DEF Delivers
<1>6. CASE ~(e.done /\ e.dst # NoReg)
  BY <1>4, <1>6 DEF Delivers
<1> QED BY <1>5, <1>6

LEMMA RewriteQuiet ==
  ASSUME Inv, NEW q \in Live, NEW e \in Sound, Rewrites(q, e), Results
  PROVE  Quiet
<1>1. q \in 1 .. Len(rob)
  BY EntryFacts DEF Inv
<1>2. \A d \in Phys : physReady[d] => physReady'[d]
  BY RewriteReady
<1>3. e.done /\ rob[q].dst # NoReg => rob[q].done \/ physReady'[rob[q].dst]
  <2>1. SUFFICES ASSUME e.done, rob[q].dst # NoReg PROVE physReady'[rob[q].dst]
    OBVIOUS
  <2>2. e.dst = rob[q].dst /\ e.dst \in Phys
    BY <1>1, <2>1, EntryFacts DEF Rewrites, SameRoles, Inv, Entry
  <2> QED BY <2>1, <2>2 DEF Rewrites, Delivers, Inv, FileOK
<1> QED BY <1>1, <1>2, <1>3, RewriteIsQuiet DEF Rewrites

\* The entries that had issued keep to what they hold.
LEMMA RewriteOthers ==
  ASSUME Inv, NEW m, NEW c, Roles(m, c), NEW q \in Live, NEW e \in Sound, Rewrites(q, e), Values,
         NEW p \in Live, p \notin rs, p # q, Issues(InstrOf(p))
  PROVE  Right(p)'
<1>1. /\ Live' = Live /\ rob'[p] = rob[p] /\ Stores(p)' = Stores(p)
      /\ \A k \in Live : k # q => rob'[k] = rob[k]
      /\ rob'[q] = e
  BY RewriteFacts
<1>2. Right(p)
  BY DEF Values, IssuedRight
<1>3. rob[p].srcs \in Seq(Phys)
  BY EntryFacts DEF Inv, Entry
<1>4. \A k \in 1 .. Len(rob[p].srcs) :
        physReady[rob[p].srcs[k]] =>
          physReady'[rob[p].srcs[k]] /\ physVal'[rob[p].srcs[k]] = physVal[rob[p].srcs[k]]
  BY <1>3, RewriteReady, ElementOfSeq DEF Values
<1>5. setup' = setup /\ mem' = mem /\ rs' = rs \ {q}
  BY DEF Rewrites
<1>6. ASSUME LoadRight(p), AddressOf(p)' = AddressOf(p) PROVE LoadRight(p)'
  <2>1. ASSUME NEW k \in Stores(p)
        PROVE  rob'[k].addr = rob[k].addr /\ rob'[k].val = rob[k].val /\ k \notin rs'
    <3>1. k \in Live /\ k \notin rs /\ InstrOf(k).op = "STORE"
      BY <1>6 DEF LoadRight, Stores
    <3>2. CASE k # q
      BY <1>1, <1>5, <3>1, <3>2
    <3>3. CASE k = q
      <4>1. ~IsBranch(InstrOf(q))
        BY <3>1, <3>3 DEF IsBranch, Micro!IsBranch, Micro!BranchOps
      <4> QED BY <1>1, <1>5, <3>1, <3>3, <4>1 DEF Rewrites
    <3> QED BY <3>2, <3>3
  <2> QED BY <1>1, <1>5, <1>6, <2>1, LoadKept
<1> QED BY <1>1, <1>2, <1>3, <1>4, <1>5, <1>6, RightKept

LEMMA RewriteValues ==
  ASSUME Inv, Inv', Registers, NEW q \in Live, NEW e \in Sound, Rewrites(q, e), Values,
         Issues(InstrOf(q)) => Right(q)'
  PROVE  Values'
<1>1. PICK m, c : Roles(m, c) /\ \A r \in Reg : CommittedReg(r) = c[r]
  BY RolesAre
<1>2. /\ Live' = Live /\ rob'[q] = e /\ Owners' = Owners
      /\ \A k \in Live : k # q => rob'[k] = rob[k]
      /\ \A k \in Live : InstrOf(k)' = InstrOf(k) /\ SameRoles(rob'[k], rob[k])
  BY RewriteFacts
<1>3. /\ rs' = rs \ {q} /\ regs' = regs /\ Delivers(e) /\ e.dst = rob[q].dst /\ ~rob[q].done
  BY DEF Rewrites, SameRoles
<1>4. physReady \in [Phys -> BOOLEAN] /\ physVal \in [Phys -> Word]
  BY DEF Inv, FileOK
<1>5. \A d \in Phys : d # e.dst => physVal'[d] = physVal[d] /\ physReady'[d] = physReady[d]
  BY <1>3, <1>4 DEF Delivers
<1>6. CommittedRight'
  <2>1. CommittedKept
    BY RewriteQuiet, QuietCommitted DEF Values
  <2>2. ASSUME NEW r \in Reg PROVE physVal'[c[r]] = regs[r]
    <3>1. c[r] \in Phys /\ c[r] \notin Held /\ c[r] # NoReg
      BY <1>1, PhysFacts DEF Roles, Parted
    <3>2. c[r] # e.dst
      BY <1>3, <3>1 DEF Held, Owners
    <3> QED BY <1>1, <1>5, <3>1, <3>2 DEF Values, CommittedRight
  <2> QED BY <1>1, <1>3, <2>1, <2>2 DEF CommittedKept, CommittedRight
<1>7. IssuedRight'
  <2>1. ASSUME NEW p \in Live, p \notin rs', Issues(InstrOf(p)') PROVE Right(p)'
    <3>1. Issues(InstrOf(p))
      BY <1>2, <2>1
    <3>2. CASE p = q
      BY <3>1, <3>2
    <3>3. CASE p # q
      BY <1>1, <1>3, <2>1, <3>1, <3>3, RewriteOthers
    <3> QED BY <3>2, <3>3
  <2> QED BY <1>2, <2>1 DEF IssuedRight
<1>8. Unissued'
  <2>1. \A p \in rs' : p \in rs /\ p \in Live /\ p # q
    BY <1>3 DEF Inv, WaitingOK
  <2> QED BY <1>2, <2>1 DEF Values, Unissued
<1>9. Results'
  <2>1. ASSUME NEW p \in Owners, p = q
        PROVE  /\ rob'[p].done => physVal'[rob'[p].dst] = rob'[p].val
               /\ ~rob'[p].done => ~physReady'[rob'[p].dst]
    <3>1. e.dst \in Phys /\ e.dst # NoReg
      BY <1>3, <2>1, OwnerFacts DEF Owners
    <3>2. ~physReady[e.dst]
      BY <1>3, <2>1 DEF Values, Results
    <3>3. CASE e.done
      BY <1>2, <1>3, <1>4, <2>1, <3>1, <3>3 DEF Delivers
    <3>4. CASE ~e.done
      BY <1>2, <1>3, <2>1, <3>2, <3>4 DEF Delivers
    <3> QED BY <3>3, <3>4
  <2>2. ASSUME NEW p \in Owners, p # q
        PROVE  /\ rob'[p].done => physVal'[rob'[p].dst] = rob'[p].val
               /\ ~rob'[p].done => ~physReady'[rob'[p].dst]
    <3>1. p \in Live /\ rob'[p] = rob[p] /\ rob[p].dst \in Phys /\ rob[p].dst # NoReg
      BY <1>2, <2>2, OwnerFacts DEF Owners
    <3>2. rob[p].dst # e.dst
      <4>1. rob[p].dst = e.dst => q \in Owners
        BY <1>3, <3>1 DEF Owners
      <4> QED BY <1>1, <1>3, <2>2, <4>1 DEF Roles, Parted
    <3> QED BY <1>5, <3>1, <3>2 DEF Values, Results
  <2> QED BY <1>2, <2>1, <2>2 DEF Results
<1> QED BY <1>6, <1>7, <1>8, <1>9 DEF Values

LEMMA ExactInstr ==
  ASSUME Inv, Exact(setup), NEW p \in Live
  PROVE  /\ rob[p].pc + 1 \in DOMAIN prog /\ InstrOf(p) = prog[rob[p].pc + 1]
         /\ rob[p].pc \in Int /\ OneStorePerLoad(prog)
         /\ InstrOf(p).op = "LOAD" => WritesRd(InstrOf(p))
<1>1. rob[p].pc \in 0 .. Len(prog) - 1
  BY EntryFacts DEF Inv
<1>2. rob[p].pc + 1 \in DOMAIN prog /\ InstrOf(p) = prog[rob[p].pc + 1]
  BY <1>1, SetupFacts DEF Inv, InstrOf, InstrAt
<1>3. InstrOf(p).op = "LOAD" => InstrOf(p).rd # 0
  BY <1>2 DEF Exact, prog
<1>4. InstrOf(p).op = "LOAD" => WritesRd(InstrOf(p))
  BY <1>3 DEF WritesRd, Micro!Writes
<1> QED BY <1>1, <1>2, <1>4 DEF Exact, prog

LEMMA CompleteValues ==
  ASSUME Inv, Inv', Registers, Values, Exact(setup), Complete
  PROVE  Values'
<1>1. PICK q : q = Current.pos
  OBVIOUS
<1>2. PICK f : f = rob[q]
  OBVIOUS
<1>3. PICK d : d = ResultReg(f)
  OBVIOUS
<1>4. PICK e : e = [f EXCEPT !.done = TRUE]
  OBVIOUS
<1>5. /\ Finishing /\ rob' = [rob EXCEPT ![q] = e]
      /\ physVal' = IF d = NoReg THEN physVal ELSE [physVal EXCEPT ![d] = f.val]
      /\ physReady' = IF d = NoReg THEN physReady ELSE [physReady EXCEPT ![d] = TRUE]
      /\ UNCHANGED <<setup, rat, free, pendingFree, head, rs, regs, mem>>
      /\ ~IsBranch(InstrOf(q))
  BY <1>1, <1>2, <1>3, <1>4 DEF Complete, arch
<1>6. /\ q \in Live /\ q \in 1 .. Len(rob) /\ f \in Sound /\ f \in Entry /\ Fits(f)
      /\ ~f.done /\ q \notin rs
  BY <1>1, <1>2, <1>5, FinishingFacts
<1>7. /\ e \in Sound /\ SameRoles(e, f) /\ e.done /\ e.val = f.val /\ e.addr = f.addr
      /\ e.operands = f.operands /\ e.dst = f.dst /\ e.pc = f.pc /\ e.srcs = f.srcs
  BY <1>4, <1>6, DoneIsSound DEF Entry
<1>8. d = f.dst
  <2>1. InstrOf(q) = InstrAt(f.pc)
    BY <1>2 DEF InstrOf
  <2>2. InstrAt(f.pc).op = "LOAD" => f.dst # NoReg
    BY <1>6, <2>1, ExactInstr DEF Fits
  <2> QED BY <1>3, <2>2 DEF ResultReg
<1>9. Delivers(e)
  BY <1>5, <1>7, <1>8 DEF Delivers
<1>10. rs' = rs \ {q}
  BY <1>5, <1>6
<1>11. Rewrites(q, e)
  BY <1>2, <1>5, <1>6, <1>7, <1>9, <1>10 DEF Rewrites
<1>12. ASSUME Issues(InstrOf(q)) PROVE Right(q)'
  <2>1. Right(q)
    BY <1>6, <1>12 DEF Values, IssuedRight
  <2>2. f.srcs \in Seq(Phys)
    BY <1>6 DEF Entry
  <2>3. \A k \in 1 .. Len(f.srcs) :
          physReady[f.srcs[k]] =>
            physReady'[f.srcs[k]] /\ physVal'[f.srcs[k]] = physVal[f.srcs[k]]
    BY <1>6, <1>7, <1>11, <2>2, RewriteReady, ElementOfSeq DEF Values
  <2>4. /\ rob'[q] = e /\ Stores(q)' = Stores(q)
        /\ \A k \in Live : k # q => rob'[k] = rob[k]
    BY <1>6, <1>7, <1>11, RewriteFacts
  <2>5. ASSUME LoadRight(q), AddressOf(q)' = AddressOf(q) PROVE LoadRight(q)'
    <3>1. \A k \in Stores(q) : k \in Live /\ k # q
      BY <1>6, EntryFacts DEF Stores, Inv
    <3>2. \A k \in Stores(q) : rob'[k] = rob[k]
      BY <2>4, <3>1
    <3>3. rob'[q].val = rob[q].val
      BY <1>2, <1>7, <2>4
    <3> QED BY <1>5, <2>4, <2>5, <3>2, <3>3, LoadKept
  <2>6. /\ rob'[q].pc = rob[q].pc /\ rob'[q].srcs = rob[q].srcs /\ rob'[q].val = rob[q].val
        /\ rob'[q].addr = rob[q].addr /\ rob'[q].operands = rob[q].operands
        /\ rob[q].srcs \in Seq(Phys)
    BY <1>2, <1>7, <2>2, <2>4
  <2> QED BY <1>2, <1>5, <2>1, <2>3, <2>5, <2>6, RightKept
<1> QED BY <1>6, <1>7, <1>11, <1>12, RewriteValues

LEMMA IssueRewrites ==
  ASSUME Inv, NEW e \in Sound, IssueForm(e), Delivers(e)
  PROVE  Rewrites(Chosen, e) /\ Chosen \in Live /\ Chosen \in rs /\ SourcesReady(Chosen)
<1>1. PICK q : q = Chosen
  OBVIOUS
<1>2. /\ CanIssue /\ LeaveRs(q) /\ rob' = [rob EXCEPT ![q] = e] /\ SameRoles(e, rob[q])
  BY <1>1 DEF IssueForm
<1>3. q \in rs /\ q \in Live /\ ~rob[q].done /\ Issuable(q)
  BY <1>1, <1>2, ChosenFacts
<1>4. UNCHANGED <<setup, head, rat, free, pendingFree, regs, mem>> /\ rs' = rs \ {q}
  BY <1>2 DEF LeaveRs, arch
<1>5. Rewrites(q, e)
  BY <1>2, <1>3, <1>4 DEF Rewrites
<1> QED BY <1>1, <1>3, <1>5 DEF Issuable

\* What has been read when the entry issues stays.
LEMMA IssuedOperands ==
  ASSUME Inv, NEW q \in Live, NEW e \in Sound, Rewrites(q, e), Results,
         \A k \in 1 .. Len(rob[q].srcs) : physReady[rob[q].srcs[k]]
  PROVE  /\ InstrOf(q)' = InstrOf(q) /\ AddressOf(q)' = AddressOf(q)
         /\ \A k : Operand(q, k)' = Operand(q, k)
         /\ \A k \in 1 .. Len(rob'[q].srcs) : physReady'[rob'[q].srcs[k]]
<1>1. rob'[q].pc = rob[q].pc /\ rob'[q].srcs = rob[q].srcs /\ setup' = setup
  BY RewriteFacts DEF SameRoles, Rewrites
<1>2. rob[q].srcs \in Seq(Phys)
  BY EntryFacts DEF Inv, Entry
<1>3. \A k \in 1 .. Len(rob[q].srcs) :
         /\ physReady'[rob[q].srcs[k]]
         /\ physVal'[rob[q].srcs[k]] = physVal[rob[q].srcs[k]]
  BY <1>2, RewriteReady, ElementOfSeq
<1>4. DOMAIN rob[q].srcs = 1 .. Len(rob[q].srcs)
  BY <1>2
<1> QED BY <1>1, <1>3, <1>4, OperandsKept

LEMMA ReadySources ==
  ASSUME Inv, NEW q \in Live, SourcesReady(q)
  PROVE  \A k \in 1 .. Len(rob[q].srcs) : physReady[rob[q].srcs[k]]
<1>1. rob[q].srcs \in Seq(Phys)
  BY EntryFacts DEF Inv, Entry
<1>2. Range(rob[q].srcs) = {rob[q].srcs[k] : k \in 1 .. Len(rob[q].srcs)}
  BY <1>1, RangeIs
<1> QED BY <1>2 DEF SourcesReady

LEMMA ResolveValues ==
  ASSUME Inv, Inv', Registers, Values, ResolveBranch
  PROVE  Values'
<1>1. PICK q : q = Current.pos
  OBVIOUS
<1>2. PICK f : f = rob[q]
  OBVIOUS
<1>3. PICK e : e = Resolved(f)
  OBVIOUS
<1>4. /\ Finishing /\ rob' = [rob EXCEPT ![q] = e] /\ IsBranch(InstrOf(q))
      /\ UNCHANGED <<setup, rat, free, pendingFree, head, rs, regs, mem, physVal, physReady>>
  BY <1>1, <1>2, <1>3 DEF ResolveBranch, arch, rename
<1>5. /\ q \in Live /\ f \in Sound /\ f \in Entry /\ Fits(f) /\ ~f.done /\ q \notin rs
  BY <1>1, <1>2, <1>4, FinishingFacts
<1>6. e \in Sound /\ SameRoles(e, f)
  BY <1>2, <1>3, <1>4, <1>5, ResolvedIsSound DEF Inv, InstrOf, SameRoles
<1>7. e.operands = f.operands
  BY <1>3, <1>5 DEF Resolved, Entry
<1>8. ~WritesRd(InstrOf(q)) /\ Issues(InstrOf(q)) /\ InstrOf(q).op \notin {"LOAD", "STORE"}
  BY <1>4 DEF WritesRd, Micro!Writes, IsBranch, Micro!IsBranch, Micro!BranchOps, Issues, IsHalt
<1>9. e.dst = NoReg
  BY <1>2, <1>5, <1>6, <1>8 DEF Fits, SameRoles, InstrOf
<1>10. Rewrites(q, e)
  <2>1. rs' = rs \ {q}
    BY <1>4, <1>5
  <2>2. Delivers(e)
    BY <1>4, <1>9 DEF Delivers
  <2> QED BY <1>2, <1>4, <1>5, <1>6, <2>1, <2>2 DEF Rewrites
<1>11. Right(q)
  BY <1>5, <1>8 DEF Values, IssuedRight
<1>12. Right(q)'
  <2>1. /\ InstrOf(q)' = InstrOf(q) /\ \A k : Operand(q, k)' = Operand(q, k)
        /\ \A k \in 1 .. Len(rob'[q].srcs) : physReady'[rob'[q].srcs[k]]
    BY <1>5, <1>6, <1>10, <1>11, IssuedOperands DEF Right, Values
  <2>2. rob'[q] = e
    BY <1>5, <1>6, <1>10, RewriteFacts
  <2>3. f.operands[1] = Operand(q, 1) /\ f.operands[2] = Operand(q, 2)
    BY <1>2, <1>4, <1>11 DEF Right
  <2> QED BY <1>7, <1>8, <2>1, <2>2, <2>3 DEF Right
<1> QED BY <1>5, <1>6, <1>10, <1>12, RewriteValues

\* From the shape of an issue step: the entry that is rewritten, and what it read.
Issued(q, e) ==
  /\ Rewrites(q, e) /\ rob'[q] = e /\ q \in rs
  /\ InstrOf(q)' = InstrOf(q) /\ AddressOf(q)' = AddressOf(q) /\ Stores(q)' = Stores(q)
  /\ \A k : Operand(q, k)' = Operand(q, k)
  /\ \A k \in 1 .. Len(rob'[q].srcs) : physReady'[rob'[q].srcs[k]]

LEMMA IssuedFacts ==
  ASSUME Inv, Values, NEW e \in Sound, IssueForm(e), Delivers(e), NEW q, q = Chosen
  PROVE  q \in Live /\ Issued(q, e)
<1>1. Rewrites(q, e) /\ q \in Live /\ q \in rs /\ SourcesReady(q)
  BY IssueRewrites
<1>2. \A k \in 1 .. Len(rob[q].srcs) : physReady[rob[q].srcs[k]]
  BY <1>1, ReadySources
<1>3. /\ InstrOf(q)' = InstrOf(q) /\ AddressOf(q)' = AddressOf(q)
      /\ \A k : Operand(q, k)' = Operand(q, k)
      /\ \A k \in 1 .. Len(rob'[q].srcs) : physReady'[rob'[q].srcs[k]]
  BY <1>1, <1>2, IssuedOperands DEF Values
<1>4. rob'[q] = e /\ Stores(q)' = Stores(q)
  BY <1>1, RewriteFacts
<1> QED BY <1>1, <1>3, <1>4 DEF Issued

LEMMA SentDelivers ==
  ASSUME Inv, NEW e \in Sound, IssueForm(e), NEW q, q = Chosen, rob'[q].done = FALSE,
         UNCHANGED <<physVal, physReady>>
  PROVE  Delivers(e) /\ rob'[q] = e
<1>1. CanIssue /\ rob' = [rob EXCEPT ![q] = e]
  BY DEF IssueForm
<1>2. q \in 1 .. Len(rob)
  BY <1>1, ChosenFacts
<1>3. rob'[q] = e
  BY <1>1, <1>2, Rewritten DEF Inv
<1> QED BY <1>3 DEF Delivers

LEMMA AluValues ==
  ASSUME Inv, Inv', Registers, Values, NEW flag \in BOOLEAN, IssueAlu(flag)
  PROVE  Values'
<1>1. PICK e \in Sound : IssueForm(e)
  BY AluForm
<1>2. PICK q : q = Chosen
  OBVIOUS
<1>3. PICK v : v = Value(InstrOf(q), Operand(q, 1), Operand(q, 2))
  OBVIOUS
<1>4. /\ CanIssue /\ rob' = [rob EXCEPT ![q].val = v] /\ UNCHANGED <<physVal, physReady>>
      /\ UnitOf(InstrOf(q)) \notin {"lsu", "bru"}
  BY <1>2, <1>3 DEF IssueAlu
<1>5. q \in 1 .. Len(rob) /\ rob[q] \in Entry /\ rob[q].done = FALSE
  <2>1. q \in 1 .. Len(rob) /\ rob[q] \in Entry /\ ~rob[q].done
    BY <1>2, <1>4, ChosenFacts
  <2> QED BY <2>1 DEF Entry
<1>6. rob'[q].done = FALSE /\ rob'[q].val = v
  BY <1>4, <1>5 DEF Entry, Inv, BufferOK
<1>7. q \in Live /\ Issued(q, e)
  BY <1>1, <1>2, <1>4, <1>6, SentDelivers, IssuedFacts
<1>8. InstrOf(q).op \notin {"LOAD", "STORE"} /\ ~IsBranch(InstrOf(q))
  <2>1. InstrOf(q).op \notin {"LOAD", "STORE", "PREFETCH"}
    BY <1>4 DEF UnitOf
  <2>2. \/ InstrOf(q).op \notin {"MUL", "DIV", "VADD", "VMUL"} /\ ~IsBranch(InstrOf(q))
        \/ InstrOf(q).op \in {"MUL", "DIV", "VADD", "VMUL"}
    BY <1>4, <2>1 DEF UnitOf
  <2>3. InstrOf(q).op \in {"MUL", "DIV", "VADD", "VMUL"} => ~IsBranch(InstrOf(q))
    BY DEF IsBranch, Micro!IsBranch, Micro!BranchOps
  <2> QED BY <2>1, <2>2, <2>3
<1>9. Right(q)'
  BY <1>3, <1>6, <1>7, <1>8 DEF Issued, Right
<1> QED BY <1>7, <1>9, RewriteValues DEF Issued

LEMMA BranchValues ==
  ASSUME Inv, Inv', Registers, Values, IssueBranch
  PROVE  Values'
<1>1. PICK e \in Sound : IssueForm(e)
  BY BranchForm
<1>2. PICK q : q = Chosen
  OBVIOUS
<1>3. PICK v : v = <<Operand(q, 1), Operand(q, 2)>>
  OBVIOUS
<1>4. /\ CanIssue /\ rob' = [rob EXCEPT ![q].operands = v] /\ UNCHANGED <<physVal, physReady>>
      /\ IsBranch(InstrOf(q))
  BY <1>2, <1>3 DEF IssueBranch
<1>5. q \in 1 .. Len(rob) /\ rob[q] \in Entry /\ rob[q].done = FALSE
  <2>1. q \in 1 .. Len(rob) /\ rob[q] \in Entry /\ ~rob[q].done
    BY <1>2, <1>4, ChosenFacts
  <2> QED BY <2>1 DEF Entry
<1>6. rob'[q].done = FALSE /\ rob'[q].operands = v
  BY <1>4, <1>5 DEF Entry, Inv, BufferOK
<1>7. q \in Live /\ Issued(q, e)
  BY <1>1, <1>2, <1>4, <1>6, SentDelivers, IssuedFacts
<1>8. InstrOf(q).op \notin {"LOAD", "STORE"} /\ ~WritesRd(InstrOf(q))
  BY <1>4, BranchWritesNothing DEF IsBranch, Micro!IsBranch, Micro!BranchOps
<1>9. v[1] = Operand(q, 1) /\ v[2] = Operand(q, 2)
  BY <1>3
<1>10. Right(q)'
  BY <1>6, <1>7, <1>8, <1>9 DEF Issued, Right
<1> QED BY <1>7, <1>10, RewriteValues DEF Issued

LEMMA StoreValues ==
  ASSUME Inv, Inv', Registers, Values, IssueStore
  PROVE  Values'
<1>1. PICK e \in Sound : IssueForm(e)
  BY StoreForm
<1>2. PICK q : q = Chosen
  OBVIOUS
<1>3. PICK a, v : a = AddressOf(q) /\ v = Operand(q, 2)
  OBVIOUS
<1>4. /\ CanIssue /\ rob' = [rob EXCEPT ![q].addr = a, ![q].val = v]
      /\ UNCHANGED <<physVal, physReady>> /\ InstrOf(q).op = "STORE"
  BY <1>2, <1>3 DEF IssueStore
<1>5. q \in 1 .. Len(rob) /\ rob[q] \in Entry /\ rob[q].done = FALSE
  <2>1. q \in 1 .. Len(rob) /\ rob[q] \in Entry /\ ~rob[q].done
    BY <1>2, <1>4, ChosenFacts
  <2> QED BY <2>1 DEF Entry
<1>6. rob'[q].done = FALSE /\ rob'[q].addr = a /\ rob'[q].val = v
  BY <1>4, <1>5 DEF Entry, Inv, BufferOK
<1>7. q \in Live /\ Issued(q, e)
  BY <1>1, <1>2, <1>4, <1>6, SentDelivers, IssuedFacts
<1>8. ~WritesRd(InstrOf(q)) /\ ~IsBranch(InstrOf(q))
  BY <1>4 DEF IsBranch, Micro!IsBranch, Micro!BranchOps, WritesRd, Micro!Writes
<1>9. Right(q)'
  BY <1>3, <1>4, <1>6, <1>7, <1>8 DEF Issued, Right
<1> QED BY <1>7, <1>9, RewriteValues DEF Issued

\* The load/store queue has every store that may matter.
LEMMA StoresQueued ==
  ASSUME Inv, NEW q, NEW k \in Stores(q)
  PROVE  k \in Range(lsq) /\ k < q /\ InstrOf(k).op = "STORE" /\ k \in Live /\ k # q
<1>1. k \in Live /\ k < q /\ InstrOf(k).op = "STORE"
  BY DEF Stores
<1>2. k \in Range(lsq)
  BY <1>1 DEF Inv, LsqOK, IsMem, Micro!IsMem, Micro!MemOps
<1>3. k \in Nat
  BY <1>1, EntryFacts DEF Inv
<1> QED BY <1>1, <1>2, <1>3

LEMMA LoadValues ==
  ASSUME Inv, Inv', Registers, Values, NEW t \in setup.loads, IssueLoad(t)
  PROVE  Values'
<1>1. PICK e \in Sound : IssueForm(e)
  BY LoadForm
<1>2. PICK q : q = Chosen
  OBVIOUS
<1>3. PICK a, v : a = AddressOf(q) /\ v = mem[a]
  OBVIOUS
<1>4. /\ CanIssue /\ rob' = [rob EXCEPT ![q].addr = a, ![q].val = v]
      /\ UNCHANGED <<physVal, physReady>> /\ InstrOf(q).op = "LOAD" /\ Deciding(q) = {}
  BY <1>2, <1>3 DEF IssueLoad
<1>5. q \in 1 .. Len(rob) /\ rob[q] \in Entry /\ rob[q].done = FALSE
  <2>1. q \in 1 .. Len(rob) /\ rob[q] \in Entry /\ ~rob[q].done
    BY <1>2, <1>4, ChosenFacts
  <2> QED BY <2>1 DEF Entry
<1>6. rob'[q].done = FALSE /\ rob'[q].val = v
  BY <1>4, <1>5 DEF Entry, Inv, BufferOK
<1>7. q \in Live /\ Issued(q, e)
  BY <1>1, <1>2, <1>4, <1>6, SentDelivers, IssuedFacts
<1>8. ~IsBranch(InstrOf(q)) /\ InstrOf(q).op # "STORE"
  BY <1>4 DEF IsBranch, Micro!IsBranch, Micro!BranchOps
<1>9. mem' = mem /\ rs' = rs \ {q} /\ \A k \in Live : k # q => rob'[k] = rob[k]
  BY <1>7, RewriteFacts DEF Issued, Rewrites
<1>10. LoadRight(q)'
  <2>1. ASSUME NEW k \in Stores(q) PROVE k \notin rs' /\ rob'[k].addr # a
    <3>1. k \in Range(lsq) /\ k < q /\ InstrOf(k).op = "STORE" /\ k \in Live /\ k # q
      BY StoresQueued
    <3>2. rob[k].addr \notin {NoReg, AddressOf(q)}
      BY <1>4, <3>1 DEF Deciding
    <3>3. k \notin rs
      BY <3>1, <3>2 DEF Values, Unissued
    <3> QED BY <1>3, <1>9, <3>1, <3>2, <3>3
  <2> QED BY <1>3, <1>6, <1>7, <1>9, <2>1 DEF LoadRight, Issued
<1>11. Right(q)'
  BY <1>4, <1>7, <1>8, <1>10 DEF Issued, Right
<1> QED BY <1>7, <1>11, RewriteValues DEF Issued

LEMMA PrefetchValues ==
  ASSUME Inv, Inv', Registers, Values, IssuePrefetch
  PROVE  Values'
<1>1. PICK e \in Sound : IssueForm(e)
  BY PrefetchForm
<1>2. PICK q : q = Chosen
  OBVIOUS
<1>3. InstrOf(q).op = "PREFETCH" /\ UNCHANGED <<physVal, physReady>>
  BY <1>2 DEF IssuePrefetch
<1>4. ~WritesRd(InstrOf(q)) /\ ~IsBranch(InstrOf(q)) /\ InstrOf(q).op \notin {"LOAD", "STORE"}
  BY <1>3 DEF IsBranch, Micro!IsBranch, Micro!BranchOps, WritesRd, Micro!Writes
<1>5. Delivers(e)
  <2>1. CanIssue /\ SameRoles(e, rob[q])
    BY <1>1, <1>2 DEF IssueForm
  <2>2. Fits(rob[q])
    BY <1>2, <2>1, ChosenFacts
  <2>3. e.dst = NoReg
    BY <1>4, <2>1, <2>2 DEF Fits, SameRoles, InstrOf
  <2> QED BY <1>3, <2>3 DEF Delivers
<1>6. q \in Live /\ Issued(q, e)
  BY <1>1, <1>2, <1>5, IssuedFacts
<1>7. Right(q)'
  BY <1>4, <1>6 DEF Issued, Right
<1> QED BY <1>6, <1>7, RewriteValues DEF Issued

-----------------------------------------------------------------------------
(* A load that takes the datum of a store.                                 *)

\* Without a branch back the entries of the window stand in the order of the program.
LEMMA PcsIncrease ==
  ASSUME Inv, WindowChained, ~HasBackEdge(prog)
  PROVE  \A p, q \in Live : p < q => rob[p].pc < rob[q].pc
<1>1. /\ \A p \in Live : p \in Nat /\ rob[p].pc \in 0 .. Len(prog) - 1
      /\ \A p, q \in Live : \A k \in Nat : p <= k /\ k <= q => k \in Live
      /\ prog \in Seq(Instr) /\ Len(prog) \in Nat
  <2>1. \A p \in Live : p \in 1 .. Len(rob) /\ rob[p].pc \in 0 .. Len(prog) - 1
    BY EntryFacts DEF Inv
  <2>2. head \in Nat /\ Len(rob) \in Nat
    BY EntryFacts DEF Inv
  <2>3. \A p, q \in Live : \A k \in Nat : p <= k /\ k <= q => k \in Live
    BY <2>1, <2>2 DEF Live
  <2> QED BY <2>1, <2>2, <2>3, SetupFacts DEF Inv
<1>2. ASSUME NEW p \in Live, p + 1 \in Live PROVE rob[p].pc < rob[p + 1].pc
  <2>1. rob[p + 1].pc = After(prog, rob[p]) /\ JumpsWell(prog, rob[p])
    BY <1>2 DEF WindowChained
  <2>2. rob[p].pc + 1 \in DOMAIN prog /\ rob[p].pc \in Nat
    BY <1>1
  <2>3. CASE rob[p].pred = "taken"
    <3>1. IsBranch(prog[rob[p].pc + 1])
      BY <2>1, <2>3 DEF JumpsWell
    <3>2. ~(prog[rob[p].pc + 1].imm <= 0)
      BY <2>2, <3>1 DEF HasBackEdge
    <3>3. prog[rob[p].pc + 1] \in Instr
      BY <1>1, <2>2
    <3>4. prog[rob[p].pc + 1].imm \in Int
      BY <3>3 DEF Instr
    <3>5. rob[p + 1].pc = rob[p].pc + prog[rob[p].pc + 1].imm
      BY <2>1, <2>3 DEF After
    <3> QED BY <2>2, <3>2, <3>4, <3>5
  <2>4. CASE rob[p].pred # "taken"
    BY <2>1, <2>2, <2>4 DEF After
  <2> QED BY <2>3, <2>4
<1>3. SUFFICES ASSUME NEW p \in Live PROVE \A q \in Live : p < q => rob[p].pc < rob[q].pc
  OBVIOUS
<1>4. PICK S : S = {q \in Live : p < q /\ ~(rob[p].pc < rob[q].pc)}
  OBVIOUS
<1>5. CASE S = {}
  BY <1>4, <1>5
<1>6. CASE S # {}
  <2>1. S \in SUBSET Nat
    BY <1>1, <1>4
  <2>2. PICK n \in S : \A k \in S : n <= k
    BY <1>6, <2>1, LeastNatural
  <2>3. n \in Live /\ p < n /\ ~(rob[p].pc < rob[n].pc) /\ n \in Nat /\ p \in Nat
    BY <1>1, <1>4, <2>2
  <2>4. PICK k \in Nat : k = n - 1
    BY <2>3
  <2>5. k \in Live /\ k + 1 = n /\ k + 1 \in Live
    BY <1>1, <2>3, <2>4
  <2>6. rob[k].pc < rob[n].pc
    BY <1>2, <2>5
  <2>7. k = p \/ rob[p].pc < rob[k].pc
    <3>1. k \notin S
      BY <2>2, <2>3, <2>4
    <3> QED BY <1>4, <2>3, <2>4, <2>5, <3>1
  <2>8. rob[p].pc \in Int /\ rob[k].pc \in Int /\ rob[n].pc \in Int
    BY <1>1, <2>3, <2>5
  <2> QED BY <2>3, <2>6, <2>7, <2>8
<1> QED BY <1>5, <1>6

\* At most one store in the window may write the word a load reads.
LEMMA OneStore ==
  ASSUME Inv, Exact(setup), WindowChained, NEW q \in Live, InstrOf(q).op = "LOAD",
         NEW j \in Stores(q), NEW k \in Stores(q)
  PROVE  j = k
<1>1. /\ j \in Live /\ InstrOf(j).op = "STORE" /\ MayMatch(InstrOf(j), InstrOf(q))
      /\ k \in Live /\ InstrOf(k).op = "STORE" /\ MayMatch(InstrOf(k), InstrOf(q))
  BY DEF Stores
<1>2. PICK x, y, z : x = rob[q].pc + 1 /\ y = rob[j].pc + 1 /\ z = rob[k].pc + 1
  OBVIOUS
<1>3. /\ x \in DOMAIN prog /\ InstrOf(q) = prog[x]
      /\ y \in DOMAIN prog /\ InstrOf(j) = prog[y]
      /\ z \in DOMAIN prog /\ InstrOf(k) = prog[z]
      /\ rob[j].pc \in Int /\ rob[k].pc \in Int /\ OneStorePerLoad(prog)
  BY <1>1, <1>2, ExactInstr
<1>4. y = z /\ ~HasBackEdge(prog)
  BY <1>1, <1>3 DEF OneStorePerLoad
<1>5. rob[j].pc = rob[k].pc
  BY <1>2, <1>3, <1>4
<1>6. (j < k => rob[j].pc < rob[k].pc) /\ (k < j => rob[k].pc < rob[j].pc)
  BY <1>1, <1>4, PcsIncrease
<1>7. j \in Nat /\ k \in Nat
  BY <1>1, EntryFacts DEF Inv
<1> QED BY <1>3, <1>5, <1>6, <1>7

\* A store that has issued writes the word it may write.
LEMMA SameWord ==
  ASSUME Inv, NEW m, NEW c, Roles(m, c), CommittedRight, NEW j \in Live, NEW q \in Live,
         InstrOf(j).op = "STORE", InstrOf(q).op = "LOAD", AddressOf(j) = AddressOf(q)
  PROVE  MayMatch(InstrOf(j), InstrOf(q))
<1>1. SUFFICES ASSUME InstrOf(j).rs1 = 0, InstrOf(q).rs1 = 0
               PROVE  Address(InstrOf(j), 0) = Address(InstrOf(q), 0)
  BY DEF MayMatch
<1>2. /\ rob[j].srcs \in Seq(Phys) /\ Len(rob[j].srcs) = Len(Reads(InstrOf(j)))
      /\ rob[q].srcs \in Seq(Phys) /\ Len(rob[q].srcs) = Len(Reads(InstrOf(q)))
  BY EntryFacts DEF Inv, Entry, Fits, InstrOf
<1>3. Reads(InstrOf(j)) = <<InstrOf(j).rs1, InstrOf(j).rs2>> /\ Reads(InstrOf(q)) = <<InstrOf(q).rs1>>
  BY DEF Reads
<1>4. /\ 1 \in 1 .. Len(rob[j].srcs) /\ 1 \in 1 .. Len(rob[q].srcs)
      /\ Reads(InstrOf(j))[1] = 0 /\ Reads(InstrOf(q))[1] = 0
  BY <1>1, <1>2, <1>3
<1>5. physVal[rob[j].srcs[1]] = 0 /\ physVal[rob[q].srcs[1]] = 0
  BY <1>4, ZeroSource
<1>6. Operand(j, 1) = 0 /\ Operand(q, 1) = 0
  BY <1>2, <1>4, <1>5 DEF Operand
<1> QED BY <1>6 DEF AddressOf

LEMMA ForwardValues ==
  ASSUME Inv, Inv', Registers, Values, Exact(setup), WindowChained, Forward
  PROVE  Values'
<1>1. PICK e \in Sound : IssueForm(e)
  BY ForwardForm
<1>2. PICK m, c : Roles(m, c)
  BY RolesAre
<1>3. PICK q : q = Chosen
  OBVIOUS
<1>4. PICK D : D = Decider(q)
  OBVIOUS
<1>5. PICK v, d : v = physVal[rob[D].srcs[2]] /\ d = rob[q].dst
  OBVIOUS
<1>6. /\ CanIssue /\ rob' = [rob EXCEPT ![q].val = v, ![q].done = TRUE]
      /\ InstrOf(q).op = "LOAD" /\ Deciding(q) # {}
      /\ physVal' = IF d = NoReg THEN physVal ELSE [physVal EXCEPT ![d] = v]
      /\ physReady' = IF d = NoReg THEN physReady ELSE [physReady EXCEPT ![d] = TRUE]
  BY <1>3, <1>4, <1>5 DEF Forward
<1>7. /\ q \in 1 .. Len(rob) /\ rob[q] \in Entry /\ Issuable(q) /\ q \in Live
      /\ rob' = [rob EXCEPT ![q] = e] /\ SameRoles(e, rob[q])
  BY <1>1, <1>3, <1>6, ChosenFacts DEF IssueForm
<1>8. rob'[q] = e
  BY <1>7, Rewritten DEF Inv, IssueForm
<1>9. e.done /\ e.val = v /\ e.dst = d
  <2>1. rob'[q].done /\ rob'[q].val = v
    BY <1>6, <1>7 DEF Entry, Inv, BufferOK
  <2> QED BY <1>5, <1>7, <1>8, <2>1 DEF SameRoles
<1>10. Delivers(e)
  BY <1>6, <1>9 DEF Delivers
<1>11. Issued(q, e)
  BY <1>1, <1>3, <1>10, IssuedFacts
<1>12. /\ D \in Range(lsq) /\ D < q /\ InstrOf(D).op = "STORE" /\ rob[D].addr = AddressOf(q)
       /\ rob[D].addr # NoReg /\ D \in Live
  <2>1. D \in Deciding(q)
    BY <1>4, <1>6, DeciderType
  <2>2. rob[D].addr # NoReg
    BY <1>4, <1>6, <1>7 DEF Issuable, MemReady
  <2>3. D \in Live
    BY <2>1 DEF Deciding, Inv, LsqOK
  <2> QED BY <2>1, <2>2, <2>3 DEF Deciding
<1>13. D \notin rs /\ Right(D)
  <2>1. D \notin rs
    BY <1>12 DEF Values, Unissued
  <2>2. Issues(InstrOf(D))
    BY <1>12 DEF Issues, IsHalt
  <2> QED BY <1>12, <2>1, <2>2 DEF Values, IssuedRight
<1>14. rob[D].addr = AddressOf(D) /\ rob[D].val = v
  <2>1. rob[D].addr = AddressOf(D) /\ rob[D].val = Operand(D, 2)
    BY <1>12, <1>13 DEF Right
  <2>2. rob[D].srcs \in Seq(Phys) /\ Len(rob[D].srcs) = 2
    <3>1. /\ rob[D].srcs \in Seq(Phys) /\ Len(rob[D].srcs) = Len(Reads(InstrOf(D)))
          /\ InstrOf(D) \in Instr
      BY <1>12, EntryFacts DEF Inv, Entry, Fits, InstrOf
    <3> QED BY <1>12, <3>1, ReadsType
  <2>3. Operand(D, 2) = v
    BY <1>5, <2>2 DEF Operand
  <2> QED BY <2>1, <2>3
<1>15. D \in Stores(q) /\ \A k \in Stores(q) : k = D
  <2>1. MayMatch(InstrOf(D), InstrOf(q))
    BY <1>2, <1>6, <1>7, <1>12, <1>14, SameWord DEF Values
  <2>2. D \in Stores(q)
    BY <1>12, <2>1 DEF Stores
  <2> QED BY <1>6, <1>7, <2>2, OneStore
<1>16. rs' = rs \ {q} /\ D # q /\ rob'[D] = rob[D]
  <2>1. D # q
    BY <1>15, StoresQueued
  <2> QED BY <1>7, <1>11, <1>12, <2>1, RewriteFacts DEF Issued, Rewrites
<1>17. LoadRight(q)'
  BY <1>8, <1>9, <1>11, <1>12, <1>13, <1>14, <1>15, <1>16 DEF LoadRight, Issued
<1>18. InstrOf(q)' = InstrOf(q) /\ InstrOf(q).op \notin {"STORE"} /\ ~IsBranch(InstrOf(q))
  BY <1>6, <1>11 DEF Issued, IsBranch, Micro!IsBranch, Micro!BranchOps
<1>19. Right(q)'
  BY <1>6, <1>11, <1>17, <1>18 DEF Issued, Right
<1> QED BY <1>7, <1>11, <1>19, RewriteValues DEF Issued

-----------------------------------------------------------------------------
(* The other steps.                                                        *)

LEMMA SameValues ==
  ASSUME Inv, Values,
         UNCHANGED <<setup, rob, head, rs, physVal, physReady, rat, regs, mem>>
  PROVE  Values'
<1>1. Live' = Live /\ \A p : InstrOf(p)' = InstrOf(p)
  BY BufferKept DEF Inv
<1>2. \A r \in Reg : CommittedReg(r)' = CommittedReg(r)
  <2>1. \A r \in Reg : Writers(r)' = Writers(r)
    BY <1>1 DEF Writers
  <2> QED BY <2>1 DEF CommittedReg
<1>3. CommittedRight'
  BY <1>2 DEF Values, CommittedRight
<1>4. Unissued' /\ Results'
  BY <1>1 DEF Values, Unissued, Results, Owners
<1>5. \A p : Stores(p)' = Stores(p)
  BY <1>1 DEF Stores
<1>6. ASSUME NEW p \in Live \ rs, Issues(InstrOf(p)) PROVE Right(p)'
  <2>1. Right(p) /\ rob[p].srcs \in Seq(Phys)
    BY <1>6, EntryFacts DEF Values, IssuedRight, Inv, Entry
  <2>2. LoadRight(p) /\ AddressOf(p)' = AddressOf(p) => LoadRight(p)'
    BY <1>5 DEF LoadRight
  <2> QED BY <2>1, <2>2, RightKept
<1>7. IssuedRight'
  BY <1>1, <1>6 DEF IssuedRight
<1> QED BY <1>3, <1>4, <1>7 DEF Values

LEMMA RenameValues ==
  ASSUME Inv, Inv', Registers, Values, Rename
  PROVE  Values'
<1>1. PICK m, c : Roles(m, c)
  BY RolesAre
<1>2. PICK e \in Sound, d \in Phys \cup {NoReg} :
           /\ CanRename /\ (d # NoReg <=> WritesRd(Incoming))
           /\ d # NoReg => d = Last(free) /\ free # <<>>
           /\ e = NewEntry(Head(fetchQ), Incoming, d)
           /\ rob' = Append(rob, e) /\ e.pc = Head(fetchQ).pc /\ e.dst = d
           /\ e.done <=> IsHalt(Incoming) \/ Incoming.op = "FENCE"
           /\ physReady' = IF d = NoReg THEN physReady ELSE [physReady EXCEPT ![d] = FALSE]
           /\ rs' = IF e.done THEN rs ELSE rs \cup {Len(rob) + 1}
  BY RenameShape
<1>3. UNCHANGED <<setup, head, physVal, regs, mem>>
  BY DEF Rename, arch
<1>4. PICK p : p = Len(rob) + 1
  OBVIOUS
<1>5. /\ rob'[p] = e /\ Live' = Live \cup {p} /\ p \notin Live
      /\ \A k \in Live : k \in 1 .. Len(rob) /\ k < p /\ InstrOf(k)' = InstrOf(k)
      /\ \A k \in Live : rob'[k] = rob[k]
      /\ InstrOf(p)' = Incoming
  <2>1. /\ rob'[p] = e /\ Live' = Live \cup {p} /\ p \notin Live
        /\ \A k \in Live : k \in 1 .. Len(rob) /\ k < p /\ InstrOf(k)' = InstrOf(k)
        /\ \A k \in 1 .. Len(rob) : rob'[k] = rob[k]
        /\ InstrOf(p)' = InstrAt(e.pc)
    BY <1>2, <1>3, <1>4, GrownBuffer
  <2> QED BY <1>2, <2>1 DEF Incoming
<1>6. d # NoReg => d \in Range(free)
  BY <1>1, <1>2, FrontFacts DEF Inv, ListsOK, Roles, Parted
<1>7. /\ \A x \in Phys : x # d => physReady'[x] = physReady[x]
      /\ d # NoReg => ~physReady'[d]
  BY <1>2 DEF Inv, FileOK
<1>8. e.addr = NoReg
  BY <1>2 DEF NewEntry
<1>9. CommittedRight'
  BY <1>3, RenameCommitted DEF Values, CommittedRight, CommittedKept
<1>10. ASSUME NEW k \in Live, k \notin rs, Issues(InstrOf(k)) PROVE Right(k)'
  <2>1. Right(k) /\ rob[k].srcs \in Seq(Phys)
    BY <1>10, EntryFacts DEF Values, IssuedRight, Inv, Entry
  <2>2. \A j \in 1 .. Len(rob[k].srcs) : physReady'[rob[k].srcs[j]] = physReady[rob[k].srcs[j]]
    <3>1. \A j \in 1 .. Len(rob[k].srcs) :
             rob[k].srcs[j] \in Phys /\ rob[k].srcs[j] \notin Range(free)
      BY <1>1, <2>1, SourceNotFree, ElementOfSeq
    <3>2. NoReg \notin Phys
      BY PhysFacts
    <3> HIDE DEF Range
    <3> QED BY <1>6, <1>7, <3>1, <3>2
  <2>3. Stores(k)' = Stores(k)
    <3>1. k \in Nat /\ p \in Nat /\ k < p
      BY <1>4, <1>5, EntryFacts DEF Inv
    <3>2. \A i \in Live' : i < k => i \in Live /\ InstrOf(i)' = InstrOf(i)
      <4>1. ~(p < k)
        BY <3>1
      <4> QED BY <1>5, <4>1
    <3>3. \A i \in Live : i \in Live' /\ InstrOf(i)' = InstrOf(i)
      BY <1>5
    <3> QED BY <1>5, <3>2, <3>3 DEF Stores
  <2>4. \A j \in Stores(k) : rob'[j] = rob[j] /\ (j \notin rs => j \notin rs')
    BY <1>2, <1>4, <1>5 DEF Stores
  <2>5. rob'[k] = rob[k]
    BY <1>5
  <2>6. LoadRight(k) /\ AddressOf(k)' = AddressOf(k) => LoadRight(k)'
    <3>1. SUFFICES ASSUME LoadRight(k), AddressOf(k)' = AddressOf(k) PROVE LoadRight(k)'
      OBVIOUS
    <3> QED BY <1>3, <2>3, <2>4, <2>5, <3>1, LoadKept
  <2> QED BY <1>3, <2>1, <2>2, <2>5, <2>6, RightKept
<1>11. IssuedRight'
  <2>1. ASSUME NEW k \in Live', k \notin rs', Issues(InstrOf(k)') PROVE Right(k)'
    <3>1. CASE k = p
      BY <1>2, <1>4, <1>5, <2>1, <3>1 DEF Issues
    <3>2. CASE k # p
      BY <1>2, <1>5, <1>10, <2>1, <3>2
    <3> QED BY <3>1, <3>2
  <2> QED BY <2>1 DEF IssuedRight
<1>12. Unissued'
  <2>1. ASSUME NEW k \in rs', InstrOf(k)'.op = "STORE" PROVE rob'[k].addr = NoReg
    <3>1. CASE k = p
      BY <1>5, <1>8, <3>1
    <3>2. CASE k # p
      <4>1. k \in rs /\ k \in Live
        BY <1>2, <1>4, <2>1, <3>2 DEF Inv, WaitingOK
      <4> QED BY <1>5, <2>1, <4>1 DEF Values, Unissued
    <3> QED BY <3>1, <3>2
  <2> QED BY <2>1 DEF Unissued
<1>13. Results'
  <2>1. ASSUME NEW k \in Owners'
        PROVE  /\ rob'[k].done => physVal'[rob'[k].dst] = rob'[k].val
               /\ ~rob'[k].done => ~physReady'[rob'[k].dst]
    <3>0. k \in Live' /\ rob'[k].dst # NoReg
      BY <2>1 DEF Owners
    <3>1. CASE k = p
      <4>1. d # NoReg /\ ~e.done
        <5>1. WritesRd(Incoming)
          BY <1>2, <1>5, <3>0, <3>1
        <5>2. ~IsHalt(Incoming) /\ Incoming.op # "FENCE"
          BY <5>1 DEF WritesRd, Micro!Writes, IsHalt
        <5> QED BY <1>2, <5>1, <5>2
      <4> QED BY <1>2, <1>5, <1>7, <3>1, <4>1
    <3>2. CASE k # p
      <4>1. k \in Live /\ rob'[k] = rob[k] /\ k \in Owners
        BY <1>5, <3>0, <3>2 DEF Owners
      <4>2. rob[k].dst \in Phys /\ rob[k].dst \in Held
        BY <4>1, OwnerFacts
      <4>3. rob[k].dst # d
        <5> HIDE DEF Range
        <5> QED BY <1>1, <1>6, <3>0, <4>1, <4>2 DEF Roles, Parted
      <4> QED BY <1>3, <1>7, <4>1, <4>2, <4>3 DEF Values, Results
    <3> QED BY <3>1, <3>2
  <2> QED BY <2>1 DEF Results
<1> QED BY <1>9, <1>11, <1>12, <1>13 DEF Values

\* What commits reaches the registers and the memory.
Commits == CommitStore \/ CommitHalt \/ CommitOther

LEMMA CommitEffects ==
  ASSUME Inv, Commits
  PROVE  /\ CanCommit /\ UNCHANGED <<setup, rob, rs, physVal, physReady>>
         /\ \A r \in Reg : regs'[r] = IF WritesRd(OldestInstr) /\ OldestInstr.rd = r
                                       THEN physVal[Oldest.dst] ELSE regs[r]
         /\ mem' = IF OldestInstr.op = "STORE" THEN [mem EXCEPT ![Oldest.addr] = Oldest.val]
                                               ELSE mem
<1>1. CanCommit /\ UNCHANGED <<setup, rob, rs, physVal, physReady>>
  BY DEF Commits, CommitStore, CommitHalt, CommitOther, Committed, rename
<1>2. regs \in [Reg -> Word]
  BY DEF Inv, ArchOK
<1>3. CASE CommitStore \/ CommitHalt
  <2>1. regs' = regs /\ ~WritesRd(OldestInstr)
    BY <1>3 DEF CommitStore, CommitHalt, IsHalt, WritesRd, Micro!Writes
  <2>2. mem' = IF OldestInstr.op = "STORE" THEN [mem EXCEPT ![Oldest.addr] = Oldest.val] ELSE mem
    BY <1>3 DEF CommitStore, CommitHalt, IsHalt
  <2> QED BY <1>1, <2>1, <2>2
<1>4. CASE CommitOther
  BY <1>1, <1>4 DEF CommitOther, CommitResult
<1> QED BY <1>3, <1>4 DEF Commits

LEMMA RetireValues ==
  ASSUME Inv, Inv', Registers, Values, Commits
  PROVE  Values'
<1>1. PICK m, c : Roles(m, c) /\ \A r \in Reg : CommittedReg(r) = c[r]
  BY RolesAre
<1>2. /\ CanCommit /\ UNCHANGED <<setup, rob, rs, physVal, physReady>> /\ Retire
      /\ \A r \in Reg : regs'[r] = IF WritesRd(OldestInstr) /\ OldestInstr.rd = r
                                       THEN physVal[Oldest.dst] ELSE regs[r]
      /\ mem' = IF OldestInstr.op = "STORE" THEN [mem EXCEPT ![Oldest.addr] = Oldest.val]
                                               ELSE mem
  BY CommitEffects, CommitKinds DEF Commits
<1>3. PICK p \in Live :
           /\ p = head + 1 /\ head' = p /\ Live' = Live \ {p} /\ rob[p].done /\ p \notin rs
           /\ Oldest = rob[p] /\ OldestInstr = InstrOf(p)
           /\ \A k \in Live : p <= k
           /\ \A k : InstrOf(k)' = InstrOf(k)
  BY <1>2, RetireShape
<1>4. CommittedRight'
  <2>1. \A r \in Reg : CommittedReg(r)' =
           IF WritesRd(OldestInstr) /\ OldestInstr.rd = r THEN Oldest.dst ELSE CommittedReg(r)
    BY <1>2, RetireCommitted
  <2> QED BY <1>2, <2>1 DEF Values, CommittedRight
<1>5. InstrOf(p).op = "STORE" => rob[p].addr = AddressOf(p)
  <2>1. InstrOf(p).op = "STORE" => Issues(InstrOf(p))
    BY DEF Issues, IsHalt
  <2> QED BY <1>3, <2>1 DEF Values, IssuedRight, Right
<1>6. ASSUME NEW k \in Live', k \notin rs', Issues(InstrOf(k)') PROVE Right(k)'
  <2>1. k \in Live /\ k \notin rs /\ Right(k) /\ p < k /\ k # p
    <3>1. k \in Live /\ k \notin rs /\ k # p /\ p <= k /\ Issues(InstrOf(k))
      BY <1>2, <1>3, <1>6
    <3>2. k \in Nat /\ p \in Nat
      BY <3>1, EntryFacts DEF Inv
    <3> QED BY <3>1, <3>2 DEF Values, IssuedRight
  <2>2. rob[k].srcs \in Seq(Phys)
    BY <2>1, EntryFacts DEF Inv, Entry
  <2>3. ASSUME InstrOf(k).op = "LOAD", LoadRight(k), AddressOf(k)' = AddressOf(k)
        PROVE  LoadRight(k)'
    <3>1. PICK a : a = AddressOf(k)
      OBVIOUS
    <3>2. Stores(k)' = Stores(k) \ {p}
      BY <1>3 DEF Stores
    <3>3. /\ \A j \in Stores(k) : j \notin rs /\ (rob[j].addr = a => rob[k].val = rob[j].val)
          /\ (\A j \in Stores(k) : rob[j].addr # a) => rob[k].val = mem[a]
      BY <2>3, <3>1 DEF LoadRight
    <3>4. \A j \in Stores(k)' : j \notin rs' /\ (rob'[j].addr = a => rob'[k].val = rob'[j].val)
      BY <1>2, <3>2, <3>3
    <3>5. mem \in [Addr -> Word] /\ a \in Addr
      <4>1. k \in 1 .. Len(rob)
        BY <2>1, EntryFacts DEF Inv
      <4> QED BY <3>1, <4>1, AddressOfType DEF Inv, ArchOK
    <3>6. ASSUME \A j \in Stores(k)' : rob'[j].addr # a PROVE rob'[k].val = mem'[a]
      <4>1. \A j \in Stores(k) : j # p => rob[j].addr # a
        BY <1>2, <3>2, <3>6
      <4>2. CASE InstrOf(p).op = "STORE" /\ rob[p].addr = a
        <5>1. MayMatch(InstrOf(p), InstrOf(k))
          BY <1>1, <1>5, <2>1, <2>3, <3>1, <4>2, SameWord DEF Values
        <5>2. p \in Stores(k)
          BY <1>3, <2>1, <4>2, <5>1 DEF Stores
        <5>3. mem'[a] = rob[p].val
          BY <1>2, <1>3, <3>5, <4>2
        <5> QED BY <1>2, <3>3, <4>2, <5>2, <5>3
      <4>3. CASE ~(InstrOf(p).op = "STORE" /\ rob[p].addr = a)
        <5>1. mem'[a] = mem[a]
          BY <1>2, <1>3, <3>5, <4>3
        <5>2. \A j \in Stores(k) : rob[j].addr # a
          BY <4>1, <4>3 DEF Stores
        <5> QED BY <1>2, <3>3, <5>1, <5>2
      <4> QED BY <4>2, <4>3
    <3> QED BY <2>3, <3>1, <3>4, <3>6 DEF LoadRight
  <2> QED BY <1>2, <2>1, <2>2, <2>3, RightKept
<1>7. IssuedRight'
  BY <1>6 DEF IssuedRight
<1>8. Unissued'
  BY <1>2, <1>3 DEF Values, Unissued
<1>9. Results'
  <2>1. Owners' = Owners \ {p}
    BY <1>2, <1>3 DEF Owners
  <2> QED BY <1>2, <2>1 DEF Values, Results
<1> QED BY <1>4, <1>7, <1>8, <1>9 DEF Values

LEMMA SquashValues ==
  ASSUME Inv, Inv', Registers, Values, Squash
  PROVE  Values'
<1>1. Live' = {} /\ UNCHANGED <<physVal, regs>>
  BY SquashShape DEF Squash, arch
<1>2. rs' = {} /\ Owners' = {}
  BY <1>1 DEF Inv, WaitingOK, Owners
<1>3. CommittedRight'
  BY <1>1, SquashCommitted DEF Values, CommittedRight, CommittedKept
<1> QED BY <1>1, <1>2, <1>3 DEF Values, IssuedRight, Unissued, Results

LEMMA EndCommitValues ==
  ASSUME Inv, Inv', Registers, Values, EndCommit
  PROVE  Values'
<1>1. PICK n \in Nat : Shifted(n)
  BY EndCommitShape
<1>2. UNCHANGED <<setup, physVal, physReady, regs, mem>>
  BY DEF EndCommit, arch
<1>3. /\ \A k \in Live' : /\ k \in Nat /\ k + n \in Live /\ rob'[k] = rob[k + n]
                          /\ InstrOf(k)' = InstrOf(k + n)
                          /\ k \in rs' <=> k + n \in rs
      /\ \A q \in Live : q - n \in Live' /\ (q - n) + n = q /\ q \in Nat
  BY <1>1, EntryFacts DEF Shifted, Inv
<1>4. CommittedRight'
  BY <1>2, EndCommitCommitted DEF Values, CommittedRight, CommittedKept
<1>5. ASSUME NEW k \in Live', k \notin rs', Issues(InstrOf(k)') PROVE Right(k)'
  <2>1. PICK q : q = k + n
    OBVIOUS
  <2>2. q \in Live /\ q \notin rs /\ Right(q) /\ rob'[k] = rob[q] /\ k \in Nat
    BY <1>3, <1>5, <2>1 DEF Values, IssuedRight
  <2>3. rob[q].srcs \in Seq(Phys)
    BY <2>2, EntryFacts DEF Inv, Entry
  <2>4. InstrOf(k)' = InstrOf(q)
    BY <1>3, <2>1
  <2>5. ASSUME LoadRight(q), AddressOf(k)' = AddressOf(q) PROVE LoadRight(k)'
    <3>1. ASSUME NEW j \in Stores(k)'
          PROVE  \E i \in Stores(q) : /\ rob'[j].addr = rob[i].addr /\ rob'[j].val = rob[i].val
                                      /\ i \notin rs => j \notin rs'
      <4>1. j \in Live' /\ j < k /\ InstrOf(j)'.op = "STORE" /\ MayMatch(InstrOf(j)', InstrOf(k)')
        BY <3>1 DEF Stores
      <4>2. PICK i : i = j + n
        OBVIOUS
      <4>3. i \in Live /\ rob'[j] = rob[i] /\ InstrOf(j)' = InstrOf(i) /\ j \in Nat
            /\ (i \notin rs => j \notin rs')
        BY <1>3, <4>1, <4>2
      <4>4. i < q
        BY <2>1, <2>2, <4>1, <4>2, <4>3
      <4>5. i \in Stores(q)
        BY <2>4, <4>1, <4>3, <4>4 DEF Stores
      <4> QED BY <4>3, <4>5
    <3>2. ASSUME NEW i \in Stores(q)
          PROVE  \E j \in Stores(k)' : rob'[j].addr = rob[i].addr
      <4>1. i \in Live /\ i < q /\ InstrOf(i).op = "STORE" /\ MayMatch(InstrOf(i), InstrOf(q))
        BY <3>2 DEF Stores
      <4>2. PICK j : j = i - n
        OBVIOUS
      <4>3. j \in Live' /\ j + n = i /\ i \in Nat
        BY <1>3, <4>1, <4>2
      <4>4. rob'[j] = rob[i] /\ InstrOf(j)' = InstrOf(i)
        BY <1>3, <4>3
      <4>5. j < k
        BY <2>1, <2>2, <4>1, <4>2, <4>3
      <4>6. j \in Stores(k)'
        BY <2>4, <4>1, <4>3, <4>4, <4>5 DEF Stores
      <4> QED BY <4>4, <4>6
    <3> QED BY <1>2, <2>2, <2>5, <3>1, <3>2, LoadKept
  <2> QED BY <1>2, <2>2, <2>3, <2>5, RightKept
<1>6. IssuedRight'
  BY <1>5 DEF IssuedRight
<1>7. Unissued'
  <2>1. ASSUME NEW k \in rs', InstrOf(k)'.op = "STORE" PROVE rob'[k].addr = NoReg
    <3>1. k \in Live'
      BY <2>1 DEF Inv, WaitingOK
    <3>2. PICK q : q = k + n
      OBVIOUS
    <3>3. q \in rs /\ rob'[k] = rob[q] /\ InstrOf(k)' = InstrOf(q)
      BY <1>3, <2>1, <3>1, <3>2
    <3> QED BY <2>1, <3>3 DEF Values, Unissued
  <2> QED BY <2>1 DEF Unissued
<1>8. Results'
  <2>1. ASSUME NEW k \in Owners'
        PROVE  /\ rob'[k].done => physVal'[rob'[k].dst] = rob'[k].val
               /\ ~rob'[k].done => ~physReady'[rob'[k].dst]
    <3>1. k \in Live' /\ rob'[k].dst # NoReg
      BY <2>1 DEF Owners
    <3>2. PICK q : q = k + n
      OBVIOUS
    <3>3. q \in Live /\ rob'[k] = rob[q]
      BY <1>3, <3>1, <3>2
    <3>4. q \in Owners
      BY <3>1, <3>3 DEF Owners
    <3> QED BY <1>2, <3>3, <3>4 DEF Values, Results
  <2> QED BY <2>1 DEF Results
<1> QED BY <1>4, <1>6, <1>7, <1>8 DEF Values

LEMMA InitValues ==
  ASSUME Init, Exact(setup)
  PROVE  Values
<1>1. Live = {} /\ rs = {} /\ rat = [r \in Reg |-> r] /\ regs = setup.regs
      /\ physVal = [p \in Phys |-> 0]
  BY DEF Init, Live
<1>2. CommittedRight
  <2>1. ASSUME NEW r \in Reg PROVE physVal[CommittedReg(r)] = regs[r]
    <3>1. Writers(r) = {}
      BY <1>1 DEF Writers
    <3>2. CommittedReg(r) = r /\ r \in Phys
      BY <1>1, <3>1, PhysFacts DEF CommittedReg
    <3> QED BY <1>1, <3>2 DEF Exact
  <2> QED BY <2>1 DEF CommittedRight
<1> QED BY <1>1, <1>2 DEF Values, IssuedRight, Unissued, Results, Owners

\* From its initial values, the machine keeps to them where no redirect happens.
LEMMA ValuesKept ==
  ASSUME Inv, Inv', Registers, Values, Exact(setup), WindowChained, [Next]_vars, ~Redirect
  PROVE  Values'
<1>1. CASE UNCHANGED vars
  BY <1>1, SameValues DEF vars, arch, rename, window
<1>2. CASE CommitStep
  BY <1>2, RetireValues, SquashValues, EndCommitValues DEF CommitStep, Commits
<1>3. CASE IssueStep
  BY <1>3, AluValues, BranchValues, StoreValues, LoadValues, ForwardValues, PrefetchValues
     DEF IssueStep
<1>4. CASE Complete \/ ResolveBranch
  BY <1>4, CompleteValues, ResolveValues
<1>5. CASE ExecDropped \/ Tick \/ Astray \/ EndExec
  BY <1>5, SameValues DEF ExecDropped, Tick, Astray, EndExec, arch, rename, window
<1>6. CASE Stop \/ Starting \/ EndIssue \/ EndRename \/ EndCycle \/ Deadlock
  <2>1. UNCHANGED <<setup, regs, mem, rename, window>>
    BY <1>6 DEF Stop, Starting, StartCycle, EndIssue, EndRename, EndCycle, Deadlock, arch
  <2> QED BY <2>1, SameValues DEF rename, window
<1>7. CASE FetchStep
  BY <1>7, FetchStepKinds, SameValues DEF Still, arch, rename, window
<1> QED BY <1>1, <1>2, <1>3, <1>4, <1>5, <1>6, <1>7, NextKinds, RenameValues
        DEF ExecStep, OtherStep

LEMMA ExactPredicts ==
  ASSUME NEW s, Exact(s)
  PROVE  TakenArePredicted(s)
BY DEF Exact

LEMMA SetupStays ==
  ASSUME Inv, [Next]_vars
  PROVE  setup' = setup
BY ShrinkKinds, FetchStepKinds DEF Still, Starting, StartCycle

\* Where the program is one the core runs exactly, what has issued holds what the
\* registers and the memory give it, whatever the order of issue: run() in core.py.
LEMMA ValuesHold == Spec => [](setup \in ExactSetups => Values)
<1>1. Init => (setup \in ExactSetups => Values)
  BY InitValues DEF ExactSetups
<1>2. ASSUME Inv, Inv', Orderly, TakenArePredicted(setup) => Path,
             setup \in ExactSetups => Values, [Next]_vars
      PROVE  (setup \in ExactSetups => Values)'
  <2>1. SUFFICES ASSUME setup' \in ExactSetups PROVE Values'
    BY DEF ExactSetups
  <2>2. setup \in ExactSetups /\ Exact(setup) /\ TakenArePredicted(setup)
    BY <1>2, <2>1, SetupStays, ExactPredicts DEF ExactSetups
  <2>3. ~Redirect /\ Registers /\ Values /\ WindowChained
    BY <1>2, <2>2, PredictedKept DEF Orderly, Path
  <2> QED BY <1>2, <2>2, <2>3, ValuesKept
<1> QED BY <1>1, <1>2, InvHolds, OrderlyHolds, PathHolds, PTL DEF Spec

-----------------------------------------------------------------------------
(* Every step is a step of the sequential machine or none.                 *)

\* The sequential machine has the same instructions.
LEMMA SameInstructions ==
  ASSUME NEW i, NEW a, NEW b
  PROVE  /\ Seq_!IsBranch(i) <=> IsBranch(i)
         /\ Seq_!IsHalt(i) <=> IsHalt(i)
         /\ Seq_!WritesRd(i) <=> WritesRd(i)
         /\ Seq_!TakenOn(i, a, b) <=> TakenOn(i, a, b)
         /\ Seq_!Address(i, a) = Address(i, a)
         /\ Seq_!Value(i, a, b) = Value(i, a, b)
<1>1. Seq_!IsBranch(i) <=> IsBranch(i)
  BY DEF Seq_!IsBranch, IsBranch, Seq_!Micro!IsBranch, Micro!IsBranch, Seq_!Micro!BranchOps,
         Micro!BranchOps
<1>2. Seq_!IsHalt(i) <=> IsHalt(i)
  BY DEF Seq_!IsHalt, IsHalt
<1>3. Seq_!WritesRd(i) <=> WritesRd(i)
  BY DEF Seq_!WritesRd, WritesRd, Seq_!Micro!Writes, Micro!Writes
<1>4. Seq_!TakenOn(i, a, b) <=> TakenOn(i, a, b)
  BY DEF Seq_!TakenOn, TakenOn
<1>5. Seq_!Address(i, a) = Address(i, a)
  BY DEF Seq_!Address, Address
<1>6. Seq_!Value(i, a, b) = Value(i, a, b)
  BY DEF Seq_!Value, Value, Seq_!Wrap, Wrap, Seq_!Micro!AluValue, Micro!AluValue,
         Seq_!Micro!FloorDiv, Micro!FloorDiv
<1> QED BY <1>1, <1>2, <1>3, <1>4, <1>5, <1>6

\* The next instruction to execute is the oldest in the window, or the next to enter it.
PcIs ==
  /\ Live = {} => NextPc = QueuePc
  /\ Live # {} => head + 1 \in Live /\ NextPc = rob[head + 1].pc

LEMMA NextPcIs == Inv => PcIs
<1>1. SUFFICES ASSUME Inv PROVE PcIs
  OBVIOUS
<1>2. head \in Nat /\ Len(rob) \in Nat /\ fetchQ \in Seq(Slot)
  BY <1>1, EntryFacts DEF Inv, FrontOK
<1>3. CASE head < Len(rob)
  <2>1. head + 1 \in Live
    BY <1>2, <1>3 DEF Live
  <2> QED BY <1>3, <2>1 DEF PcIs, NextPc, Oldest
<1>4. CASE ~(head < Len(rob))
  <2>1. Live = {}
    BY <1>2, <1>4 DEF Live
  <2>2. fetchQ # <<>> => Head(fetchQ) = fetchQ[1]
    BY <1>2
  <2> QED BY <1>4, <2>1, <2>2 DEF PcIs, NextPc, QueuePc
<1> QED BY <1>3, <1>4

LEMMA NextPcNext ==
  ASSUME Inv'
  PROVE  PcIs'
<1>1. (Inv => PcIs)'
  BY NextPcIs, PTL
<1> QED BY <1>1

LEMMA QuietPc ==
  ASSUME Inv, Inv', Quiet, QueuePc' = QueuePc
  PROVE  NextPc' = NextPc
<1>1. PcIs /\ PcIs'
  BY NextPcIs, NextPcNext
<1>2. head' = head /\ Live' = Live
  BY DEF Quiet, Live
<1>3. Live # {} => rob'[head + 1].pc = rob[head + 1].pc
  <2>1. SUFFICES ASSUME Live # {} PROVE rob'[head + 1].pc = rob[head + 1].pc
    OBVIOUS
  <2>2. head + 1 \in 1 .. Len(rob)
    BY <1>1, <2>1, EntryFacts DEF PcIs, Inv
  <2> QED BY <2>2 DEF Quiet, SameRoles
<1> QED BY <1>1, <1>2, <1>3 DEF PcIs

LEMMA FetchPcStays ==
  ASSUME Inv, Inv', FetchStep
  PROVE  NextPc' = NextPc
<1>1. Quiet
  BY FetchStepKinds, SameIsQuiet DEF Inv, Still, rename, window
<1>2. ASSUME NEW slot, Queued(slot) PROVE QueuePc' = QueuePc
  <2>1. fetchQ \in Seq(Slot) /\ slot \in Slot /\ fetchQ' = Append(fetchQ, slot)
    BY <1>2 DEF Inv, FrontOK, Queued
  <2>2. fetchQ' # <<>> /\ fetchQ'[1] = IF fetchQ = <<>> THEN slot ELSE fetchQ[1]
    <3>1. Len(fetchQ') = Len(fetchQ) + 1 /\ fetchQ' \in Seq(Slot) /\ Len(fetchQ) \in Nat
      BY <2>1, AppendProperties
    <3>2. fetchQ' # <<>>
      BY <3>1, EmptySeq
    <3>3. CASE fetchQ = <<>>
      BY <2>1, <3>3
    <3>4. CASE fetchQ # <<>>
      <4>1. 1 \in 1 .. Len(fetchQ)
        BY <2>1, <3>4, EmptySeq
      <4> QED BY <2>1, <3>4, <4>1, AppendProperties
    <3> QED BY <3>2, <3>3, <3>4
  <2> QED BY <1>2, <2>2 DEF QueuePc, Queued
<1>3. QueuePc' = QueuePc
  BY <1>2, FetchShape DEF QueuePc
<1> QED BY <1>1, <1>3, QuietPc

LEMMA RenamePcStays ==
  ASSUME Inv, Inv', Rename
  PROVE  NextPc' = NextPc
<1>1. PcIs /\ PcIs'
  BY NextPcIs, NextPcNext
<1>2. PICK e \in Sound : /\ CanRename /\ rob' = Append(rob, e) /\ e.pc = Head(fetchQ).pc
  BY RenameShape
<1>3. UNCHANGED <<setup, head>> /\ fetchQ # <<>> /\ fetchQ \in Seq(Slot)
  BY <1>2, IncomingFacts DEF Rename
<1>4. PICK p : p = Len(rob) + 1
  OBVIOUS
<1>5. /\ rob'[p] = e /\ Live' = Live \cup {p}
      /\ \A k \in 1 .. Len(rob) : rob'[k] = rob[k]
  BY <1>2, <1>3, <1>4, GrownBuffer
<1>6. NextPc' = rob'[head + 1].pc
  BY <1>1, <1>3, <1>5 DEF PcIs
<1>7. CASE Live = {}
  <2>1. head + 1 = p
    <3>1. head + 1 \in Live'
      BY <1>1, <1>3, <1>5 DEF PcIs
    <3> QED BY <1>5, <1>7, <3>1
  <2>2. QueuePc = Head(fetchQ).pc
    BY <1>3 DEF QueuePc
  <2> QED BY <1>1, <1>2, <1>5, <1>6, <1>7, <2>1, <2>2 DEF PcIs
<1>8. CASE Live # {}
  <2>1. head + 1 \in 1 .. Len(rob)
    BY <1>1, <1>8, EntryFacts DEF PcIs, Inv
  <2> QED BY <1>1, <1>5, <1>6, <1>8, <2>1 DEF PcIs
<1> QED BY <1>7, <1>8

LEMMA EndCommitPcStays ==
  ASSUME Inv, Inv', EndCommit
  PROVE  NextPc' = NextPc
<1>1. PcIs /\ PcIs'
  BY NextPcIs, NextPcNext
<1>2. PICK n \in Nat : Shifted(n)
  BY EndCommitShape
<1>3. /\ head' = head - n /\ head \in Nat
      /\ \A k \in Live' : k + n \in Live /\ rob'[k] = rob[k + n]
      /\ \A q \in Live : q - n \in Live'
  BY <1>2, EntryFacts DEF Shifted, Inv
<1>4. CASE Live = {}
  <2>1. Live' = {}
    BY <1>3, <1>4
  <2>2. QueuePc' = QueuePc
    BY DEF EndCommit, front, QueuePc
  <2> QED BY <1>1, <1>4, <2>1, <2>2 DEF PcIs
<1>5. CASE Live # {}
  <2>1. Live' # {}
    BY <1>3, <1>5
  <2>2. PICK k : k = head' + 1
    OBVIOUS
  <2>3. k \in Live' /\ NextPc' = rob'[k].pc
    BY <1>1, <2>1, <2>2 DEF PcIs
  <2>4. k + n = head + 1
    BY <1>3, <2>2
  <2> QED BY <1>1, <1>3, <1>5, <2>3, <2>4 DEF PcIs
<1> QED BY <1>4, <1>5

\* The program goes on behind the oldest entry where fetch went on.
LEMMA RetirePc ==
  ASSUME Inv, Inv', Path, Retire, UNCHANGED <<fetchQ, fetchPc>>
  PROVE  NextPc' = After(prog, Oldest)
<1>1. PcIs'
  BY NextPcNext
<1>2. PICK p \in Live :
           /\ p = head + 1 /\ head' = p /\ Live' = Live \ {p}
           /\ Oldest = rob[p] /\ UNCHANGED <<setup, rob>>
           /\ \A k \in Live : p <= k
  BY RetireShape
<1>3. head \in Nat /\ Len(rob) \in Nat /\ Live = head + 1 .. Len(rob)
  BY EntryFacts DEF Inv, Live
<1>4. CASE Live' = {}
  <2>1. Len(rob) = p
    BY <1>2, <1>3, <1>4
  <2>2. QueuePc = After(prog, rob[p])
    BY <1>2, <2>1 DEF Path, Joined
  <2>3. QueuePc' = QueuePc
    BY DEF QueuePc
  <2> QED BY <1>1, <1>2, <1>4, <2>2, <2>3 DEF PcIs
<1>5. CASE Live' # {}
  <2>1. p + 1 \in Live /\ NextPc' = rob[p + 1].pc
    BY <1>1, <1>2, <1>5 DEF PcIs
  <2> QED BY <1>2, <2>1 DEF Path, WindowChained
<1> QED BY <1>4, <1>5

LEMMA OldestOperands ==
  ASSUME Inv, Registers, CommittedRight, NEW p \in Live, p = head + 1, NEW i, i = InstrOf(p)
  PROVE  /\ i.op \notin {"NOP", "JUMP", "HALT", "FENCE"} => Operand(p, 1) = regs[i.rs1]
         /\ i.op \notin {"NOP", "JUMP", "HALT", "FENCE",
                         "ADDI", "MOV", "LOAD", "PREFETCH", "ECALL"} =>
              Operand(p, 2) = regs[i.rs2]
<1>1. PICK m, c : Roles(m, c)
  BY RolesAre
<1>2. \A j \in 1 .. Len(rob[p].srcs) : Operand(p, j) = regs[Reads(i)[j]]
  BY <1>1, OldestReads
<1>3. Len(rob[p].srcs) = Len(Reads(i))
  BY EntryFacts DEF Inv, Fits, InstrOf
<1>4. ASSUME i.op \notin {"NOP", "JUMP", "HALT", "FENCE"} PROVE Operand(p, 1) = regs[i.rs1]
  <2>1. Reads(i) = <<i.rs1>> \/ Reads(i) = <<i.rs1, i.rs2>>
    BY <1>4 DEF Reads
  <2>2. 1 \in 1 .. Len(rob[p].srcs) /\ Reads(i)[1] = i.rs1
    BY <1>3, <2>1
  <2> QED BY <1>2, <2>2
<1>5. ASSUME i.op \notin {"NOP", "JUMP", "HALT", "FENCE",
                         "ADDI", "MOV", "LOAD", "PREFETCH", "ECALL"}
      PROVE  Operand(p, 2) = regs[i.rs2]
  <2>1. Reads(i) = <<i.rs1, i.rs2>>
    BY <1>5 DEF Reads
  <2>2. 2 \in 1 .. Len(rob[p].srcs) /\ Reads(i)[2] = i.rs2
    BY <1>3, <2>1
  <2> QED BY <1>2, <2>2
<1> QED BY <1>4, <1>5

LEMMA OneOperand ==
  ASSUME NEW i, i.op \in {"ADDI", "MOV"}, NEW a, NEW b, NEW d
  PROVE  Value(i, a, b) = Value(i, a, d)
BY DEF Value, Micro!AluValue

\* What the oldest entry holds is what the sequential machine computes.
Computes(i, a, b) ==
  /\ IsBranch(i) => Oldest.val = IF TakenOn(i, a, b) THEN Oldest.pc + i.imm ELSE Oldest.pc + 1
  /\ WritesRd(i) => physVal[Oldest.dst] = IF i.op = "LOAD" THEN mem[Address(i, a)]
                                                           ELSE Value(i, a, b)
  /\ i.op = "STORE" => Oldest.addr = Address(i, a) /\ Oldest.val = b

LEMMA OldestComputes ==
  ASSUME Inv, Registers, Values, Path, CanCommit
  PROVE  Computes(OldestInstr, regs[OldestInstr.rs1], regs[OldestInstr.rs2])
<1>1. PICK p \in Live : p = head + 1 /\ Oldest = rob[p] /\ OldestInstr = InstrOf(p)
                        /\ rob[p].done /\ p \notin rs
  BY OldestFacts
<1>2. PICK i, a, b : i = InstrOf(p) /\ a = regs[i.rs1] /\ b = regs[i.rs2]
  OBVIOUS
<1>3. Issues(i) => Right(p)
  BY <1>1, <1>2 DEF Values, IssuedRight
<1>4. /\ i.op \notin {"NOP", "JUMP", "HALT", "FENCE"} => Operand(p, 1) = a
      /\ i.op \notin {"NOP", "JUMP", "HALT", "FENCE",
                      "ADDI", "MOV", "LOAD", "PREFETCH", "ECALL"} => Operand(p, 2) = b
  BY <1>1, <1>2, OldestOperands DEF Values
<1>5. ASSUME IsBranch(i)
      PROVE  Oldest.val = IF TakenOn(i, a, b) THEN Oldest.pc + i.imm ELSE Oldest.pc + 1
  <2>1. i.op \in {"BEQ", "BNE", "JUMP"} /\ Issues(i)
    BY <1>5 DEF IsBranch, Micro!IsBranch, Micro!BranchOps, Issues, IsHalt
  <2>2. rob[p].operands[1] = Operand(p, 1) /\ rob[p].operands[2] = Operand(p, 2)
    BY <1>2, <1>3, <1>5, <2>1 DEF Right
  <2>3. InstrAt(rob[p].pc) = i
    BY <1>2 DEF InstrOf
  <2>4. Taken(rob[p]) <=> TakenOn(i, a, b)
    <3>1. CASE i.op = "JUMP"
      BY <2>3, <3>1 DEF Taken, TakenOn
    <3>2. CASE i.op # "JUMP"
      BY <1>4, <2>1, <2>2, <2>3, <3>2 DEF Taken, TakenOn
    <3> QED BY <3>1, <3>2
  <2>5. Decided(rob[p])
    BY <1>1, <1>2, <1>5 DEF Path, BranchesDecided
  <2> QED BY <1>1, <2>3, <2>4, <2>5 DEF Decided
<1>6. ASSUME WritesRd(i)
      PROVE  physVal[Oldest.dst] = IF i.op = "LOAD" THEN mem[Address(i, a)] ELSE Value(i, a, b)
  <2>1. i.op \in {"ADD", "SUB", "MUL", "DIV", "ADDI", "MOV", "LOAD", "VADD", "VMUL"}
    BY <1>6 DEF WritesRd, Micro!Writes
  <2>2. Right(p)
    BY <1>3, <2>1 DEF Issues, IsHalt
  <2>3. p \in Owners
    BY <1>2, <1>6, OwnerFacts
  <2>4. physVal[Oldest.dst] = rob[p].val
    BY <1>1, <2>3 DEF Values, Results
  <2>5. CASE i.op = "LOAD"
    <3>1. LoadRight(p)
      BY <1>2, <2>2, <2>5 DEF Right
    <3>2. Stores(p) = {}
      <4>1. \A k \in Live : ~(k < p)
        <5>1. \A k \in Live : k \in Nat /\ k > head
          BY EntryFacts DEF Inv
        <5>2. head \in Nat
          BY EntryFacts DEF Inv
        <5> QED BY <1>1, <5>1, <5>2
      <4> QED BY <4>1 DEF Stores
    <3>3. rob[p].val = mem[AddressOf(p)]
      BY <3>1, <3>2 DEF LoadRight
    <3>4. AddressOf(p) = Address(i, a)
      BY <1>2, <1>4, <2>5 DEF AddressOf
    <3> QED BY <2>4, <2>5, <3>3, <3>4
  <2>6. CASE i.op # "LOAD"
    <3>1. rob[p].val = Value(i, Operand(p, 1), Operand(p, 2))
      BY <1>2, <1>6, <2>2, <2>6 DEF Right
    <3>2. Operand(p, 1) = a
      BY <1>4, <2>1
    <3>3. CASE i.op \in {"ADDI", "MOV"}
      BY <2>4, <2>6, <3>1, <3>2, <3>3, OneOperand
    <3>4. CASE i.op \notin {"ADDI", "MOV"}
      <4>1. Operand(p, 2) = b
        BY <1>4, <2>1, <2>6, <3>4
      <4> QED BY <2>4, <2>6, <3>1, <3>2, <4>1
    <3> QED BY <3>3, <3>4
  <2> QED BY <2>5, <2>6
<1>7. ASSUME i.op = "STORE" PROVE Oldest.addr = Address(i, a) /\ Oldest.val = b
  <2>1. Right(p)
    BY <1>3, <1>7 DEF Issues, IsHalt
  <2>2. rob[p].addr = AddressOf(p) /\ rob[p].val = Operand(p, 2)
    BY <1>2, <1>7, <2>1 DEF Right
  <2>3. Operand(p, 1) = a /\ Operand(p, 2) = b
    BY <1>4, <1>7
  <2> QED BY <1>1, <1>2, <2>2, <2>3 DEF AddressOf
<1> QED BY <1>1, <1>2, <1>5, <1>6, <1>7 DEF Computes

\* The same for what the step does: committing the oldest entry executes its instruction.
ExecutesOne(i, a, b) ==
  /\ NextPc' = IF IsBranch(i) /\ TakenOn(i, a, b) THEN NextPc + i.imm ELSE NextPc + 1
  /\ halted' = IsHalt(i)
  /\ exitCode' = IF i.op = "ECALL" THEN a ELSE exitCode
  /\ mem' = IF i.op = "STORE" THEN [mem EXCEPT ![Address(i, a)] = b] ELSE mem
  /\ regs' = IF WritesRd(i)
               THEN [regs EXCEPT ![i.rd] = IF i.op = "LOAD" THEN mem[Address(i, a)]
                                                            ELSE Value(i, a, b)]
               ELSE regs

LEMMA OldestPc ==
  ASSUME Inv, CanCommit
  PROVE  NextPc = Oldest.pc /\ NextPc \in 0 .. Len(prog) - 1 /\ OldestInstr = prog[NextPc + 1]
<1>1. head + 1 \in Live /\ Oldest = rob[head + 1] /\ OldestInstr = InstrOf(head + 1)
  BY OldestFacts
<1>2. NextPc = rob[head + 1].pc
  BY <1>1, NextPcIs DEF PcIs
<1>3. rob[head + 1].pc \in 0 .. Len(prog) - 1
  BY <1>1, EntryFacts DEF Inv
<1> QED BY <1>1, <1>2, <1>3 DEF InstrOf, InstrAt

LEMMA CommitExecutes ==
  ASSUME Inv, Inv', Registers, Values, Path, Commits,
         NEW i, i = OldestInstr, NEW a, a = regs[i.rs1], NEW b, b = regs[i.rs2]
  PROVE  ExecutesOne(i, a, b)
<1>1. /\ CanCommit /\ UNCHANGED <<setup, rob, rs, physVal, physReady>>
      /\ \A r \in Reg : regs'[r] = IF WritesRd(i) /\ i.rd = r THEN physVal[Oldest.dst] ELSE regs[r]
      /\ mem' = IF i.op = "STORE" THEN [mem EXCEPT ![Oldest.addr] = Oldest.val] ELSE mem
  BY CommitEffects
<1>2. Computes(i, a, b) /\ NextPc = Oldest.pc
  BY <1>1, OldestComputes, OldestPc
<1>3. ~Oldest.mispredicted /\ Retire /\ UNCHANGED <<fetchQ, fetchPc>>
  BY CommitKinds DEF Commits, CommitStore, CommitHalt, CommitOther, front
<1>4. NextPc' = IF IsBranch(i) /\ TakenOn(i, a, b) THEN NextPc + i.imm ELSE NextPc + 1
  <2>1. NextPc' = After(prog, Oldest)
    BY <1>3, RetirePc
  <2>2. PICK p \in Live : p = head + 1 /\ Oldest = rob[p] /\ i = InstrOf(p) /\ rob[p].done
    BY <1>1, OldestFacts
  <2>3. CASE IsBranch(i)
    <3>1. Decided(rob[p])
      BY <2>2, <2>3 DEF Path, BranchesDecided
    <3> QED BY <1>2, <1>3, <2>1, <2>2, <2>3, <3>1 DEF Decided, Computes
  <2>4. CASE ~IsBranch(i)
    <3>1. JumpsWell(prog, rob[p])
      BY <2>2 DEF Path, WindowChained
    <3>2. prog[rob[p].pc + 1] = i
      BY <2>2 DEF InstrOf, InstrAt
    <3> QED BY <1>2, <2>1, <2>2, <2>4, <3>1, <3>2 DEF JumpsWell, After
  <2> QED BY <2>3, <2>4
<1>5. halted' = IsHalt(i) /\ exitCode' = IF i.op = "ECALL" THEN a ELSE exitCode
  <2>1. halted = FALSE
    BY <1>1 DEF CanCommit, Inv, ArchOK
  <2>2. CASE CommitHalt
    BY <2>2 DEF CommitHalt, IsHalt
  <2>3. CASE CommitStore \/ CommitOther
    <3>1. UNCHANGED <<exitCode, halted>>
      BY <2>3 DEF CommitStore, CommitOther
    <3>2. ~IsHalt(i)
      BY <2>3 DEF CommitStore, CommitOther, IsHalt
    <3>3. i.op # "ECALL"
      BY <3>2 DEF IsHalt
    <3>4. IsHalt(i) = FALSE
      BY <3>2 DEF IsHalt
    <3> QED BY <2>1, <3>1, <3>3, <3>4
  <2> QED BY <2>2, <2>3 DEF Commits
<1>6. mem' = IF i.op = "STORE" THEN [mem EXCEPT ![Address(i, a)] = b] ELSE mem
  BY <1>1, <1>2 DEF Computes
<1>7. regs' = IF WritesRd(i)
                THEN [regs EXCEPT ![i.rd] = IF i.op = "LOAD" THEN mem[Address(i, a)]
                                                             ELSE Value(i, a, b)]
                ELSE regs
  <2>1. PICK v : v = physVal[Oldest.dst]
    OBVIOUS
  <2>2. regs \in [Reg -> Word] /\ regs' \in [Reg -> Word]
    BY DEF Inv, ArchOK
  <2>3. WritesRd(i) => i.rd \in Reg
    BY <1>1, OldestFacts, ReadsType
  <2>4. CASE WritesRd(i)
    <3>1. regs' = [regs EXCEPT ![i.rd] = v]
      BY <1>1, <2>1, <2>2, <2>3, <2>4
    <3> QED BY <1>2, <2>1, <2>4, <3>1 DEF Computes
  <2>5. CASE ~WritesRd(i)
    BY <1>1, <2>2, <2>5
  <2> QED BY <2>4, <2>5
<1> QED BY <1>4, <1>5, <1>6, <1>7 DEF ExecutesOne

LEMMA SquashExecutes ==
  ASSUME Inv, Inv', Registers, Values, Path, Squash,
         NEW i, i = OldestInstr, NEW a, a = regs[i.rs1], NEW b, b = regs[i.rs2]
  PROVE  ExecutesOne(i, a, b)
<1>1. CanCommit /\ UNCHANGED <<regs, mem, exitCode, halted>> /\ fetchQ' = <<>>
      /\ fetchPc' = Oldest.val
  BY DEF Squash, arch, Truncate
<1>2. Computes(i, a, b) /\ NextPc = Oldest.pc
  BY <1>1, OldestComputes, OldestPc
<1>3. IsBranch(i)
  <2>1. Fits(Oldest) /\ Oldest.mispredicted /\ i = InstrAt(Oldest.pc)
    BY <1>1, OldestFacts DEF Squash, OldestInstr
  <2> QED BY <2>1 DEF Fits
<1>4. ~WritesRd(i) /\ IsHalt(i) = FALSE /\ i.op \notin {"STORE", "ECALL"}
  BY <1>3 DEF IsBranch, Micro!IsBranch, Micro!BranchOps, IsHalt, WritesRd, Micro!Writes
<1>5. NextPc' = Oldest.val
  <2>1. Live' = {}
    BY SquashShape
  <2> QED BY <1>1, <2>1, NextPcNext DEF PcIs, QueuePc
<1>6. halted = FALSE
  BY <1>1 DEF CanCommit, Inv, ArchOK
<1> QED BY <1>1, <1>2, <1>3, <1>4, <1>5, <1>6 DEF ExecutesOne, Computes

LEMMA ExecuteStep ==
  ASSUME Inv, CanCommit, setup' = setup,
         ExecutesOne(OldestInstr, regs[OldestInstr.rs1], regs[OldestInstr.rs2])
  PROVE  Seq_!Next
<1>1. PICK i, a, b : i = OldestInstr /\ a = regs[i.rs1] /\ b = regs[i.rs2]
  OBVIOUS
<1>2. /\ NextPc \in 0 .. Len(prog) - 1 /\ prog[NextPc + 1] = i /\ ~halted
      /\ prog' = prog /\ ExecutesOne(i, a, b)
  BY <1>1, OldestPc, SoundKept DEF CanCommit
<1>3. /\ Seq_!IsBranch(i) <=> IsBranch(i)
      /\ Seq_!IsHalt(i) <=> IsHalt(i)
      /\ Seq_!WritesRd(i) <=> WritesRd(i)
      /\ Seq_!TakenOn(i, a, b) <=> TakenOn(i, a, b)
      /\ Seq_!Address(i, a) = Address(i, a)
      /\ Seq_!Value(i, a, b) = Value(i, a, b)
  BY SameInstructions
<1>4. halted' = Seq_!IsHalt(i)
  BY <1>2 DEF ExecutesOne, Seq_!IsHalt, IsHalt
<1>5. Seq_!Execute
  BY <1>1, <1>2, <1>3, <1>4 DEF ExecutesOne, Seq_!Execute, Seq_!InProgram
<1> QED BY <1>5 DEF Seq_!Next

\* The cycle in which everything fetched has committed stops the machine: the sequential
\* one has left the program.
LEMMA EndCycleStep ==
  ASSUME Inv, Inv', Path, EndCycle
  PROVE  Seq_!Next \/ UNCHANGED Seq_!vars
<1>1. UNCHANGED <<setup, regs, mem, exitCode, rename, window, front>>
      /\ halted' = (halted \/ Drained)
  BY DEF EndCycle
<1>2. Quiet /\ QueuePc' = QueuePc
  BY <1>1, SameIsQuiet DEF rename, window, front, QueuePc, Inv
<1>3. NextPc' = NextPc /\ prog' = prog
  BY <1>1, <1>2, QuietPc, SoundKept
<1>4. CASE halted \/ ~Drained
  <2>1. halted' = halted
    BY <1>1, <1>4 DEF Inv, ArchOK, Drained
  <2> QED BY <1>1, <1>3, <2>1 DEF Seq_!vars
<1>5. CASE ~halted /\ Drained
  <2>1. fetchHalted /\ fetchQ = <<>> /\ head = Len(rob)
    BY <1>5 DEF Drained
  <2>2. Live = {} /\ fetchPc \in Int /\ Len(prog) \in Nat
    BY <2>1, EntryFacts, SetupFacts DEF Live, Inv, FrontOK
  <2>3. fetchPc >= Len(prog)
    <3>1. Len(fetchQ) = 0
      BY <2>1
    <3> QED BY <1>5, <2>1, <2>2, <3>1 DEF Path, HaltSeen
  <2>4. NextPc = fetchPc
    BY <2>1, <2>2, NextPcIs DEF PcIs, QueuePc
  <2>5. ~(NextPc \in 0 .. Len(prog) - 1)
    BY <2>2, <2>3, <2>4
  <2>6. halted' = TRUE
    BY <1>1, <1>5
  <2>7. Seq_!LeaveProgram
    BY <1>1, <1>3, <1>5, <2>5, <2>6 DEF Seq_!LeaveProgram, Seq_!InProgram
  <2> QED BY <2>7 DEF Seq_!Next
<1> QED BY <1>4, <1>5

LEMMA SeqStep ==
  ASSUME Inv, Inv', Registers, Values, Path, [Next]_vars, ~Redirect
  PROVE  Seq_!Next \/ UNCHANGED Seq_!vars
<1>0. setup' = setup /\ prog' = prog
  BY SetupStays, SoundKept
<1>1. ASSUME Quiet, UNCHANGED arch, UNCHANGED <<fetchQ, fetchPc>>
      PROVE  UNCHANGED Seq_!vars
  <2>1. NextPc' = NextPc
    BY <1>1, QuietPc DEF QueuePc
  <2> QED BY <1>0, <1>1, <2>1 DEF Seq_!vars, arch
<1>2. CASE UNCHANGED vars
  <2>1. Quiet /\ UNCHANGED arch /\ UNCHANGED <<fetchQ, fetchPc>>
    BY <1>2, SameIsQuiet DEF vars, rename, window, front, Inv
  <2> QED BY <1>1, <2>1
<1>3. CASE Commits
  <2>1. CanCommit
    BY <1>3, CommitEffects
  <2>2. ExecutesOne(OldestInstr, regs[OldestInstr.rs1], regs[OldestInstr.rs2])
    BY <1>3, CommitExecutes
  <2> QED BY <1>0, <2>1, <2>2, ExecuteStep
<1>4. CASE Squash
  <2>1. CanCommit
    BY <1>4 DEF Squash
  <2>2. ExecutesOne(OldestInstr, regs[OldestInstr.rs1], regs[OldestInstr.rs2])
    BY <1>4, SquashExecutes
  <2> QED BY <1>0, <2>1, <2>2, ExecuteStep
<1>5. CASE EndCommit
  BY <1>0, <1>5, EndCommitPcStays DEF EndCommit, arch, Seq_!vars
<1>6. CASE IssueStep
  <2>1. PICK e \in Sound : IssueForm(e)
    BY <1>6, IssueStepForm
  <2>2. UNCHANGED arch /\ UNCHANGED <<fetchQ, fetchPc>>
    BY <2>1 DEF IssueForm, LeaveRs, front
  <2> QED BY <1>1, <1>6, <2>2, IssueIsQuiet
<1>7. CASE ExecStep
  <2>1. UNCHANGED arch /\ UNCHANGED <<fetchQ, fetchPc>>
    BY <1>7 DEF ExecStep, ExecDropped, Tick, Complete, ResolveBranch, Astray, EndExec, front
  <2> QED BY <1>1, <1>7, <2>1, ExecIsQuiet
<1>8. CASE Stop \/ Starting \/ EndIssue \/ EndRename \/ Deadlock
  <2>1. UNCHANGED <<setup, arch, rename, window, front>>
    BY <1>8 DEF Stop, Starting, StartCycle, EndIssue, EndRename, Deadlock
  <2>2. Quiet
    BY <2>1, SameIsQuiet DEF rename, window, Inv
  <2> QED BY <1>1, <2>1, <2>2 DEF front
<1>9. CASE Rename
  <2>1. UNCHANGED arch
    BY <1>9 DEF Rename
  <2> QED BY <1>0, <1>9, <2>1, RenamePcStays DEF arch, Seq_!vars
<1>10. CASE FetchStep
  <2>1. UNCHANGED arch
    BY <1>10, FetchStepKinds DEF Still
  <2> QED BY <1>0, <1>10, <2>1, FetchPcStays DEF arch, Seq_!vars
<1> QED BY <1>2, <1>3, <1>4, <1>5, <1>6, <1>7, <1>8, <1>9, <1>10, NextKinds, EndCycleStep
        DEF CommitStep, Commits, OtherStep

LEMMA SeqInit ==
  ASSUME Init
  PROVE  Seq_!Init
<1>1. /\ setup \in Setups /\ regs = setup.regs /\ mem = setup.mem
      /\ exitCode = 0 /\ halted = FALSE /\ rob = <<>> /\ head = 0
      /\ fetchQ = <<>> /\ fetchPc = 0
  BY DEF Init
<1>2. NextPc = 0
  BY <1>1 DEF NextPc
<1> QED BY <1>1, <1>2 DEF Seq_!Init, prog

\* The core computes what the sequential machine computes, for every size of the core and
\* every program of this kind: registers start at zero; every taken branch is predicted, or
\* there is none; the stores of a program that may match one of its loads are at most one,
\* and there is none in a program with a branch backwards (the core forwards the oldest
\* match, which need not be the right one); no LOAD targets r0; no branch leads below the
\* program.  For these, out-of-order issue, forwarding, speculation, recycling of registers
\* and control changes leave no trace in registers, memory and exit code; for others nothing
\* is claimed.
THEOREM ExactlySequential == Spec => ImplementsSeqVmarch
<1>1. Init => (setup \in ExactSetups => Seq_!Init)
  BY SeqInit
<1>2. ASSUME Inv, Inv', Orderly, TakenArePredicted(setup) => Path,
             setup \in ExactSetups => Values, [Next]_vars
      PROVE  [(setup \in ExactSetups) => Seq_!Next \/ UNCHANGED Seq_!vars]_vars
  <2>1. SUFFICES ASSUME setup \in ExactSetups PROVE Seq_!Next \/ UNCHANGED Seq_!vars
    OBVIOUS
  <2>2. Exact(setup) /\ TakenArePredicted(setup)
    BY <2>1, ExactPredicts DEF ExactSetups
  <2>3. Registers /\ Path /\ Values /\ ~Redirect
    BY <1>2, <2>1, <2>2, PredictedKept DEF Orderly
  <2> QED BY <1>2, <2>3, SeqStep
<1> QED BY <1>1, <1>2, InvHolds, OrderlyHolds, PathHolds, ValuesHold, PTL
        DEF Spec, ImplementsSeqVmarch
=============================================================================
