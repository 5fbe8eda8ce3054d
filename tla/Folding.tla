------------------------------ MODULE Folding ------------------------------
(***************************************************************************)
(* Induction along a fold.  FoldLeft and FoldSet are computed over tables  *)
(* of partial folds; what the step of a fold keeps, the fold keeps.  The   *)
(* step is the operator Next, what it keeps the operator Fact, so that a   *)
(* module that folds with a step of its own takes both theorems by         *)
(* INSTANCE.  VirtualComputerProofs does so for the walks of the kernel's  *)
(* oracle and for the programs of the lowering.                            *)
(***************************************************************************)
EXTENDS Integers, FiniteSets, Sequences, FiniteSetsExt, FiniteSetTheorems, WellFoundedInduction, TLAPS

CONSTANTS Next(_, _), Fact(_, _, _)

LEMMA LeastOne ==
  ASSUME NEW S \in SUBSET Nat, S # {}
  PROVE  \E n \in S : \A m \in S : n <= m
<1>1. PICK n \in S : \A m \in S : ~(<<m, n>> \in OpToRel(<, Nat))
  BY NatLessThanWellFounded, WFMin
<1>2. \A m \in S : ~(m < n)
  BY <1>1 DEF OpToRel
<1> QED BY <1>2

\* The greatest of the first numbers, and what is left of a set of them.
LEMMA GreatestOf ==
  ASSUME NEW k \in Nat, NEW s \in SUBSET (1 .. k + 1)
  PROVE  /\ k + 1 \in s => Max(s) = k + 1 /\ s \ {k + 1} \in SUBSET (1 .. k)
         /\ k + 1 \notin s => s \in SUBSET (1 .. k)
<1>1. \A x \in s : x \in Int /\ 1 <= x /\ x <= k + 1
  OBVIOUS
<1>2. ASSUME k + 1 \in s PROVE Max(s) = k + 1
  <2>1. \E x \in s : \A y \in s : x >= y
    BY <1>1, <1>2
  <2>2. Max(s) \in s /\ \A y \in s : Max(s) >= y
    BY <2>1 DEF Max
  <2>3. Max(s) >= k + 1 /\ Max(s) <= k + 1 /\ Max(s) \in Int
    BY <1>1, <1>2, <2>2
  <2> QED BY <2>3
<1>3. ASSUME NEW x \in s, x # k + 1 PROVE x \in 1 .. k
  BY <1>1, <1>3
<1> QED BY <1>2, <1>3

\* FoldLeft(Next, base, seq), without the rest of SequencesExt: every instance would
\* bring its definitions along.
Folded(base, seq) == MapThenFoldSet(LAMBDA x, y : Next(y, x), base, LAMBDA i : seq[i], Max, DOMAIN seq)

Table(g, base, seq, k) ==
  g = [s \in SUBSET (1 .. k) |->
         IF s = {} THEN base ELSE Next(g[s \ {Max(s)}], seq[Max(s)])]

\* There is a table of the folds of the first elements.
LEMMA TableExists ==
  ASSUME NEW base, NEW seq, NEW n \in Nat
  PROVE  \E g : Table(g, base, seq, n)
<1> DEFINE Missing == {k \in Nat : ~ \E g : Table(g, base, seq, k)}
<1>1. SUFFICES ASSUME Missing # {} PROVE FALSE
  OBVIOUS
<1>2. PICK k \in Missing : \A m \in Missing : k <= m
  BY <1>1, LeastOne
<1>3. k # 0
  <2> DEFINE g == [s \in SUBSET (1 .. 0) |-> base]
  <2>1. SUBSET (1 .. 0) = {{}}
    OBVIOUS
  <2>2. Table(g, base, seq, 0)
    BY <2>1 DEF Table
  <2> QED BY <1>2, <2>2
<1>4. PICK j \in Nat : k = j + 1
  BY <1>2, <1>3
<1>5. j \notin Missing
  BY <1>2, <1>4
<1>6. PICK h : Table(h, base, seq, j)
  BY <1>5
<1> DEFINE g == [s \in SUBSET (1 .. k) |->
                   IF k \in s THEN Next(h[s \ {k}], seq[k]) ELSE h[s]]
           F(s) == IF s = {} THEN base ELSE Next(g[s \ {Max(s)}], seq[Max(s)])
<1>7. \A s \in SUBSET (1 .. j) : s \in SUBSET (1 .. k) /\ k \notin s /\ g[s] = h[s]
  BY <1>4
<1>8. ASSUME NEW s \in SUBSET (1 .. k) PROVE g[s] = F(s)
  <2>1. CASE k \in s
    <3>1. Max(s) = k /\ s \ {k} \in SUBSET (1 .. j) /\ s # {}
      BY <1>4, <2>1, GreatestOf
    <3>2. g[s \ {k}] = h[s \ {k}]
      BY <1>7, <3>1
    <3>3. g[s] = Next(h[s \ {k}], seq[k])
      BY <2>1
    <3> HIDE DEF g
    <3> QED BY <3>1, <3>2, <3>3
  <2>2. CASE k \notin s
    <3>1. s \in SUBSET (1 .. j)
      BY <1>4, <2>2, GreatestOf
    <3>2. h[s] = IF s = {} THEN base ELSE Next(h[s \ {Max(s)}], seq[Max(s)])
      BY <1>6, <3>1 DEF Table
    <3>3. s \ {Max(s)} \in SUBSET (1 .. j)
      BY <3>1
    <3>4. g[s] = h[s] /\ g[s \ {Max(s)}] = h[s \ {Max(s)}]
      BY <1>7, <3>1, <3>3
    <3> HIDE DEF g
    <3> QED BY <3>2, <3>4
  <2> QED BY <2>1, <2>2
<1>9. g = [s \in SUBSET (1 .. k) |-> F(s)]
  <2> DEFINE G == g
  <2>1. DOMAIN G = SUBSET (1 .. k) /\ G = [s \in SUBSET (1 .. k) |-> G[s]]
    OBVIOUS
  <2> HIDE DEF g
  <2> QED BY <1>8, <2>1
<1>10. Table(g, base, seq, k)
  <2> HIDE DEF g
  <2> QED BY <1>9 DEF Table
<1> QED BY <1>2, <1>10

LEMMA TableOf ==
  ASSUME NEW base, NEW T, NEW seq \in Seq(T)
  PROVE  \E g : /\ Table(g, base, seq, Len(seq))
                /\ Folded(base, seq) = g[1 .. Len(seq)]
<1>1. DOMAIN seq = 1 .. Len(seq) /\ Len(seq) \in Nat
  OBVIOUS
<1> DEFINE G == CHOOSE g : Table(g, base, seq, Len(seq))
<1>2. Table(G, base, seq, Len(seq))
  BY <1>1, TableExists
<1>3. Folded(base, seq) = G[1 .. Len(seq)]
  BY <1>1, Zenon DEF Folded, MapThenFoldSet, Table
<1> QED BY <1>2, <1>3

\* What holds of the base, and of a fold of one element more whenever it holds of
\* the fold without it, holds of the fold of a sequence.
THEOREM FoldLeftKeeps ==
  ASSUME NEW p, NEW base, NEW T, NEW seq \in Seq(T), Fact(p, 0, base),
         \A n \in 0 .. Len(seq) - 1 : \A w : Fact(p, n, w) => Fact(p, n + 1, Next(w, seq[n + 1]))
  PROVE  Fact(p, Len(seq), Folded(base, seq))
<1>1. PICK g : /\ Table(g, base, seq, Len(seq))
               /\ Folded(base, seq) = g[1 .. Len(seq)]
  BY TableOf
<1>2. Len(seq) \in Nat
  OBVIOUS
<1> DEFINE Wrong == {k \in Nat : k <= Len(seq) /\ ~Fact(p, k, g[1 .. k])}
<1>3. SUFFICES ASSUME Wrong # {} PROVE FALSE
  BY <1>1, <1>2
<1>4. PICK k \in Wrong : \A m \in Wrong : k <= m
  BY <1>3, LeastOne
<1>9. k \in Nat /\ k <= Len(seq) /\ ~Fact(p, k, g[1 .. k])
  BY <1>4
<1>10. \A m \in Nat : m < k => Fact(p, m, g[1 .. m])
  <2> SUFFICES ASSUME NEW m \in Nat, m < k PROVE Fact(p, m, g[1 .. m])
    OBVIOUS
  <2>1. m \notin Wrong
    BY <1>4, <1>9
  <2>2. m <= Len(seq)
    BY <1>2, <1>9
  <2> QED BY <2>1, <2>2
<1> HIDE DEF Wrong
<1>5. 1 .. k \in SUBSET (1 .. Len(seq))
  BY <1>2, <1>9
<1>6. g[1 .. k] = IF 1 .. k = {} THEN base
                  ELSE Next(g[(1 .. k) \ {Max(1 .. k)}], seq[Max(1 .. k)])
  BY <1>1, <1>5 DEF Table
<1>7. CASE k = 0
  <2>1. 1 .. k = {}
    BY <1>7
  <2> QED BY <1>6, <1>7, <1>9, <2>1
<1>8. CASE k # 0
  <2>1. PICK j \in Nat : k = j + 1
    <3>1. k - 1 \in Nat /\ k = (k - 1) + 1
      BY <1>8, <1>9
    <3> QED BY <3>1
  <2>2. Max(1 .. k) = k
    BY <2>1, GreatestOf
  <2>3. (1 .. k) \ {k} = 1 .. j /\ 1 .. k # {}
    <3>1. \A x : x \in 1 .. k /\ x # k <=> x \in 1 .. j
      BY <2>1
    <3>2. k \in 1 .. k
      BY <2>1
    <3> QED BY <3>1, <3>2
  <2>4. g[1 .. k] = Next(g[1 .. j], seq[j + 1])
    BY <1>6, <2>1, <2>2, <2>3
  <2>5. Fact(p, j, g[1 .. j])
    BY <1>10, <2>1
  <2>6. j \in 0 .. Len(seq) - 1
    BY <1>2, <1>9, <2>1
  <2>7. Fact(p, j + 1, Next(g[1 .. j], seq[j + 1]))
    BY <2>5, <2>6
  <2> QED BY <1>9, <2>1, <2>4, <2>7
<1> QED BY <1>7, <1>8

-----------------------------------------------------------------------------
(* Folds of sets.                                                          *)

OneOf(s) == CHOOSE x \in s : TRUE

SetTable(g, base, S, k) ==
  /\ g = [s \in SUBSET S |-> g[s]]
  /\ \A s \in SUBSET S : Cardinality(s) <= k =>
       g[s] = IF s = {} THEN base ELSE Next(OneOf(s), g[s \ {OneOf(s)}])

LEMMA SetTableExists ==
  ASSUME NEW base, NEW S, IsFiniteSet(S), NEW n \in Nat
  PROVE  \E g : SetTable(g, base, S, n)
<1> DEFINE Missing == {k \in Nat : ~ \E g : SetTable(g, base, S, k)}
<1>1. SUFFICES ASSUME Missing # {} PROVE FALSE
  OBVIOUS
<1>2. PICK k \in Missing : \A m \in Missing : k <= m
  BY <1>1, LeastOne
<1>3. \A s \in SUBSET S : IsFiniteSet(s) /\ Cardinality(s) \in Nat /\ (Cardinality(s) = 0 <=> s = {})
  BY FS_Subset, FS_CardinalityType, FS_EmptySet
<1>4. k # 0
  <2> DEFINE g == [s \in SUBSET S |-> base]
  <2>1. g = [s \in SUBSET S |-> g[s]] /\ \A s \in SUBSET S : Cardinality(s) <= 0 => s = {} /\ g[s] = base
    BY <1>3
  <2>2. SetTable(g, base, S, 0)
    BY <2>1 DEF SetTable
  <2> QED BY <1>2, <2>2
<1>5. PICK j \in Nat : k = j + 1
  BY <1>2, <1>4
<1>6. j \notin Missing
  BY <1>2, <1>5
<1>7. PICK h : SetTable(h, base, S, j)
  BY <1>6
<1> DEFINE g == [s \in SUBSET S |->
                   IF Cardinality(s) <= j THEN h[s] ELSE Next(OneOf(s), h[s \ {OneOf(s)}])]
<1>8. ASSUME NEW s \in SUBSET S, s # {}
      PROVE  OneOf(s) \in s /\ s \ {OneOf(s)} \in SUBSET S
             /\ Cardinality(s \ {OneOf(s)}) = Cardinality(s) - 1
  <2>1. OneOf(s) \in s
    BY <1>8 DEF OneOf
  <2>2. IsFiniteSet(s)
    BY <1>3
  <2>3. Cardinality(s \ {OneOf(s)}) = Cardinality(s) - 1
    BY <2>1, <2>2, FS_RemoveElement
  <2> QED BY <2>1, <2>3
<1>9. ASSUME NEW s \in SUBSET S, Cardinality(s) <= k
      PROVE  g[s] = IF s = {} THEN base ELSE Next(OneOf(s), g[s \ {OneOf(s)}])
  <2>1. CASE s = {}
    <3>1. Cardinality(s) <= j
      BY <1>3, <2>1
    <3>2. g[s] = h[s]
      BY <3>1
    <3> HIDE DEF g
    <3> QED BY <1>7, <2>1, <3>1, <3>2 DEF SetTable
  <2>2. CASE s # {}
    <3> DEFINE r == s \ {OneOf(s)}
    <3>1. r \in SUBSET S /\ Cardinality(r) = Cardinality(s) - 1
      BY <1>8, <2>2
    <3>2. Cardinality(r) <= j
      BY <1>3, <1>5, <1>9, <3>1
    <3>3. g[r] = h[r]
      <4> HIDE DEF r
      <4> QED BY <3>1, <3>2
    <3>4. CASE Cardinality(s) <= j
      <4>1. g[s] = h[s]
        BY <3>4
      <4>2. h[s] = Next(OneOf(s), h[r])
        BY <1>7, <2>2, <3>4 DEF SetTable
      <4> HIDE DEF g, r
      <4> QED BY <2>2, <3>3, <4>1, <4>2 DEF r
    <3>5. CASE ~(Cardinality(s) <= j)
      <4>1. g[s] = Next(OneOf(s), h[r])
        BY <3>5
      <4> HIDE DEF g
      <4> QED BY <2>2, <3>3, <4>1
    <3> QED BY <3>4, <3>5
  <2> QED BY <2>1, <2>2
<1>10. g = [s \in SUBSET S |-> g[s]]
  OBVIOUS
<1>11. SetTable(g, base, S, k)
  <2> HIDE DEF g
  <2> QED BY <1>9, <1>10 DEF SetTable
<1> QED BY <1>2, <1>11

LEMMA SetTableOf ==
  ASSUME NEW base, NEW S, IsFiniteSet(S)
  PROVE  \E g : SetTable(g, base, S, Cardinality(S)) /\ FoldSet(Next, base, S) = g[S]
<1> DEFINE Equation(g) ==
             g = [s \in SUBSET S |-> IF s = {} THEN base ELSE Next(OneOf(s), g[s \ {OneOf(s)}])]
           G == CHOOSE g : Equation(g)
<1>1. Cardinality(S) \in Nat
  BY FS_CardinalityType
<1>2. \A s \in SUBSET S : Cardinality(s) <= Cardinality(S)
  BY FS_Subset
<1>3. PICK h : SetTable(h, base, S, Cardinality(S))
  BY <1>1, SetTableExists
<1>4. Equation(h)
  <2>1. h = [s \in SUBSET S |-> h[s]]
    BY <1>3 DEF SetTable
  <2> QED BY <1>2, <1>3, <2>1 DEF SetTable
<1>5. Equation(G)
  BY <1>4
<1>6. SetTable(G, base, S, Cardinality(S))
  <2> HIDE DEF G
  <2>1. G = [s \in SUBSET S |-> G[s]]
    BY <1>5
  <2>2. \A s \in SUBSET S : G[s] = IF s = {} THEN base ELSE Next(OneOf(s), G[s \ {OneOf(s)}])
    BY <1>5
  <2> QED BY <2>1, <2>2 DEF SetTable
<1>7. FoldSet(Next, base, S) = G[S]
  BY Zenon DEF FoldSet, MapThenFoldSet, OneOf
<1> QED BY <1>6, <1>7

\* The same for the fold of a finite set, in whatever order it takes the elements.
THEOREM FoldSetKeeps ==
  ASSUME NEW p, NEW base, NEW S, IsFiniteSet(S), Fact(p, {}, base),
         \A s \in SUBSET S : \A x \in S \ s : \A w :
            Fact(p, s, w) => Fact(p, s \cup {x}, Next(x, w))
  PROVE  Fact(p, S, FoldSet(Next, base, S))
<1>1. PICK g : SetTable(g, base, S, Cardinality(S)) /\ FoldSet(Next, base, S) = g[S]
  BY SetTableOf
<1>2. \A s \in SUBSET S : IsFiniteSet(s) /\ Cardinality(s) \in Nat /\ Cardinality(s) <= Cardinality(S)
  BY FS_Subset, FS_CardinalityType
<1> DEFINE Wrong == {s \in SUBSET S : ~Fact(p, s, g[s])}
           Sizes == {Cardinality(s) : s \in Wrong}
<1>3. SUFFICES ASSUME Wrong # {} PROVE FALSE
  BY <1>1
<1>4. Sizes \in SUBSET Nat /\ Sizes # {}
  BY <1>2, <1>3
<1>5. PICK k \in Sizes : \A m \in Sizes : k <= m
  BY <1>4, LeastOne
<1>6. PICK s \in Wrong : k = Cardinality(s)
  BY <1>5
<1>7. s \in SUBSET S /\ ~Fact(p, s, g[s])
  BY <1>6
<1>8. s # {}
  <2>1. SUFFICES ASSUME s = {} PROVE FALSE
    OBVIOUS
  <2>2. g[s] = base
    BY <1>1, <1>2, <1>7, <2>1 DEF SetTable
  <2> QED BY <1>7, <2>1, <2>2
<1> DEFINE x == OneOf(s)
           r == s \ {x}
<1>9. x \in s /\ g[s] = Next(x, g[r])
  <2>1. x \in s
    BY <1>8 DEF OneOf
  <2>2. g[s] = Next(x, g[r])
    BY <1>1, <1>2, <1>7, <1>8 DEF SetTable
  <2> QED BY <2>1, <2>2
<1> HIDE DEF x
<1>10. r \in SUBSET S /\ r \cup {x} = s /\ x \in S \ r
  BY <1>7, <1>9
<1>11. Cardinality(r) = Cardinality(s) - 1 /\ Cardinality(r) \in Nat
  BY <1>2, <1>7, <1>9, <1>10, FS_RemoveElement
<1>12. r \notin Wrong
  <2>1. ~(k <= Cardinality(r))
    BY <1>2, <1>6, <1>7, <1>11
  <2> HIDE DEF r, Wrong
  <2> QED BY <1>5, <2>1
<1>13. Fact(p, r, g[r])
  BY <1>10, <1>12
<1> HIDE DEF r, Wrong
<1>14. Fact(p, r \cup {x}, Next(x, g[r]))
  BY <1>10, <1>13
<1> QED BY <1>7, <1>9, <1>10, <1>14
=============================================================================
