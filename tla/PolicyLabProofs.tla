-------------------------- MODULE PolicyLabProofs --------------------------
(***************************************************************************)
(* Proofs about PolicyLab, for any policies, numbers of cycles and of      *)
(* cases, any number of labs in the directory and any trouble.             *)
(***************************************************************************)
EXTENDS PolicyLab, FiniteSetTheorems, WellFoundedInduction, TLAPS

-----------------------------------------------------------------------------
(* The specs and their order.                                              *)

AllSpecs == Range(Specs)

LEMMA LeastNatural ==
  ASSUME NEW S \in SUBSET Nat, S # {}
  PROVE  \E n \in S : \A m \in S : n <= m
<1>1. PICK n \in S : \A m \in S : ~(<<m, n>> \in OpToRel(<, Nat))
  BY NatLessThanWellFounded, WFMin
<1>2. \A m \in S : ~(m < n)
  BY <1>1 DEF OpToRel
<1> QED BY <1>2

LEMMA MinOfNaturals ==
  ASSUME NEW S \in SUBSET Nat, S # {}
  PROVE  Min(S) \in S
  BY LeastNatural DEF Min

LEMMA Bounds ==
  /\ Runs \in Nat /\ Warmups \in Nat /\ Trials \in Nat /\ Margin \in Nat
  /\ MaxLabs \in Nat /\ MaxTrouble \in Nat /\ Runs >= 3
  BY BoundsAssumption

LEMMA SpecsAre ==
  /\ Specs \in Seq(AllSpecs) /\ Specs # <<>> /\ DOMAIN Specs = 1 .. Len(Policies) + 2
  /\ Len(Policies) \in Nat
  /\ AllSpecs = {Baseline, Control} \cup Range(Policies)
  /\ \A j, k \in DOMAIN Specs : Specs[j] = Specs[k] => j = k
<1>1. Policies \in Seq(Range(Policies)) /\ DOMAIN Policies = 1 .. Len(Policies) /\ Len(Policies) \in Nat
  BY PoliciesAssumption
<1> DEFINE both == Range(Policies) \cup {Baseline, Control}
<1>2. <<Baseline, Control>> \in Seq(both) /\ Policies \in Seq(both)
  BY <1>1
<1>3. /\ Specs \in Seq(both) /\ Len(Specs) = Len(Policies) + 2 /\ DOMAIN Specs = 1 .. Len(Policies) + 2
      /\ Specs[1] = Baseline /\ Specs[2] = Control
      /\ \A k \in 1 .. Len(Policies) : Specs[k + 2] = Policies[k]
  <2>1. Specs \in Seq(both) /\ Len(Specs) = Len(Policies) + 2
    BY <1>1, <1>2 DEF Specs
  <2>2. Specs[1] = Baseline /\ Specs[2] = Control
    BY <1>1, <1>2 DEF Specs
  <2>3. ASSUME NEW k \in 1 .. Len(Policies) PROVE Specs[k + 2] = Policies[k]
    BY <1>1, <1>2, <2>3 DEF Specs
  <2> QED BY <1>1, <2>1, <2>2, <2>3
<1>4. \A k \in DOMAIN Specs : k \in {1, 2} \/ (k - 2 \in 1 .. Len(Policies) /\ k = (k - 2) + 2)
  BY <1>1, <1>3
<1>5. AllSpecs = both
  <2>1. AllSpecs = {Specs[k] : k \in DOMAIN Specs}
    BY DEF AllSpecs, Range
  <2>2. Range(Policies) = {Policies[k] : k \in 1 .. Len(Policies)}
    BY <1>1 DEF Range
  <2>3. \A k \in DOMAIN Specs : Specs[k] \in both
    BY <1>3
  <2>4. 1 \in DOMAIN Specs /\ 2 \in DOMAIN Specs /\ \A k \in 1 .. Len(Policies) : k + 2 \in DOMAIN Specs
    BY <1>1, <1>3
  <2>5. both \subseteq AllSpecs
    BY <1>3, <2>1, <2>2, <2>4
  <2> QED BY <2>1, <2>3, <2>5
<1>6. ASSUME NEW j \in DOMAIN Specs, NEW k \in DOMAIN Specs, Specs[j] = Specs[k] PROVE j = k
  <2>1. \A i \in 1 .. Len(Policies) : Policies[i] \notin {Baseline, Control}
    BY <1>1, PoliciesAssumption DEF Range
  <2>2. Baseline # Control
    BY DEF Baseline, Control
  <2>3. \A i, l \in 1 .. Len(Policies) : Policies[i] = Policies[l] => i = l
    BY <1>1, PoliciesAssumption DEF IsInjective
  <2>4. \A i \in DOMAIN Specs : i \notin {1, 2} =>
           i \in Nat /\ i - 2 \in 1 .. Len(Policies) /\ Specs[i] = Policies[i - 2]
    BY <1>1, <1>3, <1>4
  <2>5. CASE j \in {1, 2} \/ k \in {1, 2}
    BY <1>3, <1>6, <2>1, <2>2, <2>4, <2>5
  <2>6. CASE j \notin {1, 2} /\ k \notin {1, 2}
    <3>1. j - 2 = k - 2
      BY <1>6, <2>3, <2>4, <2>6
    <3> QED BY <3>1, <2>4, <2>6
  <2> QED BY <2>5, <2>6
<1> QED BY <1>1, <1>3, <1>5, <1>6

\* Every one of the built specs has its rank, and every rank its spec.
LEMMA Ranks ==
  /\ IsFiniteSet(Built) /\ Cardinality(Built) \in Nat
  /\ \A n \in 1 .. Cardinality(Built) : \E k \in Built : Rank(k) = n
<1>1. Built \subseteq 1 .. Len(Policies) + 2 /\ Built \subseteq Nat
  BY SpecsAre DEF Built
<1>2. IsFiniteSet(1 .. Len(Policies) + 2)
  BY SpecsAre, FS_Interval
<1>3. IsFiniteSet(Built) /\ Cardinality(Built) \in Nat
  BY <1>1, <1>2, FS_Subset, FS_CardinalityType
<1> DEFINE upto(k) == {j \in Built : j <= k}
           n == Cardinality(Built)
           f == [k \in Built |-> Rank(k)]
<1>4. ASSUME NEW k \in Built PROVE IsFiniteSet(upto(k)) /\ Rank(k) \in 1 .. n
  <2>1. upto(k) \in SUBSET Built /\ k \in upto(k)
    BY <1>1
  <2>2. IsFiniteSet(upto(k)) /\ Cardinality(upto(k)) <= n
    BY <1>3, <2>1, FS_Subset
  <2>3. Cardinality(upto(k)) \in Nat /\ Cardinality(upto(k)) # 0
    BY <2>1, <2>2, FS_CardinalityType, FS_EmptySet
  <2> QED BY <1>3, <2>2, <2>3 DEF Rank
<1>5. ASSUME NEW j \in Built, NEW k \in Built, j < k PROVE Rank(j) # Rank(k)
  <2>1. upto(j) \in SUBSET upto(k) /\ k \in upto(k) /\ k \notin upto(j)
    <3>1. j \in Nat /\ k \in Nat /\ \A i \in Built : i \in Nat
      BY <1>1
    <3>2. \A i \in Built : i <= j => i <= k
      BY <3>1, <1>5
    <3>3. ~(k <= j) /\ k <= k
      BY <3>1, <1>5
    <3> QED BY <3>2, <3>3
  <2>2. IsFiniteSet(upto(k))
    BY <1>4
  <2> QED BY <2>1, <2>2, FS_Subset DEF Rank
<1>6. f \in [Built -> 1 .. n]
  BY <1>4
<1>7. \A j, k \in Built : f[j] = f[k] => j = k
  BY <1>1, <1>5
<1>8. f \in Injection(Built, 1 .. n)
  BY <1>6, <1>7 DEF Injection, IsInjective
<1>9. IsFiniteSet(1 .. n) /\ Cardinality(1 .. n) = n
  BY <1>3, FS_Interval
<1>10. f \in Surjection(Built, 1 .. n)
  BY <1>8, <1>9, FS_Injection
<1>11. \A i \in 1 .. n : \E k \in Built : f[k] = i
  BY <1>10 DEF Surjection
<1> QED BY <1>3, <1>11

-----------------------------------------------------------------------------
(* Sequences without repetition: their heads and tails, and rotation.      *)

LEMMA RangeIs == ASSUME NEW S, NEW q \in Seq(S) PROVE Range(q) = {q[k] : k \in 1 .. Len(q)}
  BY DEF Range

LEMMA SeqWidens ==
  ASSUME NEW S, NEW T, S \subseteq T, NEW q \in Seq(S)
  PROVE  q \in Seq(T) /\ Range(q) \subseteq S
<1>1. q \in [1 .. Len(q) -> S] /\ Len(q) \in Nat
  OBVIOUS
<1>2. q \in [1 .. Len(q) -> T] /\ Range(q) \subseteq S
  BY <1>1 DEF Range
<1> QED BY <1>1, <1>2

LEMMA HeadAndTail ==
  ASSUME NEW S, NEW q \in Seq(S), q # <<>>
  PROVE  /\ Head(q) \in S /\ Tail(q) \in Seq(S) /\ Head(q) \in Range(q)
         /\ Range(Tail(q)) \subseteq Range(q)
         /\ IsInjective(q) => IsInjective(Tail(q)) /\ Range(Tail(q)) = Range(q) \ {Head(q)}
<1> DEFINE t == Tail(q)
<1>1. /\ Len(q) \in Nat /\ Len(q) # 0 /\ 1 \in 1 .. Len(q) /\ Head(q) = q[1] /\ q[1] \in S
      /\ DOMAIN q = 1 .. Len(q)
  OBVIOUS
<1>2. t \in Seq(S) /\ Len(t) = Len(q) - 1 /\ DOMAIN t = 1 .. Len(q) - 1
  OBVIOUS
<1>3. \A k \in 1 .. Len(q) - 1 : t[k] = q[k + 1] /\ k + 1 \in 1 .. Len(q) /\ k + 1 # 1
  BY <1>1
<1>4. \A k \in 1 .. Len(q) : k # 1 => k - 1 \in 1 .. Len(q) - 1 /\ q[k] = t[k - 1]
  <2>1. \A k \in 1 .. Len(q) : k # 1 => k - 1 \in 1 .. Len(q) - 1 /\ (k - 1) + 1 = k
    BY <1>1
  <2> QED BY <1>3, <2>1
<1>5. Range(q) = {q[k] : k \in 1 .. Len(q)} /\ Range(t) = {t[k] : k \in 1 .. Len(q) - 1}
  BY <1>1, <1>2 DEF Range
<1> HIDE DEF t
<1>6. Range(t) \subseteq Range(q) /\ Head(q) \in Range(q)
  BY <1>1, <1>3, <1>5
<1>7. ASSUME IsInjective(q) PROVE IsInjective(t) /\ Range(t) = Range(q) \ {Head(q)}
  <2>1. \A j, k \in 1 .. Len(q) : q[j] = q[k] => j = k
    BY <1>1, <1>7 DEF IsInjective
  <2>2. \A j, k \in 1 .. Len(q) - 1 : t[j] = t[k] => j = k
    <3>1. \A j, k \in 1 .. Len(q) - 1 : j + 1 = k + 1 => j = k
      BY <1>1
    <3> QED BY <1>3, <2>1, <3>1
  <2>3. Head(q) \notin Range(t)
    BY <1>1, <1>3, <1>5, <2>1
  <2>4. Range(q) \ {Head(q)} \subseteq Range(t)
    BY <1>1, <1>4, <1>5
  <2> QED BY <1>2, <1>6, <2>2, <2>3, <2>4 DEF IsInjective
<1> QED BY <1>1, <1>2, <1>6, <1>7 DEF t

LEMMA ConcatIs ==
  ASSUME NEW S, NEW a \in Seq(S), NEW b \in Seq(S)
  PROVE  /\ a \o b \in Seq(S) /\ Len(a \o b) = Len(a) + Len(b)
         /\ DOMAIN (a \o b) = 1 .. Len(a) + Len(b)
         /\ \A k \in 1 .. Len(a) + Len(b) :
              (a \o b)[k] = IF k <= Len(a) THEN a[k] ELSE b[k - Len(a)]
<1>1. a \o b \in Seq(S) /\ Len(a \o b) = Len(a) + Len(b)
  OBVIOUS
<1>2. DOMAIN (a \o b) = 1 .. Len(a) + Len(b)
  BY <1>1
<1>3. \A k \in 1 .. Len(a) + Len(b) : (a \o b)[k] = IF k <= Len(a) THEN a[k] ELSE b[k - Len(a)]
  OBVIOUS
<1> QED BY <1>1, <1>2, <1>3

LEMMA RotationKeeps ==
  ASSUME NEW S, NEW q \in Seq(S), NEW r \in 0 .. Len(q), NEW t,
         t = SubSeq(q, r + 1, Len(q)) \o SubSeq(q, 1, r)
  PROVE  /\ t \in Seq(S) /\ Range(t) = Range(q)
         /\ IsInjective(q) => IsInjective(t)
<1>1. PICK n \in Nat : n = Len(q) /\ DOMAIN q = 1 .. n /\ r \in Nat /\ r <= n
  OBVIOUS
<1>2. PICK a \in Seq(S) : /\ a = SubSeq(q, r + 1, Len(q)) /\ Len(a) = n - r
                          /\ \A k \in 1 .. n - r : a[k] = q[r + k]
  <2>1. \A a : a = SubSeq(q, r + 1, Len(q)) =>
           /\ a \in Seq(S) /\ Len(a) = n - r
           /\ \A k \in 1 .. n - r : a[k] = q[r + k]
    BY <1>1
  <2> QED BY <2>1
<1>3. PICK b \in Seq(S) : /\ b = SubSeq(q, 1, r) /\ Len(b) = r
                          /\ \A k \in 1 .. r : b[k] = q[k]
  <2>1. \A b : b = SubSeq(q, 1, r) =>
           /\ b \in Seq(S) /\ Len(b) = r
           /\ \A k \in 1 .. r : b[k] = q[k]
    BY <1>1
  <2> QED BY <2>1
<1>4. t = a \o b
  BY <1>2, <1>3
<1>5. t \in Seq(S) /\ DOMAIN t = 1 .. n
      /\ \A k \in 1 .. n : t[k] = IF k <= n - r THEN a[k] ELSE b[k - (n - r)]
  <2>1. Len(a) = n - r /\ Len(b) = r
    BY <1>2, <1>3
  <2>2. Len(a) + Len(b) = n
    BY <1>1, <2>1
  <2>3. /\ t \in Seq(S) /\ DOMAIN t = 1 .. Len(a) + Len(b)
        /\ \A k \in 1 .. Len(a) + Len(b) : t[k] = IF k <= Len(a) THEN a[k] ELSE b[k - Len(a)]
    <3>1. a \in Seq(S) /\ b \in Seq(S)
      OBVIOUS
    <3> QED BY ONLY <3>1, <1>4, ConcatIs
  <2> QED BY <2>1, <2>2, <2>3
<1> DEFINE from(k) == IF k <= n - r THEN r + k ELSE k - (n - r)
           to(k) == IF k <= r THEN k + (n - r) ELSE k - r
<1>6. \A k \in 1 .. n : from(k) \in 1 .. n /\ t[k] = q[from(k)]
  <2>1. \A k \in 1 .. n : k <= n - r => k \in 1 .. n - r
    BY <1>1
  <2>2. \A k \in 1 .. n : ~(k <= n - r) => k - (n - r) \in 1 .. r
    BY <1>1
  <2>3. \A k \in 1 .. n : t[k] = q[from(k)]
    BY <1>2, <1>3, <1>5, <2>1, <2>2
  <2>4. \A k \in 1 .. n : from(k) \in 1 .. n
    BY <1>1
  <2> QED BY <2>3, <2>4
<1>7. \A k \in 1 .. n : to(k) \in 1 .. n /\ from(to(k)) = k
  BY <1>1
<1>8. \A j, k \in 1 .. n : from(j) = from(k) => j = k
  BY <1>1
<1> HIDE DEF from, to
<1>9. \A k \in 1 .. n : q[k] = t[to(k)]
  BY <1>6, <1>7
<1>10. Range(t) = Range(q)
  <2>1. Range(t) = {t[k] : k \in 1 .. n} /\ Range(q) = {q[k] : k \in 1 .. n}
    BY <1>1, <1>5 DEF Range
  <2>2. Range(t) \subseteq Range(q)
    BY <2>1, <1>6
  <2>3. Range(q) \subseteq Range(t)
    BY <2>1, <1>7, <1>9
  <2> QED BY <2>2, <2>3
<1>11. ASSUME IsInjective(q) PROVE IsInjective(t)
  <2>1. \A j, k \in 1 .. n : q[j] = q[k] => j = k
    BY <1>1, <1>11 DEF IsInjective
  <2>2. \A j, k \in 1 .. n : t[j] = t[k] => j = k
    BY <1>6, <1>8, <2>1
  <2> QED BY <1>5, <2>2 DEF IsInjective
<1> QED BY <1>5, <1>10, <1>11

LEMMA OrderIs ==
  /\ RunnableOrder \in Seq(binaries) /\ IsInjective(RunnableOrder)
  /\ Range(RunnableOrder) \subseteq binaries
  /\ Len(RunnableOrder) = Cardinality(Built)
<1> DEFINE n == Cardinality(Built)
           at_(i) == CHOOSE k \in Built : Rank(k) = i
<1>1. n \in Nat /\ \A i \in 1 .. n : at_(i) \in Built /\ Rank(at_(i)) = i
  BY Ranks
<1>2. \A i \in 1 .. n : Specs[at_(i)] \in binaries
  BY <1>1 DEF Built
<1>3. RunnableOrder = [i \in 1 .. n |-> Specs[at_(i)]]
  BY DEF RunnableOrder
<1> HIDE DEF at_
<1>4. RunnableOrder \in [1 .. n -> binaries]
  BY <1>2, <1>3
<1>5. RunnableOrder \in Seq(binaries) /\ Len(RunnableOrder) = n
  BY <1>1, <1>4
<1>6. Range(RunnableOrder) \subseteq binaries
  BY <1>4 DEF Range
<1>7. ASSUME NEW i \in 1 .. n, NEW j \in 1 .. n, RunnableOrder[i] = RunnableOrder[j] PROVE i = j
  <2>1. at_(i) \in DOMAIN Specs /\ at_(j) \in DOMAIN Specs /\ Specs[at_(i)] = Specs[at_(j)]
    BY <1>1, <1>3, <1>7 DEF Built
  <2> QED BY <2>1, <1>1, SpecsAre
<1>8. IsInjective(RunnableOrder)
  BY <1>4, <1>7 DEF IsInjective
<1> QED BY <1>5, <1>6, <1>8

\* The order of a cycle has the same specs, each once.
LEMMA RotatedIs ==
  ASSUME NEW c \in Nat, Cardinality(Built) # 0
  PROVE  /\ Rotated(c) \in Seq(binaries) /\ IsInjective(Rotated(c))
         /\ Range(Rotated(c)) = Range(RunnableOrder)
<1> DEFINE n == Len(RunnableOrder)
           r == IF c > Warmups THEN (c - Warmups - 1) % n ELSE 0
<1>1. n \in Nat /\ n > 0
  BY OrderIs, Ranks
<1>2. c > Warmups => c - Warmups - 1 \in Nat
  BY Bounds
<1>3. \A i \in Nat : i % n \in 0 .. n - 1
  BY <1>1
<1>4. r \in 0 .. n
  BY <1>1, <1>2, <1>3
<1>5. Rotated(c) = SubSeq(RunnableOrder, r + 1, n) \o SubSeq(RunnableOrder, 1, r)
  BY DEF Rotated
<1> HIDE DEF r
<1> QED BY <1>4, <1>5, OrderIs, RotationKeeps

-----------------------------------------------------------------------------
(* The inductive invariant.                                                *)

\* The types, with those of the sequences.
Events == {"lab-meta", "build", "plugin-neutrality", "result", "reproducibility",
           "decision", "differential"}
Verdicts == {"build-failed", "run-failed", "pure-gcc-reference", "control",
             "invalid-behavior", "not-gated", "improves", "regresses", "within-noise"}
About == AllSpecs \cup {Nobody, "runtime", "size"}
Says == BOOLEAN \cup Verdicts \cup {"started", "measured", "differential", "artifact"}
Told == [event : Events, about : About, says : Says]
Case == [ref : Behaviours, cand : Behaviours]
Types ==
  /\ TypeOK
  /\ todo \in Seq(AllSpecs) /\ binaries \subseteq AllSpecs
  /\ samples \in [AllSpecs -> Seq(Nat)]
  /\ outputs \in [AllSpecs -> Shown \cup {"none"}]
  /\ cases \in Seq(Case) /\ Len(cases) <= Trials
  /\ lines \in Seq(Told) /\ evidence \in Seq(Told)
  /\ ~Between => lines # <<>> /\ lab # 0

\* Sample i of a spec is of the i-th measured cycle; while a cycle is under way those
\* that did not fail are at that cycle if they had their turn, else at the one before.
Unmeasured == IF opt.objective = "size" THEN 0 ELSE Warmups
Counted(c) == IF c > Unmeasured THEN c - Unmeasured ELSE 0
Sampling ==
  /\ \A s \in AllSpecs : \A i \in DOMAIN samples[s] : samples[s][i] = Unmeasured + i
  /\ at = "build" => \A s \in AllSpecs : samples[s] = <<>>
  /\ at = "measure" =>
       /\ cycle # 0 /\ Control \in binaries
       /\ IsInjective(todo) /\ Range(todo) \subseteq Range(RunnableOrder)
       /\ \A s \in Range(RunnableOrder) \ errors :
            Len(samples[s]) = IF s \in Range(todo) THEN Counted(cycle - 1) ELSE Counted(cycle)

\* The winner was built and ran as the control did.
Ran(w) == /\ w \in binaries \ errors /\ outputs[w] = outputs[Control] /\ samples[w] # <<>>

\* The differential gate, if it is on, was passed.
Gated ==
  opt.gate /\ opt.objective = "runtime" =>
    /\ Len(cases) = Trials
    /\ \A k \in DOMAIN cases : cases[k].ref = cases[k].cand
                               /\ cases[k].ref \in {"usual", "other", "exit"}

Deciding ==
  /\ at \in {"build", "measure"} => winner = Nobody
  /\ winner # Nobody => Ran(winner)
  /\ at \in {"compare", "reject", "promote", "tell"} => winner # Nobody
  /\ at \in {"promote", "tell"} => Gated
  /\ best.lab = lab /\ best.of # Nobody => best.of = winner /\ Gated

\* What best.policy and the end of the evidence are, phase by phase.
Telling ==
  /\ at \in {"build", "measure"} => Last(lines).event # "decision"
  /\ at = "tell" => best = [of |-> winner, lab |-> lab]
  /\ ~Between /\ at # "tell" => best.lab # lab
  /\ EvidenceTellsArtifact

Inv == Types /\ Sampling /\ Deciding /\ Telling

-----------------------------------------------------------------------------
(* Every line that is added has the type of one.                           *)

LEMMA AboutIs ==
  AllSpecs \subseteq About /\ Nobody \in About /\ Control \in AllSpecs /\ Range(Policies) \subseteq AllSpecs
  BY SpecsAre DEF About

LEMMA EventIs ==
  ASSUME NEW e \in Events, NEW a \in About, NEW y \in Says
  PROVE  Event(e, a, y) \in Told /\ Event(e, a, y).event = e /\ Event(e, a, y).about = a
  BY DEF Event, Told

LEMMA LastIs ==
  ASSUME NEW S, NEW q \in Seq(S), NEW e \in S
  PROVE  /\ Append(q, e) \in Seq(S) /\ Append(q, e) # <<>> /\ Last(Append(q, e)) = e
<1>1. Append(q, e) \in Seq(S) /\ Len(Append(q, e)) = Len(q) + 1 /\ Len(q) \in Nat
  OBVIOUS
<1>2. Append(q, e)[Len(q) + 1] = e
  BY <1>1
<1> QED BY <1>1, <1>2 DEF Last

LEMMA FrontIs == ASSUME NEW S, NEW q \in Seq(S) PROVE Front(q) \in Seq(S)
  BY DEF Front

-----------------------------------------------------------------------------
(* Types, action by action.                                                *)

LEMMA CostsTypes == ASSUME TypeOK, NEW bad \in BOOLEAN, Costs(bad) PROVE trouble' \in 0 .. MaxTrouble
  BY Bounds DEF TypeOK, Costs

LEMMA RefuseTypes == ASSUME Types, Refuse PROVE Types'
  BY Bounds DEF Types, TypeOK, Refuse, Between, directory, building, sampling

LEMMA StartTypes == ASSUME Types, NEW o \in Options, Start(o) PROVE Types'
<1>1. o.objective \in About /\ "started" \in Says /\ "lab-meta" \in Events
  BY DEF Options, Says, About, Events
<1>2. Event("lab-meta", o.objective, "started") \in Told
  BY <1>1, EventIs
<1>3. lines' \in Seq(Told) /\ lines' # <<>>
  BY <1>2 DEF Start
<1>4. todo' \in Seq(AllSpecs) /\ Range(todo') \subseteq AllSpecs
  BY SpecsAre DEF Start, AllSpecs
<1>5. /\ samples' \in [AllSpecs -> Seq(Nat)] /\ outputs' \in [AllSpecs -> Shown \cup {"none"}]
      /\ cases' \in Seq(Case) /\ Len(cases') <= Trials
  BY Bounds DEF Start, AllSpecs
<1>6. lab' \in 0 .. MaxLabs /\ lab' # 0 /\ cycle' \in 0 .. Warmups + Runs /\ best'.lab \in 0 .. lab'
  BY Bounds DEF Types, TypeOK, Start, directory
<1> QED BY <1>3, <1>4, <1>5, <1>6 DEF Types, TypeOK, Start, directory, AllSpecs

LEMMA BuildTypes == ASSUME Types, NEW ok \in BOOLEAN, NEW gates \in BOOLEAN, Build(ok, gates) PROVE Types'
<1> DEFINE s == Head(todo)
<1>1. s \in AllSpecs /\ todo' \in Seq(AllSpecs) /\ Range(todo') \subseteq AllSpecs
  BY HeadAndTail DEF Types, TypeOK, Build, AllSpecs
<1>2. Event("build", s, ok) \in Told
  <2>1. "build" \in Events /\ ok \in Says /\ s \in About
    BY <1>1, AboutIs DEF Says, Events
  <2> QED BY <2>1, EventIs
<1>3. lines' = Append(lines, Event("build", s, ok))
  BY DEF Build
<1>4. lines' \in Seq(Told) /\ lines' # <<>>
  BY <1>2, <1>3, LastIs DEF Types
<1>5. trouble' \in 0 .. MaxTrouble
  BY CostsTypes DEF Types, Build
<1>6. /\ binaries' \subseteq AllSpecs /\ binaries \subseteq binaries' /\ telemetry \subseteq telemetry'
      /\ telemetry' \subseteq Range(Policies)
      /\ gated' \subseteq binaries' /\ gated' \subseteq telemetry' /\ active' \subseteq telemetry'
  BY <1>1 DEF Types, TypeOK, Build, Gates, BuildVariant
<1> QED BY <1>1, <1>4, <1>5, <1>6 DEF Types, TypeOK, Build, sampling, Between, AllSpecs

LEMMA NoControlTypes == ASSUME Types, NoControl PROVE Types'
  BY DEF Types, TypeOK, NoControl, Returns, building, sampling, Between

LEMMA NoSamplesTypes == ASSUME Types, NoSamples PROVE Types'
  BY DEF Types, TypeOK, NoSamples, Returns, building, sampling, Between

LEMMA NeutralityTypes == ASSUME Types, NEW neutral \in BOOLEAN, Neutrality(neutral) PROVE Types'
<1>1. Event("plugin-neutrality", Control, neutral) \in Told
  <2>1. "plugin-neutrality" \in Events /\ neutral \in Says /\ Control \in About
    BY AboutIs DEF Says, Events
  <2> QED BY <2>1, EventIs
<1>2. lines' \in Seq(Told) /\ lines' # <<>>
  BY <1>1, LastIs DEF Types, Neutrality, Between
<1>3. todo' \in Seq(AllSpecs) /\ Range(todo') \subseteq AllSpecs
  BY OrderIs, SeqWidens DEF Types, Neutrality
<1>4. trouble' \in 0 .. MaxTrouble /\ cycle' \in 0 .. Warmups + Runs
  BY Bounds DEF Types, TypeOK, Neutrality, Costs
<1> QED BY <1>2, <1>3, <1>4 DEF Types, TypeOK, Neutrality, directory, building, sampling, Between, AllSpecs

LEMMA SampleTypes ==
  ASSUME Types, Sampling, NEW passed \in BOOLEAN, NEW output \in Shown, Sample(passed, output)
  PROVE  Types'
<1> DEFINE s == Head(todo)
<1>1. /\ s \in AllSpecs /\ todo' \in Seq(AllSpecs) /\ Range(todo') \subseteq AllSpecs
      /\ s \in Range(todo)
  BY HeadAndTail DEF Types, TypeOK, Sample, AllSpecs
<1>2. s \in binaries
  BY <1>1, OrderIs DEF Sampling, Sample
<1>3. trouble' \in 0 .. MaxTrouble
  BY CostsTypes DEF Types, Sample
<1>4. samples[s] \in Seq(Nat) /\ cycle \in Nat /\ samples \in [AllSpecs -> Seq(Nat)]
  BY <1>1, Bounds DEF Types, TypeOK
<1>5. Append(samples[s], cycle) \in Seq(Nat)
  BY <1>4
<1>6. samples' = samples \/ samples' = [samples EXCEPT ![s] = Append(samples[s], cycle)]
  BY DEF Sample
<1>7. samples' \in [AllSpecs -> Seq(Nat)]
  BY <1>1, <1>4, <1>5, <1>6
<1>8. outputs' \in [AllSpecs -> Shown \cup {"none"}]
  BY <1>1 DEF Types, Sample
<1>9. errors' \subseteq binaries
  BY <1>2 DEF Types, TypeOK, Sample
<1> QED BY <1>1, <1>3, <1>7, <1>8, <1>9 DEF Types, TypeOK, Sample, directory, building, Between, AllSpecs

LEMMA SkipTypes == ASSUME Types, Skip PROVE Types'
<1>1. todo' \in Seq(AllSpecs) /\ Range(todo') \subseteq AllSpecs
  BY HeadAndTail DEF Types, TypeOK, Skip, AllSpecs
<1> QED BY <1>1 DEF Types, TypeOK, Skip, directory, building, sampling, Between, AllSpecs

LEMMA NextCycleTypes == ASSUME Types, Sampling, NextCycle PROVE Types'
<1>1. \E k \in DOMAIN Specs : Specs[k] = Control
  BY SpecsAre DEF AllSpecs, Range
<1>2. Built # {}
  BY <1>1 DEF Sampling, NextCycle, Built
<1>3. Cardinality(Built) # 0
  BY <1>2, Ranks, FS_EmptySet
<1>4. cycle' \in Nat /\ cycle' \in 0 .. Warmups + Runs
  BY Bounds DEF Types, TypeOK, NextCycle, LastCycle
<1>5. Rotated(cycle') \in Seq(binaries)
  BY <1>3, <1>4, RotatedIs
<1>6. todo' \in Seq(AllSpecs) /\ Range(todo') \subseteq AllSpecs
  BY <1>5, SeqWidens DEF Types, NextCycle
<1> QED BY <1>4, <1>6 DEF Types, TypeOK, NextCycle, directory, building, sampling, Between, AllSpecs

\* Who is chosen, if anybody, improves.
LEMMA RankIs ==
  ASSUME NEW P \in SUBSET Range(Policies), NEW gain
  PROVE  RankImproving(P, gain) \in P \cup {Nobody}
<1> DEFINE top == {p \in P : \A q \in P : gain[q] <= gain[p]}
           first == {k \in DOMAIN Policies : Policies[k] \in top}
<1>1. CASE top = {}
  BY <1>1 DEF RankImproving
<1>2. CASE top # {}
  <2>1. first \in SUBSET Nat
    BY PoliciesAssumption
  <2>2. first # {}
    <3>1. PICK p \in top : TRUE
      BY <1>2
    <3>2. p \in Range(Policies)
      BY <3>1
    <3>3. PICK k \in DOMAIN Policies : Policies[k] = p
      BY <3>2 DEF Range
    <3> QED BY <3>1, <3>3
  <2>3. Min(first) \in first
    BY <2>1, <2>2, MinOfNaturals
  <2>4. RankImproving(P, gain) = Policies[Min(first)]
    BY <1>2 DEF RankImproving
  <2> HIDE DEF first
  <2>5. Policies[Min(first)] \in top
    BY <2>3 DEF first
  <2> QED BY <2>4, <2>5
<1> QED BY <1>1, <1>2

\* What the verdicts of a lab are, and what it takes to be found to improve.
Verdicted(gain, above) ==
  [s \in Range(Specs) |-> IF s \in Range(Policies) THEN Verdict(s, gain[s], above[s])
                                                   ELSE Verdict(s, 0, FALSE)]
LEMMA VerdictIs ==
  ASSUME NEW s, NEW g, NEW a
  PROVE  /\ Verdict(s, g, a) \in Verdicts
         /\ Verdict(s, g, a) = "improves" => s \in binaries \ errors /\ OutputEqual(s) /\ samples[s] # <<>>
  BY DEF Verdict, Classify, Verdicts

LEMMA JudgeIs ==
  ASSUME Types, NEW gain, NEW above, Judge(gain, above)
  PROVE  /\ winner' \in Range(Policies) \cup {Nobody}
         /\ winner' # Nobody => Ran(winner')
         /\ lines' = lines \o [k \in DOMAIN Specs |-> Event("result", Specs[k], Verdicted(gain, above)[Specs[k]])]
<1> DEFINE v == Verdicted(gain, above)
           P == {p \in Range(Policies) : v[p] = "improves"}
<1>1. winner' = RankImproving(P, gain)
  BY DEF Judge, Verdicted
<1>2. winner' \in P \cup {Nobody}
  BY <1>1, RankIs
<1>3. \A p \in Range(Policies) : v[p] = Verdict(p, gain[p], above[p])
  BY SpecsAre DEF Verdicted, AllSpecs
<1>4. ASSUME winner' # Nobody PROVE Ran(winner')
  <2>1. winner' \in Range(Policies) /\ v[winner'] = "improves"
    BY <1>2, <1>4
  <2>2. Verdict(winner', gain[winner'], above[winner']) = "improves"
    BY <1>3, <2>1
  <2> QED BY <2>2, VerdictIs DEF Ran, OutputEqual
<1>5. lines' = lines \o [k \in DOMAIN Specs |-> Event("result", Specs[k], v[Specs[k]])]
  BY DEF Judge, Verdicted
<1> QED BY <1>2, <1>4, <1>5

LEMMA JudgeTypes == ASSUME Types, NEW gain, NEW above, Judge(gain, above) PROVE Types'
<1> DEFINE v == Verdicted(gain, above)
           results == [k \in DOMAIN Specs |-> Event("result", Specs[k], v[Specs[k]])]
<1>1. \A s \in AllSpecs : v[s] \in Says /\ s \in About
  BY VerdictIs DEF Verdicted, AllSpecs, Says, About
<1>2. "result" \in Events /\ \A k \in DOMAIN Specs : Specs[k] \in AllSpecs
  BY DEF Events, AllSpecs, Range
<1>3. \A k \in DOMAIN Specs : Event("result", Specs[k], v[Specs[k]]) \in Told
  BY <1>1, <1>2, EventIs
<1>4. results \in Seq(Told)
  BY <1>3, SpecsAre
<1>5. lines' \in Seq(Told) /\ lines' # <<>>
  <2>1. lines \in Seq(Told) /\ lines # <<>> /\ lines' = lines \o results
    BY JudgeIs DEF Types, Between, Judge, Measured
  <2> HIDE DEF results
  <2>2. Len(lines) # 0 /\ Len(lines) \in Nat /\ Len(results) \in Nat
    BY <1>4, <2>1
  <2>3. lines' \in Seq(Told) /\ Len(lines') = Len(lines) + Len(results)
    BY <1>4, <2>1, ConcatIs
  <2>4. lines' # <<>>
    BY <2>2, <2>3
  <2> QED BY <2>3, <2>4
<1>6. winner' \in Range(Policies) \cup {Nobody}
  BY JudgeIs
<1>7. todo' \in Seq(AllSpecs) /\ Range(todo') \subseteq AllSpecs
  <2>1. winner' # Nobody => winner' \in AllSpecs
    BY <1>6, SpecsAre
  <2>2. todo' \in Seq(AllSpecs)
    BY <2>1, AboutIs DEF Judge
  <2> QED BY <2>2, SeqWidens
<1>8. /\ at' = "decide" /\ ~Between
      /\ UNCHANGED <<evidence, best, telemetry, lab, code, opt, cycle, binaries, gated, active,
                     samples, outputs, errors, cases, trouble>>
  BY DEF Judge, Measured, Between, directory, building, sampling
<1> QED BY <1>5, <1>6, <1>7, <1>8 DEF Types, TypeOK, Between, AllSpecs

LEMMA RebuildTypes == ASSUME Types, NEW match \in BOOLEAN, Rebuild(match) PROVE Types'
<1> DEFINE e == Event("reproducibility", Head(todo), match)
<1>1. Head(todo) \in AllSpecs /\ todo' \in Seq(AllSpecs) /\ Range(todo') \subseteq AllSpecs
  BY HeadAndTail DEF Types, TypeOK, Rebuild, AllSpecs
<1>2. e \in Told
  <2>1. "reproducibility" \in Events /\ match \in Says /\ Head(todo) \in About
    BY <1>1, AboutIs DEF Says, Events
  <2> QED BY <2>1, EventIs
<1>3. lines' = Append(lines, e)
  BY DEF Rebuild
<1>4. lines' \in Seq(Told) /\ lines' # <<>>
  BY <1>2, <1>3, LastIs DEF Types
<1>5. trouble' \in 0 .. MaxTrouble
  BY Bounds DEF Types, TypeOK, Rebuild, Costs
<1> QED BY <1>1, <1>4, <1>5 DEF Types, TypeOK, Rebuild, directory, building, sampling, Between, AllSpecs

LEMMA DecisionIs ==
  ASSUME NEW w \in Range(Policies) \cup {Nobody}, NEW y \in {"measured", "differential", "artifact"}
  PROVE  /\ Decision(w, y) \in Told /\ Decision(w, y).event = "decision" /\ Decision(w, y).about = w
<1>1. "decision" \in Events /\ y \in Says /\ w \in About
  BY AboutIs DEF Events, Says
<1> QED BY <1>1, EventIs DEF Decision

\* The three ways a decision is put at the end.
LEMMA Decided ==
  ASSUME Types, NEW w \in Range(Policies) \cup {Nobody}, NEW y \in {"measured", "differential", "artifact"}
  PROVE  /\ Append(lines, Decision(w, y)) \in Seq(Told) /\ Append(lines, Decision(w, y)) # <<>>
         /\ LastReplaced(Decision(w, y)) \in Seq(Told) /\ LastReplaced(Decision(w, y)) # <<>>
         /\ Last(Append(lines, Decision(w, y))) = Decision(w, y)
         /\ Last(LastReplaced(Decision(w, y))) = Decision(w, y)
<1>1. lines \in Seq(Told) /\ Front(lines) \in Seq(Told) /\ Decision(w, y) \in Told
  BY FrontIs, DecisionIs DEF Types
<1> QED BY <1>1, LastIs DEF LastReplaced

LEMMA DecideTypes == ASSUME Types, Decide PROVE Types'
<1>1. Append(lines, Decision(winner, "measured")) \in Seq(Told)
      /\ Append(lines, Decision(winner, "measured")) # <<>>
  BY Decided DEF Types, TypeOK
<1>2. /\ lines' = Append(lines, Decision(winner, "measured")) /\ evidence' = lines'
      /\ code' \in {code, 0} /\ at' \in {"idle", "compare", "promote"} /\ at = "decide"
  BY DEF Decide, Returns
<1>3. UNCHANGED <<best, telemetry, lab, opt, todo, cycle, binaries, gated, active,
                  samples, outputs, errors, winner, cases, trouble>>
  BY DEF Decide, building, sampling
<1> QED BY <1>1, <1>2, <1>3 DEF Types, TypeOK, Between

LEMMA CompareTypes ==
  ASSUME Types, NEW r \in Behaviours, NEW c \in Behaviours, Compare(r, c) PROVE Types'
<1>1. [ref |-> r, cand |-> c] \in Case
  BY DEF Case
<1>2. cases' \in Seq(Case) /\ Len(cases') <= Trials
  BY <1>1, Bounds DEF Types, Compare, MoreCases
<1>3. trouble' \in 0 .. MaxTrouble
  BY Bounds DEF Types, TypeOK, Compare, Costs
<1> QED BY <1>2, <1>3 DEF Types, TypeOK, Compare, directory, building, sampling, Between

LEMMA ComparedTypes == ASSUME Types, Compared PROVE Types'
<1>1. "differential" \in Events /\ Equivalent \in Says /\ winner \in About
  BY AboutIs DEF Events, Says, Types, TypeOK, About, Equivalent
<1>2. Event("differential", winner, Equivalent) \in Told
  BY <1>1, EventIs
<1>3. lines' \in Seq(Told) /\ lines' # <<>>
  BY <1>2, LastIs DEF Types, Compared
<1> QED BY <1>3 DEF Types, TypeOK, Compared, directory, building, sampling, Between

LEMMA RejectTypes == ASSUME Types, Reject PROVE Types'
<1>1. LastReplaced(Rejection) \in Seq(Told)
  BY Decided DEF Rejection
<1> QED BY <1>1 DEF Types, TypeOK, Reject, Returns, building, sampling, Between

LEMMA PromoteTypes == ASSUME Types, Promote PROVE Types'
  BY DEF Types, TypeOK, Promote, building, sampling, Between

LEMMA TellTypes == ASSUME Types, Tell PROVE Types'
<1>1. LastReplaced(Decision(winner, "artifact")) \in Seq(Told)
  BY Decided DEF Types, TypeOK
<1> QED BY <1>1 DEF Types, TypeOK, Tell, Returns, building, sampling, Between

LEMMA StopTypes == ASSUME Types, Stop PROVE Types'
<1>1. \A k \in {0, Len(lines)} : SubSeq(lines, 1, k) \in Seq(Told)
  BY DEF Types
<1>2. evidence' \in Seq(Told)
  BY <1>1 DEF Types, Stop
<1>3. best'.of \in Range(Policies) \cup {Nobody} /\ best'.lab \in 0 .. lab
  BY Bounds DEF Types, TypeOK, Stop, NoPolicy
<1>4. /\ at' = "stopped" /\ code' = 1 /\ trouble' \in 0 .. MaxTrouble
      /\ UNCHANGED <<telemetry, lab, opt, todo, cycle, lines, binaries, gated, active,
                     samples, outputs, errors, winner, cases>>
  BY Bounds DEF Types, TypeOK, Stop, building, sampling
<1> QED BY <1>2, <1>3, <1>4 DEF Types, TypeOK, Between

-----------------------------------------------------------------------------
(* The samples.                                                            *)

LEMMA RestSampling ==
  ASSUME Sampling, UNCHANGED <<samples, opt>>, at' \notin {"build", "measure"}
  PROVE  Sampling'
  BY DEF Sampling, Unmeasured

LEMMA StartSampling == ASSUME NEW o \in Options, Start(o) PROVE Sampling'
<1>1. \A s \in AllSpecs : samples'[s] = <<>>
  BY DEF Start, AllSpecs
<1> QED BY <1>1 DEF Sampling, Start

LEMMA BuildSampling ==
  ASSUME Sampling, NEW ok \in BOOLEAN, NEW gates \in BOOLEAN, Build(ok, gates) PROVE Sampling'
  BY DEF Sampling, Build, sampling, Unmeasured

\* Facts of a step within the measurement: the order is that of what was built.
LEMMA OrderStays == ASSUME UNCHANGED binaries PROVE RunnableOrder' = RunnableOrder
  BY DEF RunnableOrder, Built, Rank

LEMMA InOrder == ASSUME Types, NEW s \in Range(RunnableOrder) PROVE s \in AllSpecs /\ samples[s] \in Seq(Nat)
  BY OrderIs DEF Types

LEMMA CountedIs ==
  ASSUME Types, NEW c \in Nat
  PROVE  /\ Unmeasured \in Nat /\ Counted(c) \in Nat /\ Counted(0) = 0
         /\ c # 0 => Counted(c) = IF c > Unmeasured THEN Counted(c - 1) + 1 ELSE Counted(c - 1)
         /\ c > Unmeasured => c = Unmeasured + Counted(c)
  BY Bounds DEF Counted, Unmeasured

LEMMA NeutralitySampling ==
  ASSUME Types, Sampling, NEW neutral \in BOOLEAN, Neutrality(neutral) PROVE Sampling'
<1>1. /\ at' = "measure" /\ cycle' = 1 /\ todo' = RunnableOrder /\ Control \in binaries
      /\ UNCHANGED <<binaries, samples, errors, opt>> /\ at = "build"
  BY DEF Neutrality, building, sampling
<1>2. RunnableOrder' = RunnableOrder
  BY <1>1, OrderStays
<1>3. \A s \in AllSpecs : samples[s] = <<>>
  BY <1>1 DEF Sampling
<1>4. \A s \in Range(RunnableOrder) : Len(samples[s]) = Counted(0)
  BY <1>3, InOrder, CountedIs
<1>5. Unmeasured' = Unmeasured /\ Counted(0)' = Counted(0)
  BY <1>1 DEF Counted, Unmeasured
<1>6. Counted(cycle - 1)' = Counted(0)
  BY <1>1, <1>5 DEF Counted
<1>7. IsInjective(todo') /\ Range(todo') = Range(RunnableOrder)
  BY <1>1, OrderIs
<1> QED BY <1>1, <1>2, <1>3, <1>4, <1>5, <1>6, <1>7 DEF Sampling

LEMMA SampleSampling ==
  ASSUME Types, Sampling, NEW passed \in BOOLEAN, NEW output \in Shown, Sample(passed, output)
  PROVE  Sampling'
<1> DEFINE s == Head(todo)
<1>1. /\ at = "measure" /\ at' = "measure" /\ todo # <<>> /\ todo' = Tail(todo)
      /\ s \notin errors
      /\ UNCHANGED <<binaries, opt, cycle>>
      /\ \/ errors' = errors \cup {s} /\ samples' = samples
         \/ errors' = errors /\ WarmupOver /\ samples' = [samples EXCEPT ![s] = Append(@, cycle)]
         \/ errors' = errors /\ ~WarmupOver /\ samples' = samples
  BY DEF Sample, building, Skipped
<1>2. RunnableOrder' = RunnableOrder /\ Unmeasured' = Unmeasured
      /\ \A c \in {cycle, cycle - 1} : Counted(c)' = Counted(c)
  BY <1>1, OrderStays DEF Counted, Unmeasured
<1>3. /\ s \in Range(RunnableOrder) /\ s \in AllSpecs /\ samples[s] \in Seq(Nat) /\ s \in Range(todo)
      /\ samples \in [AllSpecs -> Seq(Nat)]
      /\ IsInjective(todo') /\ Range(todo') = Range(todo) \ {s}
  BY <1>1, HeadAndTail, InOrder DEF Sampling, Types
<1>4. cycle \in Nat /\ cycle # 0 /\ (WarmupOver <=> cycle > Unmeasured)
  BY <1>1, Bounds DEF Sampling, Types, TypeOK, WarmupOver, Unmeasured
<1>5. Len(samples[s]) = Counted(cycle - 1)
  BY <1>1, <1>3 DEF Sampling
<1>6. \A t \in Range(RunnableOrder) \ errors' : t # s => t \notin errors /\ samples'[t] = samples[t]
  BY <1>1, <1>3, InOrder
<1>7. /\ \A t \in AllSpecs : \A i \in DOMAIN samples'[t] : samples'[t][i] = Unmeasured + i
      /\ s \notin errors' => Len(samples'[s]) = Counted(cycle)
  <2>1. CASE samples' = samples /\ (s \in errors' \/ ~WarmupOver)
    <3>1. ~WarmupOver => Counted(cycle) = Counted(cycle - 1)
      BY <1>4, CountedIs
    <3> QED BY <1>5, <2>1, <3>1 DEF Sampling
  <2>2. CASE errors' = errors /\ WarmupOver /\ samples' = [samples EXCEPT ![s] = Append(@, cycle)]
    <3>1. samples'[s] = Append(samples[s], cycle) /\ \A t \in AllSpecs \ {s} : samples'[t] = samples[t]
      BY <1>3, <2>2
    <3>2. Len(samples'[s]) = Counted(cycle) /\ Counted(cycle) = Counted(cycle - 1) + 1
          /\ cycle = Unmeasured + Counted(cycle) /\ Counted(cycle) \in Nat /\ Counted(cycle - 1) \in Nat
      <4>1. cycle > Unmeasured /\ cycle - 1 \in Nat
        BY <1>4, <2>2
      <4>2. /\ Counted(cycle) = Counted(cycle - 1) + 1 /\ cycle = Unmeasured + Counted(cycle)
            /\ Counted(cycle) \in Nat
        BY <1>4, <4>1, CountedIs
      <4>3. Counted(cycle - 1) \in Nat
        BY <4>1, CountedIs
      <4>4. Len(samples'[s]) = Len(samples[s]) + 1
        BY <1>3, <3>1
      <4> QED BY <1>5, <4>2, <4>3, <4>4
    <3>3. ASSUME NEW i \in DOMAIN samples'[s] PROVE samples'[s][i] = Unmeasured + i
      <4>1. CASE i \in DOMAIN samples[s]
        BY <1>3, <3>1, <4>1 DEF Sampling
      <4>2. CASE i = Len(samples[s]) + 1
        BY <1>3, <1>4, <1>5, <3>1, <3>2, <4>2
      <4> QED BY <1>3, <1>4, <3>1, <4>1, <4>2
    <3>4. \A t \in AllSpecs \ {s} : \A i \in DOMAIN samples'[t] : samples'[t][i] = Unmeasured + i
      BY <3>1 DEF Sampling
    <3> QED BY <3>2, <3>3, <3>4
  <2> QED BY <1>1, <2>1, <2>2
<1>8. \A t \in Range(RunnableOrder) \ errors' :
        Len(samples'[t]) = IF t \in Range(todo') THEN Counted(cycle - 1) ELSE Counted(cycle)
  BY <1>1, <1>3, <1>6, <1>7 DEF Sampling
<1>9. Control \in binaries /\ Range(todo') \subseteq Range(RunnableOrder)
  BY <1>1, <1>3 DEF Sampling
<1>10. Counted(cycle - 1)' = Counted(cycle - 1) /\ Counted(cycle)' = Counted(cycle)
  BY <1>1, <1>2 DEF Counted
<1> QED BY <1>1, <1>2, <1>3, <1>4, <1>7, <1>8, <1>9, <1>10 DEF Sampling

LEMMA SkipSampling == ASSUME Types, Sampling, Skip PROVE Sampling'
<1>1. /\ at = "measure" /\ at' = "measure" /\ todo # <<>> /\ todo' = Tail(todo)
      /\ Head(todo) \in errors
      /\ UNCHANGED <<binaries, opt, cycle, samples, errors>>
  BY DEF Skip, building, sampling, Skipped
<1>2. RunnableOrder' = RunnableOrder /\ Unmeasured' = Unmeasured
  BY <1>1, OrderStays DEF Unmeasured
<1>3. IsInjective(todo') /\ Range(todo') = Range(todo) \ {Head(todo)}
  BY <1>1, HeadAndTail DEF Sampling, Types
<1>4. Counted(cycle - 1)' = Counted(cycle - 1) /\ Counted(cycle)' = Counted(cycle)
  BY <1>1, <1>2 DEF Counted
<1>5. \A t \in Range(RunnableOrder) \ errors :
        Len(samples[t]) = IF t \in Range(todo') THEN Counted(cycle - 1) ELSE Counted(cycle)
  BY <1>1, <1>3 DEF Sampling
<1> QED BY <1>1, <1>2, <1>3, <1>4, <1>5 DEF Sampling

LEMMA NextCycleSampling == ASSUME Types, Sampling, NextCycle PROVE Sampling'
<1>1. /\ at = "measure" /\ at' = "measure" /\ todo = <<>> /\ cycle' = cycle + 1
      /\ todo' = Rotated(cycle')
      /\ UNCHANGED <<binaries, opt, samples, errors>>
  BY DEF NextCycle, building, sampling
<1>2. RunnableOrder' = RunnableOrder /\ Unmeasured' = Unmeasured
  BY <1>1, OrderStays DEF Unmeasured
<1>3. cycle \in Nat /\ cycle' \in Nat /\ cycle' - 1 = cycle
  BY <1>1, Bounds DEF Types, TypeOK
<1>4. Cardinality(Built) # 0
  <2>1. \E k \in DOMAIN Specs : Specs[k] = Control
    BY SpecsAre DEF AllSpecs, Range
  <2>2. Built # {}
    BY <1>1, <2>1 DEF Sampling, Built
  <2> QED BY <2>2, Ranks, FS_EmptySet
<1>5. IsInjective(todo') /\ Range(todo') = Range(RunnableOrder)
  BY <1>1, <1>3, <1>4, RotatedIs
<1>6. Counted(cycle - 1)' = Counted(cycle)
  BY <1>1, <1>2, <1>3 DEF Counted
<1>7. Range(todo) = {}
  BY <1>1 DEF Range
<1>8. \A t \in Range(RunnableOrder) \ errors : Len(samples[t]) = Counted(cycle)
  BY <1>1, <1>7 DEF Sampling
<1> QED BY <1>1, <1>2, <1>3, <1>5, <1>6, <1>8 DEF Sampling

-----------------------------------------------------------------------------
(* The winner, and what was promoted.                                      *)

\* A step that leaves the winner, its record and best.policy alone; it goes on to
\* promote only from a phase in which the gate was passed.
LEMMA SameWinner ==
  ASSUME Deciding, UNCHANGED <<best, lab, winner, opt, binaries, errors, outputs, samples, cases>>,
         at' \in {"build", "measure"} => at \in {"build", "measure"},
         at' \in {"compare", "reject", "promote", "tell"} => winner # Nobody,
         at' \in {"promote", "tell"} => Gated
  PROVE  Deciding'
  BY DEF Deciding, Ran, Gated

\* A step before the winner is known: it may build and measure.
LEMMA NoWinnerYet ==
  ASSUME Types, Telling, ~Between, at \notin {"tell"},
         UNCHANGED <<best, lab>>, winner' = Nobody, at' \in {"build", "measure", "decide"}
  PROVE  Deciding'
  BY DEF Deciding, Telling

LEMMA RefuseDeciding == ASSUME Types, Deciding, Refuse PROVE Deciding'
<1>1. lab' = lab + 1 /\ best.lab <= lab /\ lab \in Nat /\ best.lab \in Nat
  BY Bounds DEF Types, TypeOK, Refuse
<1> QED BY <1>1 DEF Deciding, Refuse, Ran, directory, building, sampling

LEMMA StartDeciding == ASSUME Types, NEW o \in Options, Start(o) PROVE Deciding'
<1>1. lab' = lab + 1 /\ best.lab <= lab /\ lab \in Nat /\ best.lab \in Nat
  BY Bounds DEF Types, TypeOK, Start
<1> QED BY <1>1 DEF Deciding, Start, directory

LEMMA BuildDeciding ==
  ASSUME Types, Deciding, Telling, NEW ok \in BOOLEAN, NEW gates \in BOOLEAN, Build(ok, gates)
  PROVE  Deciding'
  BY NoWinnerYet DEF Deciding, Build, Between

LEMMA NeutralityDeciding ==
  ASSUME Types, Deciding, Telling, NEW neutral \in BOOLEAN, Neutrality(neutral)
  PROVE  Deciding'
  BY NoWinnerYet DEF Deciding, Neutrality, Between, directory

LEMMA SampleDeciding ==
  ASSUME Types, Deciding, Telling, NEW passed \in BOOLEAN, NEW output \in Shown, Sample(passed, output)
  PROVE  Deciding'
<1>1. /\ at = "measure" /\ at' = "measure" /\ UNCHANGED <<best, lab, winner>>
  BY DEF Sample, directory
<1> QED BY <1>1, NoWinnerYet DEF Deciding, Between

LEMMA SkipDeciding == ASSUME Deciding, Skip PROVE Deciding'
  BY SameWinner DEF Skip, directory, building, sampling

LEMMA NextCycleDeciding == ASSUME Deciding, NextCycle PROVE Deciding'
  BY SameWinner DEF NextCycle, directory, building, sampling

LEMMA NoControlDeciding == ASSUME Deciding, NoControl PROVE Deciding'
  BY SameWinner DEF NoControl, Returns, building, sampling

LEMMA NoSamplesDeciding == ASSUME Deciding, NoSamples PROVE Deciding'
  BY SameWinner DEF NoSamples, Returns, building, sampling

LEMMA JudgeDeciding == ASSUME Types, Deciding, Telling, NEW gain, NEW above, Judge(gain, above) PROVE Deciding'
<1>1. /\ at = "measure" /\ at' = "decide"
      /\ UNCHANGED <<best, lab, opt, binaries, errors, outputs, samples, cases>>
  BY DEF Judge, Measured, directory, building, sampling
<1>2. winner' # Nobody => Ran(winner')
  BY JudgeIs
<1>3. winner' # Nobody => Ran(winner)'
  BY <1>1, <1>2 DEF Ran
<1>4. best'.lab # lab'
  BY <1>1 DEF Telling, Between
<1> QED BY <1>1, <1>3, <1>4 DEF Deciding

LEMMA RebuildDeciding == ASSUME Deciding, NEW match \in BOOLEAN, Rebuild(match) PROVE Deciding'
  BY SameWinner DEF Rebuild, directory, building, sampling

LEMMA DecideDeciding == ASSUME Deciding, Decide PROVE Deciding'
<1>1. /\ at' \in {"idle", "compare", "promote"}
      /\ at' # "idle" => winner # Nobody
      /\ at' = "promote" => Gated
      /\ UNCHANGED <<best, lab, winner, opt, binaries, errors, outputs, samples, cases>>
  BY DEF Decide, Returns, Gated, building, sampling
<1> QED BY <1>1, SameWinner

LEMMA CompareDeciding ==
  ASSUME Types, Deciding, Telling, NEW r \in Behaviours, NEW c \in Behaviours, Compare(r, c)
  PROVE  Deciding'
<1>1. /\ at = "compare" /\ at' = "compare"
      /\ UNCHANGED <<best, lab, winner, opt, binaries, errors, outputs, samples>>
  BY DEF Compare, directory, building, sampling
<1>2. best'.lab # lab'
  BY <1>1 DEF Telling, Between
<1> QED BY <1>1, <1>2 DEF Deciding, Ran

\* What is not a mismatch behaved alike, and neither side was slow or missing: as a
\* message says more than "timeout", two slow sides are an error, not skipped.
LEMMA AlikeIs ==
  ASSUME NEW r \in Behaviours, NEW c \in Behaviours, Kind(r, c) \in {"same", "skipped"}
  PROVE  r = c /\ r \in {"usual", "other", "exit"}
  BY DEF Kind, Message, Behaviours, Shown

LEMMA ComparedDeciding == ASSUME Types, Deciding, Compared PROVE Deciding'
<1>1. /\ at = "compare" /\ at' = IF Equivalent THEN "promote" ELSE "reject"
      /\ Len(cases) = Trials
      /\ UNCHANGED <<best, lab, winner, opt, binaries, errors, outputs, samples, cases>>
  BY Bounds DEF Compared, MoreCases, Types, directory, building, sampling
<1>2. Equivalent => Gated
  <2>1. \A k \in DOMAIN cases : cases[k].ref \in Behaviours /\ cases[k].cand \in Behaviours
    <3>1. \A k \in DOMAIN cases : cases[k] \in Case
      BY DEF Types
    <3> QED BY <3>1 DEF Case
  <2>2. Equivalent => \A k \in DOMAIN cases :
           cases[k].ref = cases[k].cand /\ cases[k].ref \in {"usual", "other", "exit"}
    BY <2>1, AlikeIs DEF Equivalent
  <2> QED BY <1>1, <2>2 DEF Gated
<1> QED BY <1>1, <1>2, SameWinner DEF Deciding

LEMMA RejectDeciding == ASSUME Deciding, Reject PROVE Deciding'
  BY SameWinner DEF Reject, Returns, building, sampling

LEMMA PromoteDeciding == ASSUME Deciding, Promote PROVE Deciding'
  BY DEF Deciding, Promote, Gated, Ran, building, sampling

LEMMA TellDeciding == ASSUME Deciding, Tell PROVE Deciding'
  BY SameWinner DEF Tell, Returns, building, sampling

LEMMA StopDeciding == ASSUME Types, Deciding, Stop PROVE Deciding'
<1>1. /\ at' = "stopped" /\ best' \in {best, NoPolicy}
      /\ UNCHANGED <<lab, winner, opt, binaries, errors, outputs, samples, cases>>
  BY DEF Stop, building, sampling
<1>2. best' = NoPolicy => best'.of = Nobody
  BY DEF NoPolicy
<1> QED BY <1>1, <1>2 DEF Deciding, Ran, Gated

-----------------------------------------------------------------------------
(* What the evidence and best.policy tell.                                 *)

\* A step into a phase that is neither the end of the lab nor "tell".
LEMMA NothingToTell ==
  ASSUME Telling, at' \notin {"idle", "tell"}, at' # "stopped" => best'.lab # lab',
         at' \in {"build", "measure"} => Last(lines').event # "decision"
  PROVE  Telling'
  BY DEF Telling, EvidenceTellsArtifact, Between

\* A step that returns without a decision, or with one.
LEMMA ReturnsNothing ==
  ASSUME at' = "idle", Last(evidence').event # "decision"
  PROVE  Telling'
  BY DEF Telling, EvidenceTellsArtifact, Between

LEMMA ReturnsDecision ==
  ASSUME NEW w, at' = "idle", Last(evidence').about = w,
         IF w = Nobody THEN best'.lab # lab' ELSE best' = [of |-> w, lab |-> lab']
  PROVE  Telling'
  BY DEF Telling, EvidenceTellsArtifact, Between

LEMMA RefuseTelling == ASSUME Telling, Refuse PROVE Telling'
  BY NothingToTell DEF Refuse

LEMMA StartTelling == ASSUME Types, Telling, NEW o \in Options, Start(o) PROVE Telling'
<1>1. lab' = lab + 1 /\ best.lab <= lab /\ lab \in Nat /\ best.lab \in Nat /\ best' = best
  BY Bounds DEF Types, TypeOK, Start, directory
<1>2. Last(lines').event = "lab-meta"
  BY DEF Start, Last, Event
<1> QED BY <1>1, <1>2, NothingToTell DEF Start

LEMMA BuildTelling ==
  ASSUME Types, Telling, NEW ok \in BOOLEAN, NEW gates \in BOOLEAN, Build(ok, gates) PROVE Telling'
<1>1. Event("build", Head(todo), ok) \in Told /\ Event("build", Head(todo), ok).event = "build"
  <2>1. Head(todo) \in AllSpecs
    BY HeadAndTail DEF Types, Build
  <2>2. "build" \in Events /\ ok \in Says /\ Head(todo) \in About
    BY <2>1, AboutIs DEF Says, Events
  <2> QED BY <2>2, EventIs
<1>2. lines' = Append(lines, Event("build", Head(todo), ok))
  BY DEF Build
<1>3. Last(lines') = Event("build", Head(todo), ok)
  BY <1>1, <1>2, LastIs DEF Types
<1>4. at = "build" /\ at' = "build" /\ UNCHANGED <<best, lab>>
  BY DEF Build
<1> QED BY <1>1, <1>3, <1>4, NothingToTell DEF Telling, Between

LEMMA NoControlTelling == ASSUME Telling, NoControl PROVE Telling'
  BY ReturnsNothing DEF Telling, NoControl, Returns

LEMMA NoSamplesTelling == ASSUME Telling, NoSamples PROVE Telling'
  BY ReturnsNothing DEF Telling, NoSamples, Returns, Measured

LEMMA NeutralityTelling ==
  ASSUME Types, Telling, NEW neutral \in BOOLEAN, Neutrality(neutral) PROVE Telling'
<1> DEFINE e == Event("plugin-neutrality", Control, neutral)
<1>1. e \in Told /\ e.event = "plugin-neutrality"
  <2>1. "plugin-neutrality" \in Events /\ neutral \in Says /\ Control \in About
    BY AboutIs DEF Says, Events
  <2> QED BY <2>1, EventIs
<1>2. lines' \in {lines, Append(lines, e)} /\ at = "build" /\ at' = "measure" /\ UNCHANGED <<best, lab>>
  BY DEF Neutrality, directory
<1>3. Last(Append(lines, e)) = e
  BY <1>1, LastIs DEF Types
<1>4. Last(lines').event # "decision"
  BY <1>1, <1>2, <1>3 DEF Telling
<1> QED BY <1>2, <1>4, NothingToTell DEF Telling, Between

LEMMA SampleTelling ==
  ASSUME Telling, NEW passed \in BOOLEAN, NEW output \in Shown, Sample(passed, output) PROVE Telling'
<1>1. at = "measure" /\ at' = "measure" /\ UNCHANGED <<best, lab, lines>>
  BY DEF Sample, directory
<1> QED BY <1>1, NothingToTell DEF Telling, Between

LEMMA SkipTelling == ASSUME Telling, Skip PROVE Telling'
  BY NothingToTell DEF Telling, Skip, Between, directory

LEMMA NextCycleTelling == ASSUME Telling, NextCycle PROVE Telling'
  BY NothingToTell DEF Telling, NextCycle, Between, directory

LEMMA JudgeTelling == ASSUME Telling, NEW gain, NEW above, Judge(gain, above) PROVE Telling'
<1>1. at = "measure" /\ at' = "decide" /\ UNCHANGED <<best, lab>>
  BY DEF Judge, Measured, directory
<1> QED BY <1>1, NothingToTell DEF Telling, Between

LEMMA RebuildTelling == ASSUME Telling, NEW match \in BOOLEAN, Rebuild(match) PROVE Telling'
  BY NothingToTell DEF Telling, Rebuild, Between, directory

LEMMA DecideTelling == ASSUME Types, Telling, Decide PROVE Telling'
<1>1. /\ at = "decide" /\ UNCHANGED <<best, lab>> /\ evidence' = Append(lines, Decision(winner, "measured"))
      /\ at' \in {"compare", "promote"} \/ (winner = Nobody /\ at' = "idle")
  BY DEF Decide, Returns
<1>2. best'.lab # lab'
  BY <1>1 DEF Telling, Between
<1>3. Last(evidence').about = winner
  <2>1. winner \in Range(Policies) \cup {Nobody}
    BY DEF Types, TypeOK
  <2> QED BY <1>1, <2>1, Decided, DecisionIs
<1> QED BY <1>1, <1>2, <1>3, NothingToTell, ReturnsDecision

LEMMA CompareTelling ==
  ASSUME Telling, NEW r \in Behaviours, NEW c \in Behaviours, Compare(r, c) PROVE Telling'
<1>1. at = "compare" /\ at' = "compare" /\ UNCHANGED <<best, lab>>
  BY DEF Compare, directory
<1> QED BY <1>1, NothingToTell DEF Telling, Between

LEMMA ComparedTelling == ASSUME Telling, Compared PROVE Telling'
<1>1. at = "compare" /\ at' \in {"promote", "reject"} /\ UNCHANGED <<best, lab>>
  BY DEF Compared, directory
<1> QED BY <1>1, NothingToTell DEF Telling, Between

LEMMA RejectTelling == ASSUME Types, Telling, Reject PROVE Telling'
<1>1. /\ at = "reject" /\ at' = "idle" /\ UNCHANGED <<best, lab>> /\ evidence' = LastReplaced(Rejection)
  BY DEF Reject, Returns
<1>2. Last(evidence').about = Nobody
  BY <1>1, Decided, DecisionIs DEF Rejection
<1> QED BY <1>1, <1>2, ReturnsDecision DEF Telling, Between

LEMMA PromoteTelling == ASSUME Telling, Promote PROVE Telling'
  BY DEF Telling, EvidenceTellsArtifact, Promote, Between

LEMMA TellTelling == ASSUME Types, Telling, Deciding, Tell PROVE Telling'
<1>1. /\ at = "tell" /\ at' = "idle" /\ UNCHANGED <<best, lab>>
      /\ evidence' = LastReplaced(Decision(winner, "artifact"))
  BY DEF Tell, Returns
<1>2. Last(evidence').about = winner
  <2>1. winner \in Range(Policies) \cup {Nobody}
    BY DEF Types, TypeOK
  <2> QED BY <1>1, <2>1, Decided, DecisionIs
<1>3. best' = [of |-> winner, lab |-> lab'] /\ winner # Nobody
  BY <1>1 DEF Telling, Deciding
<1> QED BY <1>1, <1>2, <1>3, ReturnsDecision

LEMMA StopTelling == ASSUME Telling, Stop PROVE Telling'
  BY NothingToTell DEF Stop

-----------------------------------------------------------------------------
(* The invariant is inductive.                                             *)

LEMMA InitInv == ASSUME Init PROVE Inv
<1>1. \A s \in AllSpecs : samples[s] = <<>>
  BY DEF Init, AllSpecs
<1>2. Types
  <2>1. samples \in [AllSpecs -> Seq(Nat)] /\ outputs \in [AllSpecs -> Shown \cup {"none"}]
    BY DEF Init, AllSpecs
  <2>2. Range(todo) = {} /\ todo \in Seq(AllSpecs)
    BY DEF Init, Range
  <2> QED BY <2>1, <2>2, Bounds DEF Types, TypeOK, Init, Options, NoPolicy, Between
<1>3. Sampling
  BY <1>1 DEF Sampling, Init
<1>4. Deciding
  BY DEF Deciding, Init, NoPolicy
<1>5. Telling
  BY DEF Telling, EvidenceTellsArtifact, Init, Between
<1> QED BY <1>2, <1>3, <1>4, <1>5 DEF Inv

LEMMA StutterInv == ASSUME Inv, UNCHANGED vars PROVE Inv'
<1>1. UNCHANGED <<evidence, best, telemetry, lab, at, code, opt, todo, cycle, lines, binaries,
                  gated, active, samples, outputs, errors, winner, cases, trouble>>
  BY DEF vars, directory, building, sampling
<1>2. RunnableOrder' = RunnableOrder
  BY <1>1, OrderStays
<1>3. Types'
  BY <1>1 DEF Inv, Types, TypeOK, Between
<1>4. Sampling'
  BY <1>1, <1>2 DEF Inv, Sampling, Unmeasured, Counted
<1>5. Deciding' /\ Telling'
  BY <1>1 DEF Inv, Deciding, Ran, Gated, Telling, EvidenceTellsArtifact, Between
<1> QED BY <1>3, <1>4, <1>5 DEF Inv

\* Every step but those that start, build and measure leaves the samples as they are.
LEMMA OtherSampling ==
  ASSUME Sampling,
         \/ Refuse \/ NoControl \/ NoSamples \/ Decide \/ Compared \/ Reject \/ Promote \/ Tell \/ Stop
         \/ \E gain, above : Judge(gain, above)
         \/ \E match \in BOOLEAN : Rebuild(match)
         \/ \E r, c \in Behaviours : Compare(r, c)
  PROVE  Sampling'
<1>1. UNCHANGED <<samples, opt>> /\ at' \notin {"build", "measure"}
  BY DEF Refuse, NoControl, NoSamples, Decide, Compared, Reject, Promote, Tell, Stop, Judge,
         Rebuild, Compare, Returns, sampling
<1> QED BY <1>1, RestSampling

LEMMA StepInv == ASSUME Inv, [Next]_vars PROVE Inv'
<1> USE DEF Inv
<1>1. ASSUME Refuse PROVE Inv'
  BY <1>1, RefuseTypes, OtherSampling, RefuseDeciding, RefuseTelling
<1>2. ASSUME NEW o \in Options, Start(o) PROVE Inv'
  BY <1>2, StartTypes, StartSampling, StartDeciding, StartTelling
<1>3. ASSUME NEW ok \in BOOLEAN, NEW gates \in BOOLEAN, Build(ok, gates) PROVE Inv'
  BY <1>3, BuildTypes, BuildSampling, BuildDeciding, BuildTelling
<1>4. ASSUME NoControl PROVE Inv'
  BY <1>4, NoControlTypes, OtherSampling, NoControlDeciding, NoControlTelling
<1>5. ASSUME NEW neutral \in BOOLEAN, Neutrality(neutral) PROVE Inv'
  BY <1>5, NeutralityTypes, NeutralitySampling, NeutralityDeciding, NeutralityTelling
<1>6. ASSUME NEW passed \in BOOLEAN, NEW output \in Shown, Sample(passed, output)
     PROVE  Inv'
  BY <1>6, SampleTypes, SampleSampling, SampleDeciding, SampleTelling
<1>7. ASSUME Skip PROVE Inv'
  BY <1>7, SkipTypes, SkipSampling, SkipDeciding, SkipTelling
<1>8. ASSUME NextCycle PROVE Inv'
  BY <1>8, NextCycleTypes, NextCycleSampling, NextCycleDeciding, NextCycleTelling
<1>9. ASSUME NoSamples PROVE Inv'
  BY <1>9, NoSamplesTypes, OtherSampling, NoSamplesDeciding, NoSamplesTelling
<1>10. ASSUME NEW gain, NEW above, Judge(gain, above) PROVE Inv'
  BY <1>10, JudgeTypes, OtherSampling, JudgeDeciding, JudgeTelling
<1>11. ASSUME NEW match \in BOOLEAN, Rebuild(match) PROVE Inv'
  BY <1>11, RebuildTypes, OtherSampling, RebuildDeciding, RebuildTelling
<1>12. ASSUME Decide PROVE Inv'
  BY <1>12, DecideTypes, OtherSampling, DecideDeciding, DecideTelling
<1>13. ASSUME NEW r \in Behaviours, NEW c \in Behaviours, Compare(r, c) PROVE Inv'
  BY <1>13, CompareTypes, OtherSampling, CompareDeciding, CompareTelling
<1>14. ASSUME Compared PROVE Inv'
  BY <1>14, ComparedTypes, OtherSampling, ComparedDeciding, ComparedTelling
<1>15. ASSUME Reject PROVE Inv'
  BY <1>15, RejectTypes, OtherSampling, RejectDeciding, RejectTelling
<1>16. ASSUME Promote PROVE Inv'
  BY <1>16, PromoteTypes, OtherSampling, PromoteDeciding, PromoteTelling
<1>17. ASSUME Tell PROVE Inv'
  BY <1>17, TellTypes, OtherSampling, TellDeciding, TellTelling
<1>18. ASSUME Stop PROVE Inv'
  BY <1>18, StopTypes, OtherSampling, StopDeciding, StopTelling
<1>19. CASE UNCHANGED vars
  BY <1>19, StutterInv
<1> QED
  BY <1>1, <1>2, <1>3, <1>4, <1>5, <1>6, <1>7, <1>8, <1>9, <1>10, <1>11, <1>12, <1>13, <1>14, <1>15, <1>16, <1>17, <1>18, <1>19 DEF Next

LEMMA SpecInv == Spec => []Inv
<1> QED BY InitInv, StepInv, PTL DEF Spec

-----------------------------------------------------------------------------
(* The theorems.                                                           *)

\* The state of the lab keeps its types, and sample i of every variant was taken
\* in the same measured cycle, whatever failed, was skipped or was rotated before.
THEOREM LabIsConsistent == Spec => []LabConsistent
<1>1. ASSUME Inv PROVE LabConsistent
  BY <1>1 DEF Inv, Types, Sampling, LabConsistent, PairedSamples, AllSpecs
<1> QED BY <1>1, SpecInv, PTL

\* What a lab wrote into best.policy it had built and sampled without a failure, it
\* printed what the control printed, and with the gate on it behaved as the control
\* in every one of the cases.
THEOREM PromotionIsSound == Spec => []PromotedIsSound
<1>1. ASSUME Inv PROVE PromotedIsSound
  BY <1>1 DEF Inv, Deciding, Ran, Gated, PromotedIsSound
<1> QED BY <1>1, SpecInv, PTL

\* A lab that came to its end has told in its evidence whose policy best.policy holds,
\* also when an earlier lab's best.policy is still there.
THEOREM EvidenceIsTrue == Spec => []EvidenceTellsArtifact
<1>1. ASSUME Inv PROVE EvidenceTellsArtifact
  BY <1>1 DEF Inv, Telling
<1> QED BY <1>1, SpecInv, PTL
=============================================================================
