----------------------- MODULE VirtualComputerProofs -----------------------
(***************************************************************************)
(* Proofs about VirtualComputer and the components it is composed of: the  *)
(* virtual compiler, by itself and as a part of the computer, the drift    *)
(* manager, the ledger and the slice, the certification, and the virtual   *)
(* kernel with its exact oracle.  They hold for every search space, input, *)
(* limit, workload, window and bound.                                      *)
(*                                                                         *)
(* What a fold computes is proved in Folding, which is instantiated with   *)
(* the step of the fold and the fact that the step preserves.              *)
(***************************************************************************)
EXTENDS VirtualComputer, FiniteSetTheorems, WellFoundedInduction, TLAPS

-----------------------------------------------------------------------------
(* The environment of the virtual compiler, by itself.                     *)

Fields == {"config", "parent", "fact", "bin", "equiv"}

\* What a set of branches knows.
Knows(bs) == {<<Built(bs[n].config), bs[n].fact>> : n \in {k \in DOMAIN bs : bs[k].fact.known}}

\* The surrogate knows what the branches know, the oracle what the surrogate knows, and
\* no more views were taken than were charged.
NowInv ==
  /\ \A n \in DOMAIN branches : DOMAIN branches[n] = Fields
  /\ \A n \in DOMAIN branches : branches[n].fact.known =>
       <<Built(branches[n].config), branches[n].fact>> \in experience
  /\ experience \subseteq views
  /\ used \in Nat /\ IsFiniteSet(views) /\ Cardinality(views) <= used

\* The same of the file of a session: it holds no more facts than it was charged for.
SavedInv ==
  /\ \A n \in DOMAIN saved.branches : DOMAIN saved.branches[n] = Fields
  /\ saved.used \in Nat /\ IsFiniteSet(Taught(saved)) /\ Cardinality(Taught(saved)) <= saved.used

FactsInv == NowInv /\ SavedInv

\* The kinds of step an environment takes.
Rearranges ==   \* no branch knows what none knew
  /\ UNCHANGED <<experience, views, used, saved>>
  /\ \A n \in DOMAIN branches' :
       /\ DOMAIN branches'[n] = Fields
       /\ branches'[n].fact.known =>
            \E k \in DOMAIN branches : /\ branches'[n].config = branches[k].config
                                       /\ branches'[n].fact = branches[k].fact
Restarts ==     \* a new environment
  /\ \A n \in DOMAIN branches' : DOMAIN branches'[n] = Fields /\ ~branches'[n].fact.known
  /\ experience' = {} /\ views' = {} /\ used' = 0 /\ UNCHANGED saved
Measures == (\E n, m : Measure(n, m)) /\ UNCHANGED saved

-----------------------------------------------------------------------------
LEMMA NewFields ==
  \A c, p : /\ DOMAIN NewBranch(c, p) = Fields /\ ~NewBranch(c, p).fact.known
            /\ NewBranch(c, p).config = c
  BY DEF NewBranch, Fields, Unmeasured

LEMMA FewKnown ==
  ASSUME NowInv
  PROVE  IsFiniteSet(Knows(branches)) /\ Cardinality(Knows(branches)) <= used
<1>1. Knows(branches) \subseteq views
  BY DEF NowInv, Knows
<1>2. IsFiniteSet(Knows(branches)) /\ Cardinality(Knows(branches)) <= Cardinality(views)
  BY <1>1, FS_Subset DEF NowInv
<1>3. Cardinality(Knows(branches)) \in Nat /\ Cardinality(views) \in Nat /\ used \in Nat
      /\ Cardinality(views) <= used
  BY <1>2, FS_CardinalityType DEF NowInv
<1> QED BY <1>2, <1>3

LEMMA RearrangesKeeps == ASSUME FactsInv, Rearranges PROVE FactsInv'
  BY DEF FactsInv, NowInv, SavedInv, Taught, Rearranges

LEMMA RestartsKeeps == ASSUME FactsInv, Restarts PROVE FactsInv'
<1>1. IsFiniteSet({}) /\ Cardinality({}) = 0
  BY FS_EmptySet
<1> QED BY <1>1 DEF FactsInv, NowInv, SavedInv, Taught, Restarts

LEMMA MeasuresKeeps == ASSUME FactsInv, Measures PROVE FactsInv'
<1>1. PICK n, m : Measure(n, m)
  BY DEF Measures
<1>2. SavedInv'
  BY DEF FactsInv, SavedInv, Taught, Measures
<1>3. used \in Nat /\ used' = used + 1 /\ IsFiniteSet(views) /\ Cardinality(views) <= used
      /\ Cardinality(views) \in Nat
  BY <1>1, FS_CardinalityType DEF Measure, FactsInv, NowInv
<1>4. CASE m = Lost
  <2>1. UNCHANGED <<branches, experience, views>>
    BY <1>1, <1>4 DEF Measure
  <2> QED BY <1>2, <1>3, <2>1 DEF FactsInv, NowInv
<1>5. CASE m # Lost
  <2> DEFINE b == <<Built(branches[n].config), m>>
  <2>1. /\ branches' = [branches EXCEPT ![n].fact = m, ![n].bin = m.ok]
        /\ experience' = experience \cup {b} /\ views' = views \cup {b}
    BY <1>1, <1>5 DEF Measure, Learned
  <2>2. IsFiniteSet(views') /\ Cardinality(views') <= used'
    <3>1. /\ IsFiniteSet(views \cup {b})
          /\ Cardinality(views \cup {b}) = IF b \in views THEN Cardinality(views)
                                           ELSE Cardinality(views) + 1
      BY <1>3, FS_AddElement
    <3> QED BY <1>3, <2>1, <3>1
  <2>3. DOMAIN branches' = DOMAIN branches
    BY <2>1
  <2>4. ASSUME NEW k \in DOMAIN branches'
        PROVE  /\ DOMAIN branches'[k] = Fields
               /\ branches'[k].fact.known => <<Built(branches'[k].config), branches'[k].fact>> \in experience'
    <3>1. k \in DOMAIN branches /\ DOMAIN branches[k] = Fields
      BY <2>3 DEF FactsInv, NowInv
    <3>2. CASE k = n
      <4>1. branches'[n] = [[branches[n] EXCEPT !.fact = m] EXCEPT !.bin = m.ok]
        BY <2>1, <3>1, <3>2
      <4>2. /\ DOMAIN branches'[n] = Fields /\ branches'[n].fact = m
            /\ branches'[n].config = branches[n].config
        BY <3>1, <3>2, <4>1 DEF Fields
      <4> QED BY <2>1, <3>2, <4>2
    <3>3. CASE k # n
      <4>1. branches'[k] = branches[k]
        BY <2>1, <3>1, <3>3
      <4> QED BY <2>1, <3>1, <4>1 DEF FactsInv, NowInv
    <3> QED BY <3>2, <3>3
  <2>5. experience' \subseteq views' /\ used' \in Nat
    BY <1>3, <2>1 DEF FactsInv, NowInv
  <2> QED BY <1>2, <2>2, <2>4, <2>5 DEF FactsInv, NowInv
<1> QED BY <1>4, <1>5

LEMMA SaveKeeps == ASSUME FactsInv, Save PROVE FactsInv'
<1>1. /\ saved'.branches = branches /\ saved'.used = used
      /\ UNCHANGED <<branches, experience, views, used>>
  BY DEF Save, envVars
<1>2. Taught(saved)' = Knows(branches)
  BY <1>1 DEF Taught, Knows
<1>3. IsFiniteSet(Taught(saved)') /\ Cardinality(Taught(saved)') <= used
  BY <1>2, FewKnown DEF FactsInv
<1> QED BY <1>1, <1>3 DEF FactsInv, NowInv, SavedInv

LEMMA LoadKeeps == ASSUME FactsInv, Load PROVE FactsInv'
<1>1. /\ branches' = saved.branches /\ used' = saved.used /\ UNCHANGED saved
      /\ experience' = Taught(saved) /\ views' = Taught(saved)
  BY DEF Load
<1>2. SavedInv'
  BY <1>1 DEF FactsInv, SavedInv, Taught
<1>3. \A n \in DOMAIN saved.branches : saved.branches[n].fact.known =>
        <<Built(saved.branches[n].config), saved.branches[n].fact>> \in Taught(saved)
  BY DEF Taught
<1> QED BY <1>1, <1>2, <1>3 DEF FactsInv, NowInv, SavedInv

-----------------------------------------------------------------------------
LEMMA QuietRearranges ==
  ASSUME FactsInv, UNCHANGED <<branches, experience, views, used, saved>> PROVE Rearranges
  BY DEF FactsInv, NowInv, Rearranges

LEMMA ExpandedRearranges ==
  ASSUME FactsInv, NEW by, NEW base, NEW acts, branches' = Expanded(by, base, acts),
         UNCHANGED <<experience, views, used, saved>>
  PROVE  Rearranges
<1> SUFFICES ASSUME NEW n \in DOMAIN branches'
             PROVE  /\ DOMAIN branches'[n] = Fields
                    /\ branches'[n].fact.known =>
                         \E k \in DOMAIN branches : /\ branches'[n].config = branches[k].config
                                                    /\ branches'[n].fact = branches[k].fact
  BY DEF Rearranges
<1>1. branches'[n] = IF n \in DOMAIN branches THEN branches[n] ELSE Child(base, n.act)
  BY DEF Expanded
<1>2. DOMAIN Child(base, n.act) = Fields /\ ~Child(base, n.act).fact.known
  BY NewFields DEF Child
<1> QED BY <1>1, <1>2 DEF FactsInv, NowInv

LEMMA FreshRestarts == ASSUME FreshEnv, UNCHANGED saved PROVE Restarts
  BY NewFields DEF FreshEnv, Restarts

LEMMA WorkKinds ==
  ASSUME FactsInv, Work
  PROVE  (Rearranges \/ Restarts \/ Measures) /\ UNCHANGED <<saved, sessions>>
<1> USE DEF envVars
<1>1. ASSUME NEW m, ValidateRoot(m) \/ ValidateNext(m)
      PROVE  Measures /\ UNCHANGED <<saved, sessions>>
  BY <1>1 DEF ValidateRoot, ValidateNext, Measures
<1>2. CASE RefuseRoot \/ PassOver \/ EndScreen \/ EndScreenOfSwarm \/ NoAdvice \/ Return
  <2>1. UNCHANGED <<branches, experience, views, used, saved, sessions>>
    BY <1>2 DEF RefuseRoot, PassOver, EndScreen, EndScreenOfSwarm, NoAdvice, Return
  <2> QED BY <2>1, QuietRearranges
<1>3. ASSUME NEW acts, Expand(acts) PROVE Rearranges /\ UNCHANGED <<saved, sessions>>
  BY <1>3, ExpandedRearranges DEF Expand
<1>4. ASSUME NEW n \in DOMAIN branches, NEW a, Think(n, a)
      PROVE  Rearranges /\ UNCHANGED <<saved, sessions>>
  <2> DEFINE leaf == UniqueName("step", a)
  <2>1. /\ branches' = [m \in DOMAIN branches \cup {leaf} |->
                          IF m = leaf THEN Child(n, a) ELSE branches[m]]
        /\ UNCHANGED <<experience, views, used, saved, sessions>>
    BY <1>4 DEF Think
  <2>2. DOMAIN Child(n, a) = Fields /\ ~Child(n, a).fact.known
    BY NewFields DEF Child
  <2> HIDE DEF leaf
  <2> QED BY <2>1, <2>2 DEF FactsInv, NowInv, Rearranges
<1>5. ASSUME NEW x, Rank(x) \/ Refute(x) \/ EndCampaignRound(x)
      PROVE  Rearranges /\ UNCHANGED <<saved, sessions>>
  <2>1. UNCHANGED <<branches, experience, views, used, saved, sessions>>
    BY <1>5 DEF Rank, Refute, EndCampaignRound
  <2> QED BY <2>1, QuietRearranges
<1>6. CASE EndTree
  BY <1>6 DEF EndTree, FactsInv, NowInv, Rearranges
<1>7. ASSUME NEW n, NEW m, Advise(n, m) PROVE Measures /\ UNCHANGED <<saved, sessions>>
  BY <1>7 DEF Advise, Measures
<1>8. CASE Report
  <2>1. UNCHANGED <<saved, sessions>> /\ (FreshEnv \/ UNCHANGED envVars)
    BY <1>8 DEF Report
  <2>2. CASE FreshEnv
    BY <2>1, <2>2, FreshRestarts
  <2>3. CASE UNCHANGED envVars
    BY <2>1, <2>3, QuietRearranges
  <2> QED BY <2>1, <2>2, <2>3
<1> QED BY <1>1, <1>2, <1>3, <1>4, <1>5, <1>6, <1>7, <1>8 DEF Work

LEMMA UseKinds ==
  ASSUME FactsInv, Use
  PROVE  (Rearranges \/ Measures \/ Save \/ Load) /\ UNCHANGED sessions
<1> USE DEF Between, envVars
<1>1. ASSUME NEW n, NEW a, Perturb(n, a) PROVE Rearranges /\ UNCHANGED sessions
  BY <1>1, ExpandedRearranges DEF Perturb
<1>2. ASSUME NEW n \in DOMAIN branches, Branch(n) PROVE Rearranges /\ UNCHANGED sessions
  <2> DEFINE new == UniqueName("branch", NoAction)
  <2>1. /\ branches' = [m \in DOMAIN branches \cup {new} |->
                          IF m = new THEN Copy(n) ELSE branches[m]]
        /\ UNCHANGED <<experience, views, used, saved, sessions>>
    BY <1>2 DEF Branch
  <2>2. DOMAIN branches[n] = Fields
    BY DEF FactsInv, NowInv
  <2>3. /\ DOMAIN Copy(n) = Fields /\ Copy(n).fact = branches[n].fact
        /\ Copy(n).config = branches[n].config
    BY <2>2 DEF Copy, Fields
  <2> HIDE DEF new
  <2> QED BY <2>1, <2>3 DEF FactsInv, NowInv, Rearranges
<1>3. ASSUME NEW n, NEW m, Validate(n, m) PROVE Measures /\ UNCHANGED sessions
  BY <1>3 DEF Validate, Measures
<1>4. ASSUME NEW n \in DOMAIN branches, NEW v, DiffGate(n, v) PROVE Rearranges /\ UNCHANGED sessions
  <2>1. /\ branches' = [branches EXCEPT ![n].equiv = v]
        /\ UNCHANGED <<experience, views, used, saved, sessions>>
    BY <1>4 DEF DiffGate
  <2>2. ASSUME NEW k \in DOMAIN branches
        PROVE  /\ DOMAIN branches'[k] = Fields /\ branches'[k].fact = branches[k].fact
               /\ branches'[k].config = branches[k].config
    BY <2>1 DEF FactsInv, NowInv, Fields
  <2>3. DOMAIN branches' = DOMAIN branches
    BY <2>1
  <2> QED BY <2>1, <2>2, <2>3 DEF Rearranges
<1>5. CASE Save \/ Load
  BY <1>5 DEF Save, Load
<1>6. CASE Leave
  BY <1>6, QuietRearranges DEF Leave
<1> QED BY <1>1, <1>2, <1>3, <1>4, <1>5, <1>6 DEF Use

LEMMA StartRestarts ==
  ASSUME NEW c, NEW b, Start(c, b) PROVE Restarts /\ sessions' = sessions + 1
  BY FreshRestarts DEF Start

LEMMA FactsStep == ASSUME FactsInv, CompilerNext PROVE FactsInv'
<1>1. Rearranges \/ Restarts \/ Measures \/ Save \/ Load
  BY WorkKinds, UseKinds, StartRestarts DEF CompilerNext
<1> QED BY <1>1, RearrangesKeeps, RestartsKeeps, MeasuresKeeps, SaveKeeps, LoadKeeps

LEMMA FactsInit == Init => FactsInv
<1>1. IsFiniteSet({}) /\ Cardinality({}) = 0
  BY FS_EmptySet
<1>2. Taught(NoFile) = {}
  BY DEF Taught, NoFile
<1>3. DOMAIN NoFile.branches = {} /\ NoFile.used = 0
  BY DEF NoFile
<1>4. ASSUME Init PROVE NowInv
  BY <1>1, <1>4, NewFields DEF Init, NowInv
<1>5. ASSUME Init PROVE SavedInv
  <2>1. saved = NoFile
    BY <1>5 DEF Init
  <2> QED BY <1>1, <1>2, <1>3, <2>1 DEF SavedInv
<1> QED BY <1>4, <1>5 DEF FactsInv

LEMMA FactsAre == FactsInv => FactsAreMeasured
  BY DEF FactsInv, NowInv, FactsAreMeasured, Facts

\* "The oracle feeds the surrogate, never the reverse" (oracle.py:11): with any search
\* space, strategies, budgets, sessions and failures, a branch knows only what was
\* measured for what is built from it, and every measurement was paid for.
THEOREM OracleFeedsSurrogate == Spec => []FactsAreMeasured
<1>1. FactsInv /\ [CompilerNext]_vars => FactsInv'
  <2>1. UNCHANGED vars => UNCHANGED <<branches, experience, views, used, saved>>
    BY DEF vars, envVars
  <2> QED BY <2>1, FactsStep, QuietRearranges, RearrangesKeeps
<1> QED BY <1>1, FactsInit, FactsAre, PTL DEF Spec

-----------------------------------------------------------------------------
(* Names.                                                                  *)

LEMMA LeastNatural ==
  ASSUME NEW T \in SUBSET Nat, T # {}
  PROVE  \E n \in T : \A m \in T : n <= m
<1>1. PICK n \in T : \A m \in T : ~(<<m, n>> \in OpToRel(<, Nat))
  BY NatLessThanWellFounded, WFMin
<1>2. \A m \in T : ~(m < n)
  BY <1>1 DEF OpToRel
<1> QED BY <1>2

\* There is always a free number among the first ones: _unique_name ends, and returns
\* a name no branch has.
LEMMA UniqueIs ==
  ASSUME IsFiniteSet(DOMAIN branches), NEW by, NEW a
  PROVE  \E k \in Nat : /\ k # 0 /\ UniqueName(by, a) = Name(by, a, k)
                        /\ Name(by, a, k) \notin DOMAIN branches
<1> DEFINE c == Cardinality(DOMAIN branches)
           free == {k \in 1 .. c + 1 : Name(by, a, k) \notin DOMAIN branches}
<1>1. c \in Nat
  BY FS_CardinalityType
<1>2. free # {}
  <2>1. SUFFICES ASSUME free = {} PROVE FALSE
    OBVIOUS
  <2> DEFINE f == [k \in 1 .. c + 1 |-> Name(by, a, k)]
  <2>2. \A k \in 1 .. c + 1 : Name(by, a, k) \in DOMAIN branches
    BY <2>1
  <2>3. f \in Injection(1 .. c + 1, DOMAIN branches)
    <3>1. f \in [1 .. c + 1 -> DOMAIN branches]
      BY <2>2
    <3>2. \A j, k \in 1 .. c + 1 : f[j] = f[k] => j = k
      BY DEF Name
    <3> QED BY <3>1, <3>2 DEF Injection, IsInjective
  <2>4. Cardinality(1 .. c + 1) = c + 1
    BY <1>1, FS_Interval
  <2> HIDE DEF f
  <2>5. Cardinality(1 .. c + 1) <= c
    BY <2>3, FS_Injection
  <2> QED BY <1>1, <2>4, <2>5
<1>3. PICK k \in free : \A j \in free : k <= j
  <2>1. free \in SUBSET Nat
    BY <1>1
  <2> HIDE DEF free
  <2> QED BY <1>2, <2>1, LeastNatural
<1> DEFINE names == {Name(by, a, j) : j \in 1 .. c + 1}
<1>4. /\ Name(by, a, k) \in names /\ Name(by, a, k) \notin DOMAIN branches
      /\ \A j \in 1 .. Name(by, a, k).no - 1 : Name(by, a, j) \in DOMAIN branches
  <2>1. k \in 1 .. c + 1 /\ Name(by, a, k).no = k /\ Name(by, a, k) \notin DOMAIN branches
    BY <1>3 DEF Name
  <2>2. \A j \in 1 .. k - 1 : j \in 1 .. c + 1 /\ ~(k <= j)
    BY <1>1, <2>1
  <2>3. \A j \in 1 .. k - 1 : Name(by, a, j) \in DOMAIN branches
    BY <1>3, <2>2
  <2> QED BY <2>1, <2>3
<1>5. /\ UniqueName(by, a) \in names /\ UniqueName(by, a) \notin DOMAIN branches
  <2> HIDE DEF names
  <2>1. UniqueName(by, a) = CHOOSE n \in names :
            n \notin DOMAIN branches /\ \A j \in 1 .. n.no - 1 : Name(by, a, j) \in DOMAIN branches
    BY DEF UniqueName, names
  <2> QED BY <1>4, <2>1
<1>6. PICK j \in 1 .. c + 1 : UniqueName(by, a) = Name(by, a, j)
  BY <1>5
<1>7. j \in Nat /\ j # 0
  BY <1>1
<1> QED BY <1>5, <1>6, <1>7

LEMMA FreshName ==
  ASSUME IsFiniteSet(DOMAIN branches), NEW by, NEW a
  PROVE  /\ UniqueName(by, a) \notin DOMAIN branches /\ UniqueName(by, a) # Nowhere
         /\ UniqueName(by, a).act = a
<1>1. PICK k \in Nat : /\ k # 0 /\ UniqueName(by, a) = Name(by, a, k)
                      /\ Name(by, a, k) \notin DOMAIN branches
  BY UniqueIs
<1>2. Name(by, a, k).no = k /\ Name(by, a, k).act = a /\ Nowhere.no = 0
  BY DEF Name, Nowhere
<1> QED BY <1>1, <1>2

LEMMA FiniteNames ==
  ASSUME NEW by, NEW acts, IsFiniteSet(acts) PROVE IsFiniteSet({UniqueName(by, a) : a \in acts})
<1> DEFINE T == {UniqueName(by, a) : a \in acts}
           f == [a \in acts |-> UniqueName(by, a)]
<1>1. f \in Surjection(acts, T)
  BY DEF Surjection
<1> QED BY <1>1, FS_Surjection

-----------------------------------------------------------------------------
(* The worlds of an environment.                                           *)

\* Finitely many branches; all but the root hang on another, and none on nothing.
Whole(bs, cur) ==
  /\ IsFiniteSet(DOMAIN bs) /\ Nowhere \notin DOMAIN bs /\ {Root, cur} \subseteq DOMAIN bs
  /\ \A n \in DOMAIN bs :
       /\ DOMAIN bs[n] = Fields /\ bs[n].fact.rt \in Nat
       /\ n = Root <=> bs[n].parent = Nowhere
       /\ n # Root => bs[n].parent \in DOMAIN bs

\* While a round is under way: what it made is new, its kids hang on the branch it began
\* at, and only unmeasured leaves of its random steps hang on what it made.
MadeInv ==
  /\ job.base = current /\ current \notin job.made
  /\ job.kids \subseteq job.made /\ job.made \subseteq DOMAIN branches \ {Root}
  /\ {job.best} \cup job.done \subseteq job.kids \cup {current}
  /\ job.arm = "stock" => job.kids = {}
  /\ \A n \in job.made \ job.kids : ~Facts(n).known
  /\ \A n \in DOMAIN branches : branches[n].parent \in job.made => n \in job.made \ job.kids

\* No kid is validated twice; the best so far is the fastest of the validated.
FastSoFar ==
  /\ job.best \in job.done \cup {current} /\ job.rt = Facts(job.best).rt
  /\ \A n \in job.done \cup {current} : Facts(n).rt > 0 => job.rt \in 1 .. Facts(n).rt
TodoInv ==
  /\ \A i \in 1 .. Len(job.todo) : job.todo[i] \in job.kids \ job.done
  /\ \A i, j \in 1 .. Len(job.todo) : job.todo[i] = job.todo[j] => i = j

RoundInv ==
  /\ DOMAIN job = DOMAIN NoJob
  /\ at \in {"rank", "validate"} => MadeInv
  /\ at = "rank" => job.done = {} /\ job.best = current /\ job.rt = Facts(current).rt
  /\ at = "validate" => /\ job.todo \in Seq(job.kids \cup {current})
                        /\ job.arm # "stock" => TodoInv /\ FastSoFar
  /\ at \in {"refute", "advise"} => job.arm = "swarm"

FileInv == saved # NoFile => Whole(saved.branches, saved.current)
WorldInv == Whole(branches, current) /\ FileInv /\ RoundInv /\ BestIsFastest

LEMMA WorldIsWhole == WorldInv => LineageIntact
  BY DEF WorldInv, Whole, LineageIntact

\* Where no screen is under way nothing is said of the job.
Settles ==
  /\ DOMAIN job' = DOMAIN NoJob
  /\ \/ at' \in {"idle", "root", "start", "library"}
     \/ at' \in {"refute", "advise", "done"} /\ job'.arm = "swarm"
     \/ at' = "done" /\ job'.arm = "campaign"

LEMMA SettlesKeeps ==
  ASSUME WorldInv, Settles, Whole(branches', current'), FileInv' PROVE WorldInv'
  BY DEF WorldInv, Settles, RoundInv, BestIsFastest

LEMMA FileKept == ASSUME WorldInv, UNCHANGED saved PROVE FileInv'
  BY DEF WorldInv, FileInv

\* What measuring leaves of a branch.
Measurable(m) == m = Lost \/ (m.rt \in Nat /\ (~m.ok => m.rt = 0))

LEMMA OutcomesAre == \A m \in Outcomes : Measurable(m)
  BY BoundsAssumption DEF Outcomes, Results, Measurable, Fact, Lost

LEMMA Measured ==
  ASSUME Whole(branches, current), NEW n, NEW m, Measurable(m), Measure(n, m)
  PROVE  /\ DOMAIN branches' = DOMAIN branches
         /\ \A k \in DOMAIN branches :
              /\ branches'[k].parent = branches[k].parent /\ DOMAIN branches'[k] = Fields
              /\ branches'[k].fact = IF k = n /\ m # Lost THEN m ELSE branches[k].fact
<1>1. CASE m = Lost
  BY <1>1 DEF Measure, Whole
<1>2. CASE m # Lost
  <2>1. branches' = [branches EXCEPT ![n].fact = m, ![n].bin = m.ok]
    BY <1>2 DEF Measure
  <2>2. DOMAIN branches' = DOMAIN branches
    BY <2>1
  <2>3. ASSUME NEW k \in DOMAIN branches
        PROVE  /\ branches'[k].parent = branches[k].parent /\ DOMAIN branches'[k] = Fields
               /\ branches'[k].fact = IF k = n /\ m # Lost THEN m ELSE branches[k].fact
    <3>1. DOMAIN branches[k] = Fields
      BY DEF Whole
    <3>2. CASE k = n
      <4>1. branches'[k] = [[branches[k] EXCEPT !.fact = m] EXCEPT !.bin = m.ok]
        BY <2>1, <3>2
      <4> QED BY <1>2, <3>1, <3>2, <4>1 DEF Fields
    <3>3. CASE k # n
      BY <2>1, <3>1, <3>3
    <3> QED BY <3>2, <3>3
  <2> QED BY <2>2, <2>3
<1> QED BY <1>1, <1>2

LEMMA MeasuredWhole ==
  ASSUME Whole(branches, current), NEW n, NEW m, Measurable(m), Measure(n, m)
  PROVE  Whole(branches', current') /\ UNCHANGED current
<1>1. UNCHANGED current
  BY DEF Measure
<1>2. m # Lost => m.rt \in Nat
  BY DEF Measurable
<1> QED BY <1>1, <1>2, Measured DEF Whole

\* A set of new branches that hang on old ones.
LEMMA GrowsWhole ==
  ASSUME Whole(branches, current), NEW N, IsFiniteSet(N), Nowhere \notin N,
         N \cap DOMAIN branches = {}, DOMAIN branches' = DOMAIN branches \cup N,
         current' \in DOMAIN branches',
         \A n \in DOMAIN branches : branches'[n] = branches[n],
         \A n \in N : /\ DOMAIN branches'[n] = Fields /\ branches'[n].fact.rt \in Nat
                      /\ branches'[n].parent \in DOMAIN branches
  PROVE  Whole(branches', current')
<1>1. IsFiniteSet(DOMAIN branches')
  <2>1. IsFiniteSet(DOMAIN branches)
    BY DEF Whole
  <2>2. IsFiniteSet(DOMAIN branches \cup N)
    BY <2>1, FS_Union
  <2> QED BY <2>2
<1>2. Root \notin N
  BY DEF Whole
<1> QED BY <1>1, <1>2 DEF Whole

LEMMA ChildFields ==
  \A n, a : /\ DOMAIN Child(n, a) = Fields /\ Child(n, a).parent = n /\ Child(n, a).fact = Unmeasured
            /\ Unmeasured.rt = 0 /\ ~Unmeasured.known
  BY DEF Child, NewBranch, Fields, Unmeasured

LEMMA ExpandedFacts ==
  ASSUME Whole(branches, current), NEW by, NEW base \in DOMAIN branches, NEW acts, IsFiniteSet(acts),
         branches' = Expanded(by, base, acts)
  PROVE  LET N == Names(by, base, acts)
         IN  /\ IsFiniteSet(N) /\ Nowhere \notin N /\ N \cap DOMAIN branches = {}
             /\ DOMAIN branches' = DOMAIN branches \cup N
             /\ \A n \in DOMAIN branches : branches'[n] = branches[n]
             /\ \A n \in N : /\ DOMAIN branches'[n] = Fields /\ branches'[n].fact.rt \in Nat
                             /\ ~branches'[n].fact.known /\ branches'[n].parent = base
<1> DEFINE N == Names(by, base, acts)
           E == Expandable(base, acts)
<1>1. IsFiniteSet(N)
  <2>1. IsFiniteSet(E)
    BY FS_Subset DEF Expandable
  <2> HIDE DEF E
  <2>2. IsFiniteSet({UniqueName(by, a) : a \in E})
    BY <2>1, FiniteNames
  <2> QED BY <2>2 DEF Names, E
<1>2. Nowhere \notin N /\ N \cap DOMAIN branches = {}
  BY FreshName DEF Whole, Names
<1> HIDE DEF N
<1>3. branches' = [n \in DOMAIN branches \cup N |-> IF n \in DOMAIN branches THEN branches[n] ELSE Child(base, n.act)]
  BY DEF Expanded, N
<1>4. \A n \in N : branches'[n] = Child(base, n.act)
  BY <1>2, <1>3
<1> QED BY <1>1, <1>2, <1>3, <1>4, ChildFields DEF N

-----------------------------------------------------------------------------
(* A round of a strategy.                                                  *)

LEMMA ExpandWorld ==
  ASSUME WorldInv, NEW acts \in Tried, Expand(acts)
  PROVE  WorldInv'
<1> DEFINE N == Names(Arm, current, acts)
<1>1. /\ branches' = Expanded(Arm, current, acts) /\ at' = "rank" /\ UNCHANGED <<current, saved>>
      /\ job' = [job EXCEPT !.arm = Arm, !.round = @ + 1, !.base = current, !.kids = N,
                            !.made = N, !.done = {}, !.best = current, !.rt = Facts(current).rt]
  BY DEF Expand
<1>2. Whole(branches, current) /\ current \in DOMAIN branches /\ Root \in DOMAIN branches
  BY DEF WorldInv, Whole
<1>3. IsFiniteSet(acts)
  <2>1. acts \in SUBSET SearchSpace
    BY DEF Tried
  <2> QED BY <2>1, SearchAssumption, FS_Subset
<1>4. Arm = "stock" => N = {}
  BY DEF Tried, Names, Expandable
<1>5. /\ IsFiniteSet(N) /\ Nowhere \notin N /\ N \cap DOMAIN branches = {}
      /\ DOMAIN branches' = DOMAIN branches \cup N
      /\ \A n \in DOMAIN branches : branches'[n] = branches[n]
      /\ \A n \in N : /\ DOMAIN branches'[n] = Fields /\ branches'[n].fact.rt \in Nat
                      /\ ~branches'[n].fact.known /\ branches'[n].parent = current
  BY <1>1, <1>2, <1>3, ExpandedFacts
<1> HIDE DEF N
<1>6. Whole(branches', current')
  BY <1>1, <1>2, <1>5, GrowsWhole
<1>7. /\ DOMAIN job' = DOMAIN NoJob /\ job'.arm = Arm /\ job'.base = current /\ job'.kids = N
      /\ job'.made = N /\ job'.done = {} /\ job'.best = current /\ job'.rt = Facts(current).rt
  BY <1>1 DEF WorldInv, RoundInv, NoJob
<1>8. \A n \in DOMAIN branches : branches[n].parent \notin N
  BY <1>2, <1>5 DEF Whole
<1>9. MadeInv'
  BY <1>1, <1>2, <1>4, <1>5, <1>7, <1>8 DEF MadeInv
<1>10. Facts(current)' = Facts(current)
  BY <1>1, <1>2, <1>5 DEF Facts
<1>11. RoundInv' /\ BestIsFastest'
  BY <1>1, <1>7, <1>9, <1>10 DEF RoundInv, BestIsFastest
<1> QED BY <1>1, <1>6, <1>11, FileKept DEF WorldInv

LEMMA ThinkWorld ==
  ASSUME WorldInv, NEW n \in DOMAIN branches, NEW a, Think(n, a)
  PROVE  WorldInv'
<1> DEFINE leaf == UniqueName("step", a)
<1>1. /\ branches' = [m \in DOMAIN branches \cup {leaf} |-> IF m = leaf THEN Child(n, a) ELSE branches[m]]
      /\ job' = [job EXCEPT !.made = @ \cup {leaf}]
      /\ at = "rank" /\ n \in job.made /\ UNCHANGED <<current, saved, at>>
  BY DEF Think
<1>2. Whole(branches, current) /\ leaf \notin DOMAIN branches /\ leaf # Nowhere
  BY FreshName DEF WorldInv, Whole
<1> HIDE DEF leaf
<1>3. /\ DOMAIN branches' = DOMAIN branches \cup {leaf} /\ branches'[leaf] = Child(n, a)
      /\ \A m \in DOMAIN branches : branches'[m] = branches[m]
  BY <1>1, <1>2
<1>4. current \in DOMAIN branches /\ IsFiniteSet({leaf}) /\ {leaf} \cap DOMAIN branches = {}
  BY <1>2, FS_Singleton DEF Whole
<1>5. Whole(branches', current')
  <2>1. \A m \in {leaf} : /\ DOMAIN branches'[m] = Fields /\ branches'[m].fact.rt \in Nat
                          /\ branches'[m].parent \in DOMAIN branches
    BY <1>3, ChildFields
  <2> QED BY <1>1, <1>2, <1>3, <1>4, <2>1, GrowsWhole
<1>6. /\ DOMAIN job' = DOMAIN NoJob /\ job'.made = job.made \cup {leaf} /\ job'.arm = job.arm
      /\ job'.base = job.base /\ job'.kids = job.kids /\ job'.done = job.done
      /\ job'.best = job.best /\ job'.rt = job.rt
  BY <1>1 DEF WorldInv, RoundInv, NoJob
<1>7. MadeInv
  BY <1>1 DEF WorldInv, RoundInv
<1>8. MadeInv'
  <2>1. leaf \notin job.kids /\ leaf # current /\ leaf # Root
    BY <1>2, <1>7 DEF MadeInv, Whole
  <2>2. \A m \in DOMAIN branches : branches[m].parent # leaf
    BY <1>2 DEF Whole
  <2>3. ~branches'[leaf].fact.known
    BY <1>3, ChildFields
  <2>4. \A m \in DOMAIN branches' : branches'[m].parent \in job'.made => m \in job'.made \ job'.kids
    BY <1>3, <1>6, <1>7, <2>1, <2>2 DEF MadeInv
  <2>5. \A m \in job'.made \ job'.kids : ~branches'[m].fact.known
    BY <1>3, <1>6, <1>7, <2>3 DEF MadeInv, Facts
  <2> QED BY <1>1, <1>3, <1>6, <1>7, <2>1, <2>4, <2>5 DEF MadeInv, Facts
<1>9. RoundInv' /\ BestIsFastest'
  BY <1>1, <1>3, <1>4, <1>6, <1>8 DEF WorldInv, RoundInv, BestIsFastest, Facts
<1> QED BY <1>1, <1>5, <1>9, FileKept DEF WorldInv

LEMMA OrdersAre ==
  ASSUME NEW T, IsFiniteSet(T), NEW n \in Nat, NEW s \in Orders(T, n)
  PROVE  s \in Seq(T) /\ \A i, j \in 1 .. Len(s) : s[i] = s[j] => i = j
<1>1. s \in [1 .. n -> T] /\ \A i, j \in 1 .. n : s[i] = s[j] => i = j
  BY DEF Orders, IsInjective
<1>2. s \in Seq(T) /\ Len(s) = n
  BY <1>1
<1> QED BY <1>1, <1>2

LEMMA RankWorld ==
  ASSUME WorldInv, at = "rank", NEW s, Rank(s)
  PROVE  WorldInv'
<1>1. /\ s \in Shortlists /\ job' = [job EXCEPT !.todo = s] /\ at' = "validate"
      /\ UNCHANGED <<branches, current, saved>>
  BY DEF Rank, envVars
<1>2. /\ DOMAIN job' = DOMAIN NoJob /\ job'.todo = s /\ job'.made = job.made /\ job'.arm = job.arm
      /\ job'.base = job.base /\ job'.kids = job.kids /\ job'.done = job.done
      /\ job'.best = job.best /\ job'.rt = job.rt
  BY <1>1 DEF WorldInv, RoundInv, NoJob
<1>3. MadeInv /\ MadeInv'
  BY <1>1, <1>2 DEF WorldInv, RoundInv, MadeInv, Facts
<1>4. CASE job.arm = "stock"
  <2>1. s = <<current>>
    BY <1>1, <1>4 DEF Shortlists
  <2>2. s \in Seq(job.kids \cup {current})
    BY <2>1
  <2> QED BY <1>1, <1>2, <1>3, <1>4, <2>2, FileKept DEF WorldInv, RoundInv, BestIsFastest
<1>5. CASE job.arm # "stock"
  <2>1. IsFiniteSet(job.kids)
    <3>1. job.kids \subseteq DOMAIN branches
      BY <1>3 DEF MadeInv
    <3> QED BY <3>1, FS_Subset DEF WorldInv, Whole
  <2>2. PICK n \in Lengths : s \in Orders(job.kids, n)
    BY <1>1, <1>5 DEF Shortlists
  <2>3. n \in Nat
    <3>1. Cardinality(job.kids) \in Nat /\ TopK \in Nat
      BY <2>1, FS_CardinalityType, BoundsAssumption
    <3>2. 2 * TopK \in Nat
      BY <3>1
    <3>3. \A k \in Nat : Fewest(k) \in Nat
      BY <3>1 DEF Fewest
    <3> QED BY <3>1, <3>2, <3>3 DEF Lengths
  <2>4. s \in Seq(job.kids) /\ \A i, j \in 1 .. Len(s) : s[i] = s[j] => i = j
    BY <2>1, <2>2, <2>3, OrdersAre
  <2>5. s \in Seq(job.kids \cup {current}) /\ \A i \in 1 .. Len(s) : s[i] \in job.kids
    BY <2>4
  <2>6. job.done = {} /\ job.best = current /\ job.rt = Facts(current).rt /\ Facts(current).rt \in Nat
    BY DEF WorldInv, RoundInv, Whole, Facts
  <2>7. TodoInv'
    BY <1>2, <2>4, <2>5, <2>6 DEF TodoInv
  <2>8. FastSoFar'
    BY <1>1, <1>2, <2>6 DEF FastSoFar, Facts
  <2> QED BY <1>1, <1>2, <1>3, <2>5, <2>7, <2>8, FileKept DEF WorldInv, RoundInv, BestIsFastest
<1> QED BY <1>4, <1>5

\* Going on to the next branch keeps the rest of the shortlist as it was.
LEMMA NextOne ==
  ASSUME NEW T, NEW s \in Seq(T), s # <<>>
  PROVE  /\ Head(s) = s[1] /\ 1 \in 1 .. Len(s) /\ Head(s) \in T /\ Tail(s) \in Seq(T)
         /\ \A i \in 1 .. Len(Tail(s)) : i + 1 \in 1 .. Len(s) /\ Tail(s)[i] = s[i + 1] /\ i + 1 # 1
  OBVIOUS

LEMMA TodoGoesOn ==
  ASSUME TodoInv, NEW T, job.todo \in Seq(T), job.todo # <<>>, job'.todo = Tail(job.todo),
         job'.kids = job.kids, job'.done \subseteq job.done \cup {Head(job.todo)}
  PROVE  TodoInv' /\ Head(job.todo) \in job.kids \ job.done
<1> DEFINE s == job.todo
<1>1. /\ Head(s) = s[1] /\ 1 \in 1 .. Len(s)
      /\ \A i \in 1 .. Len(Tail(s)) : i + 1 \in 1 .. Len(s) /\ Tail(s)[i] = s[i + 1] /\ i + 1 # 1
  BY NextOne
<1>2. \A i \in 1 .. Len(Tail(s)) : Tail(s)[i] \in job.kids \ job.done /\ Tail(s)[i] # s[1]
  BY <1>1 DEF TodoInv
<1>3. \A i, j \in 1 .. Len(Tail(s)) : Tail(s)[i] = Tail(s)[j] => i = j
  <2> SUFFICES ASSUME NEW i \in 1 .. Len(Tail(s)), NEW j \in 1 .. Len(Tail(s)), Tail(s)[i] = Tail(s)[j]
               PROVE  i = j
    OBVIOUS
  <2>1. i + 1 = j + 1
    BY <1>1 DEF TodoInv
  <2> QED BY <2>1
<1>4. \A i \in 1 .. Len(Tail(s)) : Tail(s)[i] \in job'.kids \ job'.done
  BY <1>1, <1>2
<1>5. Head(s) \in job.kids \ job.done
  BY <1>1 DEF TodoInv
<1> HIDE DEF s
<1> QED BY <1>3, <1>4, <1>5 DEF TodoInv, s

\* The kid that is measured was not measured before, nor is it the branch the round began
\* at: what the others are known for stays.
LEMMA FastGoesOn ==
  ASSUME WorldInv, MadeInv, FastSoFar, NEW n \in job.kids \ job.done, NEW m, Measurable(m),
         Measure(n, m),
         job'.done = (IF m = Lost THEN job.done ELSE job.done \cup {n}),
         job'.best = (IF Better(m, job.rt) THEN n ELSE job.best),
         job'.rt = (IF Better(m, job.rt) THEN m.rt ELSE job.rt)
  PROVE  FastSoFar'
<1>1. /\ UNCHANGED current /\ current \in DOMAIN branches /\ n # current /\ n \in DOMAIN branches
      /\ job.done \subseteq DOMAIN branches
  BY DEF Measure, WorldInv, Whole, MadeInv
<1>2. \A k \in DOMAIN branches : branches'[k].fact = IF k = n /\ m # Lost THEN m ELSE branches[k].fact
  BY Measured DEF WorldInv
<1>3. \A k \in job.done \cup {current} : Facts(k)' = Facts(k) /\ Facts(k).rt \in Nat
  BY <1>1, <1>2 DEF Facts, WorldInv, Whole
<1>4. job.rt \in Nat /\ job.best \in job.done \cup {current} /\ job.rt = Facts(job.best).rt
  BY <1>3 DEF FastSoFar
<1>5. CASE m = Lost
  <2>1. ~Better(m, job.rt)
    BY <1>5 DEF Better, Lost
  <2> QED BY <1>1, <1>3, <1>5, <2>1 DEF FastSoFar, Facts
<1>6. CASE m # Lost
  <2>1. Facts(n)' = m /\ m.rt \in Nat /\ (~m.ok => m.rt = 0) /\ job'.done = job.done \cup {n}
    BY <1>1, <1>2, <1>6 DEF Facts, Measurable
  <2>2. CASE Better(m, job.rt)
    <3>1. job'.best = n /\ job'.rt = m.rt /\ m.rt > 0 /\ (job.rt = 0 \/ m.rt < job.rt)
      BY <2>2 DEF Better
    <3>2. \A k \in job.done \cup {current} : Facts(k).rt > 0 => m.rt \in 1 .. Facts(k).rt
      <4> SUFFICES ASSUME NEW k \in job.done \cup {current}, Facts(k).rt > 0
                   PROVE  m.rt \in 1 .. Facts(k).rt
        OBVIOUS
      <4>1. job.rt \in 1 .. Facts(k).rt /\ Facts(k).rt \in Nat
        BY <1>3 DEF FastSoFar
      <4>2. job.rt # 0 /\ job.rt <= Facts(k).rt
        BY <4>1
      <4> QED BY <1>4, <2>1, <3>1, <4>1, <4>2
    <3>3. m.rt \in 1 .. m.rt
      BY <2>1, <3>1
    <3> QED BY <1>1, <1>3, <2>1, <3>1, <3>2, <3>3 DEF FastSoFar, Facts
  <2>3. CASE ~Better(m, job.rt)
    <3>1. job'.best = job.best /\ job'.rt = job.rt
      BY <2>3
    <3>2. m.rt > 0 => job.rt \in 1 .. m.rt
      <4>1. m.rt > 0 => ~(job.rt = 0 \/ m.rt < job.rt)
        BY <2>1, <2>3 DEF Better
      <4> QED BY <1>4, <2>1, <4>1
    <3> QED BY <1>1, <1>3, <1>4, <2>1, <3>1, <3>2 DEF FastSoFar, Facts
  <2> QED BY <2>2, <2>3
<1> QED BY <1>5, <1>6

LEMMA ValidateWorld ==
  ASSUME WorldInv, NEW m, Measurable(m), ValidateNext(m)
  PROVE  WorldInv'
<1> DEFINE n == Head(job.todo)
<1>1. /\ at = "validate" /\ job.todo # <<>> /\ Measure(n, m) /\ UNCHANGED <<saved, at>>
      /\ job' = [job EXCEPT !.todo = Tail(@),
                   !.done = IF m = Lost THEN @ ELSE @ \cup {n},
                   !.best = IF Better(m, job.rt) THEN n ELSE @,
                   !.rt   = IF Better(m, job.rt) THEN m.rt ELSE @]
  BY DEF ValidateNext
<1>2. MadeInv /\ job.todo \in Seq(job.kids \cup {current}) /\ DOMAIN job = DOMAIN NoJob
  BY <1>1 DEF WorldInv, RoundInv
<1>3. n \in job.kids \cup {current} /\ Tail(job.todo) \in Seq(job.kids \cup {current})
  BY <1>1, <1>2, NextOne
<1> HIDE DEF n
<1>4. /\ DOMAIN job' = DOMAIN NoJob /\ job'.todo = Tail(job.todo) /\ job'.made = job.made
      /\ job'.arm = job.arm /\ job'.base = job.base /\ job'.kids = job.kids
      /\ job'.done = (IF m = Lost THEN job.done ELSE job.done \cup {n})
      /\ job'.best = (IF Better(m, job.rt) THEN n ELSE job.best)
      /\ job'.rt = (IF Better(m, job.rt) THEN m.rt ELSE job.rt)
  BY <1>1, <1>2 DEF NoJob
<1>5. Whole(branches', current') /\ UNCHANGED current
  BY <1>1, MeasuredWhole DEF WorldInv
<1>6. MadeInv'
  <2>1. /\ DOMAIN branches' = DOMAIN branches
        /\ \A k \in DOMAIN branches :
             /\ branches'[k].parent = branches[k].parent
             /\ branches'[k].fact = IF k = n /\ m # Lost THEN m ELSE branches[k].fact
    BY <1>1, Measured DEF WorldInv
  <2>2. n \notin job.made \ job.kids
    BY <1>2, <1>3 DEF MadeInv
  <2>3. \A k \in job'.made \ job'.kids : ~Facts(k)'.known
    BY <1>2, <1>4, <2>1, <2>2 DEF MadeInv, Facts
  <2>4. {job'.best} \cup job'.done \subseteq job'.kids \cup {current'}
    BY <1>2, <1>3, <1>4, <1>5 DEF MadeInv
  <2> QED BY <1>2, <1>4, <1>5, <2>1, <2>3, <2>4 DEF MadeInv
<1>7. job.arm # "stock" => TodoInv' /\ FastSoFar'
  <2> SUFFICES ASSUME job.arm # "stock" PROVE TodoInv' /\ FastSoFar'
    OBVIOUS
  <2>1. TodoInv /\ FastSoFar
    BY <1>1 DEF WorldInv, RoundInv
  <2>2. TodoInv' /\ n \in job.kids \ job.done
    BY <1>1, <1>2, <1>4, <2>1, TodoGoesOn DEF n
  <2> QED BY <1>1, <1>2, <1>4, <2>1, <2>2, FastGoesOn
<1> QED BY <1>1, <1>3, <1>4, <1>5, <1>6, <1>7, FileKept DEF WorldInv, RoundInv, BestIsFastest

LEMMA PassWorld ==
  ASSUME WorldInv, PassOver
  PROVE  WorldInv'
<1>1. /\ at = "validate" /\ job.todo # <<>> /\ job' = [job EXCEPT !.todo = Tail(@)]
      /\ UNCHANGED <<branches, current, saved, at>>
  BY DEF PassOver, envVars
<1>2. MadeInv /\ job.todo \in Seq(job.kids \cup {current}) /\ DOMAIN job = DOMAIN NoJob
  BY <1>1 DEF WorldInv, RoundInv
<1>3. Tail(job.todo) \in Seq(job.kids \cup {current})
  BY <1>1, <1>2, NextOne
<1>4. /\ DOMAIN job' = DOMAIN NoJob /\ job'.todo = Tail(job.todo) /\ job'.made = job.made
      /\ job'.arm = job.arm /\ job'.base = job.base /\ job'.kids = job.kids
      /\ job'.done = job.done /\ job'.best = job.best /\ job'.rt = job.rt
  BY <1>1, <1>2 DEF NoJob
<1>5. MadeInv'
  BY <1>1, <1>2, <1>4 DEF MadeInv, Facts
<1>6. job.arm # "stock" => TodoInv' /\ FastSoFar'
  <2> SUFFICES ASSUME job.arm # "stock" PROVE TodoInv' /\ FastSoFar'
    OBVIOUS
  <2>1. TodoInv /\ FastSoFar
    BY <1>1 DEF WorldInv, RoundInv
  <2>2. TodoInv'
    BY <1>1, <1>2, <1>4, <2>1, TodoGoesOn
  <2> QED BY <1>1, <1>4, <2>1, <2>2 DEF FastSoFar, Facts
<1> QED BY <1>1, <1>3, <1>4, <1>5, <1>6, FileKept DEF WorldInv, RoundInv, BestIsFastest

LEMMA ScreenWorld ==
  ASSUME WorldInv, EndScreen
  PROVE  WorldInv'
<1>1. /\ at = "validate" /\ at' = "done" /\ job.arm \in {"stock", "random", "surrogate", "beam"}
      /\ current' = (IF job.arm = "stock" THEN current ELSE job.best)
      /\ UNCHANGED <<branches, saved, job>>
  BY DEF EndScreen, Ranked
<1>2. MadeInv /\ (job.arm # "stock" => FastSoFar) /\ DOMAIN job = DOMAIN NoJob
  BY <1>1 DEF WorldInv, RoundInv
<1>3. current' \in DOMAIN branches
  BY <1>1, <1>2 DEF MadeInv, WorldInv, Whole
<1>4. Whole(branches', current')
  BY <1>1, <1>3 DEF WorldInv, Whole
<1>5. BestIsFastest'
  <2>1. CASE job.arm = "stock"
    <3>1. job.done \cup {job.base} = {current} /\ Facts(current).rt \in Nat
      BY <1>2, <2>1 DEF MadeInv, WorldInv, Whole, Facts
    <3> QED BY <1>1, <2>1, <3>1 DEF BestIsFastest, Best, Facts
  <2>2. CASE job.arm # "stock"
    <3>1. job.base = current /\ Best = [branch |-> job.best, rt |-> job.rt] /\ current' = job.best
      BY <1>1, <1>2, <2>2 DEF MadeInv, Best
    <3> QED BY <1>1, <1>2, <2>2, <3>1 DEF BestIsFastest, FastSoFar, Best, Facts
  <2> QED BY <2>1, <2>2
<1> QED BY <1>1, <1>2, <1>4, <1>5, FileKept DEF WorldInv, RoundInv

LEMMA TreeWorld ==
  ASSUME WorldInv, EndTree
  PROVE  WorldInv'
<1>1. /\ at = "validate" /\ at' = "done" /\ job.arm = "mcts" /\ current' = job.best
      /\ branches' = [n \in DOMAIN branches \ Pruned |-> branches[n]]
      /\ UNCHANGED <<saved, job>>
  BY DEF EndTree, Ranked
<1>2. MadeInv /\ FastSoFar /\ DOMAIN job = DOMAIN NoJob
  BY <1>1 DEF WorldInv, RoundInv
<1>3. /\ DOMAIN branches' = DOMAIN branches \ Pruned
      /\ \A n \in DOMAIN branches' : n \in DOMAIN branches /\ branches'[n] = branches[n]
  BY <1>1
<1>4. /\ job.best \notin Pruned /\ current \notin Pruned /\ Root \notin Pruned
      /\ \A n \in job.done : n \notin Pruned
      /\ Pruned \subseteq job.made /\ job.made \ job.kids \subseteq Pruned
  BY <1>2 DEF MadeInv, Pruned
<1>5. job.done \cup {job.best, current} \subseteq DOMAIN branches
  BY <1>2 DEF MadeInv, WorldInv, Whole
<1>6. Whole(branches', current')
  <2>1. IsFiniteSet(DOMAIN branches')
    BY <1>3, FS_Subset DEF WorldInv, Whole
  <2>2. \A n \in DOMAIN branches' : branches[n].parent \notin Pruned
    BY <1>2, <1>3, <1>4 DEF MadeInv
  <2> QED BY <1>1, <1>3, <1>4, <1>5, <2>1, <2>2 DEF WorldInv, Whole
<1>7. BestIsFastest'
  <2>1. job.base = current /\ Best' = [branch |-> job.best, rt |-> job.rt]
    BY <1>1, <1>2 DEF MadeInv, Best
  <2>2. \A n \in job.done \cup {job.best, current} : Facts(n)' = Facts(n)
    BY <1>3, <1>4, <1>5 DEF Facts
  <2> QED BY <1>1, <1>2, <2>1, <2>2 DEF BestIsFastest, FastSoFar
<1> QED BY <1>1, <1>2, <1>6, <1>7, FileKept DEF WorldInv, RoundInv

LEMMA FreshWhole == ASSUME FreshEnv PROVE Whole(branches', current')
<1>1. /\ branches' = [n \in {Root} |-> NewBranch(InitialConfig, Nowhere)] /\ current' = Root
  BY DEF FreshEnv
<1>2. Root # Nowhere
  BY DEF Root, Nowhere, Name
<1>3. LET b == NewBranch(InitialConfig, Nowhere)
      IN  DOMAIN b = Fields /\ b.fact.rt \in Nat /\ b.parent = Nowhere
  BY DEF NewBranch, Fields, Unmeasured
<1>4. IsFiniteSet({Root})
  BY FS_Singleton
<1> QED BY <1>1, <1>2, <1>3, <1>4 DEF Whole

\* Everything else a session does between the screens.
LEMMA WorkWorld == ASSUME WorldInv, Work PROVE WorldInv'
<1> DEFINE Same == Whole(branches, current) /\ DOMAIN job = DOMAIN NoJob
<1>0. Same
  BY DEF WorldInv, RoundInv
<1>1. ASSUME NEW m \in Outcomes, ValidateRoot(m) PROVE WorldInv'
  <2>1. Whole(branches', current')
    BY <1>0, <1>1, MeasuredWhole, OutcomesAre DEF ValidateRoot
  <2>2. DOMAIN job' = DOMAIN NoJob /\ at' \in {"idle", "start"} /\ UNCHANGED saved
    BY <1>1 DEF ValidateRoot, NoRoot, NoJob
  <2> QED BY <2>1, <2>2, SettlesKeeps, FileKept DEF Settles
<1>2. ASSUME NEW m \in Outcomes, ValidateNext(m) PROVE WorldInv'
  BY <1>2, ValidateWorld, OutcomesAre
<1>3. CASE RefuseRoot \/ Return
  <2>1. at' \in {"idle", "start"} /\ UNCHANGED <<branches, current, saved, job>>
    BY <1>3 DEF RefuseRoot, Return, NoRoot, envVars
  <2> QED BY <1>0, <2>1, SettlesKeeps, FileKept DEF Settles
<1>4. ASSUME NEW acts \in Tried, Expand(acts) PROVE WorldInv'
  BY <1>4, ExpandWorld
<1>5. ASSUME at = "rank", NEW s, Rank(s) PROVE WorldInv'
  BY <1>5, RankWorld
<1>6. CASE EndScreenOfSwarm
  <2>1. /\ at = "validate" /\ at' = "refute" /\ job.arm = "swarm" /\ current' = job.best
        /\ UNCHANGED <<branches, saved, job>>
    BY <1>6 DEF EndScreenOfSwarm, Ranked
  <2>2. current' \in DOMAIN branches
    BY <2>1 DEF WorldInv, RoundInv, MadeInv, Whole
  <2>3. Whole(branches', current')
    BY <1>0, <2>1, <2>2 DEF Whole
  <2> QED BY <1>0, <2>1, <2>3, SettlesKeeps, FileKept DEF Settles
<1>7. ASSUME NEW found \in BOOLEAN, Refute(found) PROVE WorldInv'
  <2>1. at = "refute" /\ at' \in {"advise", "done"} /\ UNCHANGED <<branches, current, saved, job>>
    BY <1>7 DEF Refute, envVars
  <2>2. job.arm = "swarm"
    BY <2>1 DEF WorldInv, RoundInv
  <2> QED BY <1>0, <2>1, <2>2, SettlesKeeps, FileKept DEF Settles
<1>8. ASSUME NEW n, NEW m \in Outcomes, Advise(n, m) PROVE WorldInv'
  <2>1. Whole(branches', current')
    BY <1>0, <1>8, MeasuredWhole, OutcomesAre DEF Advise
  <2>2. at = "advise" /\ at' \in {"start", "done"} /\ UNCHANGED <<saved, job>>
    BY <1>8 DEF Advise, NextRound
  <2>3. job.arm = "swarm"
    BY <2>2 DEF WorldInv, RoundInv
  <2> QED BY <1>0, <2>1, <2>2, <2>3, SettlesKeeps, FileKept DEF Settles
<1>9. CASE NoAdvice
  <2>1. at = "advise" /\ at' \in {"start", "done"} /\ UNCHANGED <<branches, current, saved, job>>
    BY <1>9 DEF NoAdvice, NextRound, envVars
  <2>2. job.arm = "swarm"
    BY <2>1 DEF WorldInv, RoundInv
  <2> QED BY <1>0, <2>1, <2>2, SettlesKeeps, FileKept DEF Settles
<1>10. ASSUME NEW n \in DOMAIN branches, EndCampaignRound(n) PROVE WorldInv'
  <2>1. /\ at' \in {"start", "done"} /\ job.arm = "campaign" /\ current' = n
        /\ UNCHANGED <<branches, saved, job>>
    BY <1>10 DEF EndCampaignRound
  <2>2. Whole(branches', current')
    BY <1>0, <2>1 DEF Whole
  <2> QED BY <1>0, <2>1, <2>2, SettlesKeeps, FileKept DEF Settles
<1>11. CASE Report
  <2>1. /\ at' \in {"root", "idle"} /\ job' = NoJob /\ UNCHANGED saved
        /\ FreshEnv \/ UNCHANGED <<branches, current>>
    BY <1>11 DEF Report, envVars
  <2>2. Whole(branches', current')
    BY <1>0, <2>1, FreshWhole
  <2> QED BY <2>1, <2>2, SettlesKeeps, FileKept DEF Settles
<1> QED BY <1>1, <1>2, <1>3, <1>4, <1>5, <1>6, <1>7, <1>8, <1>9, <1>10, <1>11,
           ThinkWorld, PassWorld, ScreenWorld, TreeWorld DEF Work

LEMMA UseWorld == ASSUME WorldInv, Use PROVE WorldInv'
<1> USE DEF Between, envVars
<1>0. Whole(branches, current) /\ DOMAIN job = DOMAIN NoJob
  BY DEF WorldInv, RoundInv
<1>a. ASSUME Call, Between, Whole(branches', current'), FileInv' PROVE WorldInv'
  <2>1. at' = "library" /\ DOMAIN job' = DOMAIN NoJob
    BY <1>0, <1>a DEF Call
  <2> QED BY <1>a, <2>1, SettlesKeeps DEF Settles
<1>1. ASSUME NEW n \in DOMAIN branches, NEW a, Perturb(n, a) PROVE WorldInv'
  <2> DEFINE N == Names("perturb", n, {a})
  <2>1. /\ Call /\ Between /\ UNCHANGED saved /\ a \in Expandable(n, {a})
        /\ branches' = Expanded("perturb", n, {a}) /\ current' = UniqueName("perturb", a)
    BY <1>1 DEF Perturb
  <2>2. /\ IsFiniteSet(N) /\ Nowhere \notin N /\ N \cap DOMAIN branches = {}
        /\ DOMAIN branches' = DOMAIN branches \cup N
        /\ \A k \in DOMAIN branches : branches'[k] = branches[k]
        /\ \A k \in N : /\ DOMAIN branches'[k] = Fields /\ branches'[k].fact.rt \in Nat
                        /\ ~branches'[k].fact.known /\ branches'[k].parent = n
    <3>1. IsFiniteSet({a})
      BY FS_Singleton
    <3> QED BY <1>0, <2>1, <3>1, ExpandedFacts
  <2>3. current' \in N
    BY <2>1 DEF Names
  <2> HIDE DEF N
  <2>4. Whole(branches', current')
    BY <1>0, <2>2, <2>3, GrowsWhole
  <2> QED BY <1>a, <2>1, <2>4, FileKept
<1>2. ASSUME NEW n \in DOMAIN branches, Branch(n) PROVE WorldInv'
  <2> DEFINE new == UniqueName("branch", NoAction)
  <2>1. /\ branches' = [m \in DOMAIN branches \cup {new} |-> IF m = new THEN Copy(n) ELSE branches[m]]
        /\ current' = new /\ Call /\ Between /\ UNCHANGED saved
    BY <1>2 DEF Branch
  <2>2. new \notin DOMAIN branches /\ new # Nowhere
    BY <1>0, FreshName DEF Whole
  <2> HIDE DEF new
  <2>3. DOMAIN branches[n] = Fields /\ branches[n].fact.rt \in Nat
    BY <1>0 DEF Whole
  <2>4. DOMAIN Copy(n) = Fields /\ Copy(n).fact = branches[n].fact /\ Copy(n).parent = n
    BY <2>3 DEF Copy, Fields
  <2>5. /\ IsFiniteSet({new}) /\ Nowhere \notin {new} /\ {new} \cap DOMAIN branches = {}
        /\ DOMAIN branches' = DOMAIN branches \cup {new} /\ current' \in DOMAIN branches'
        /\ \A m \in DOMAIN branches : branches'[m] = branches[m]
    BY <2>1, <2>2, FS_Singleton
  <2>6. \A m \in {new} : /\ DOMAIN branches'[m] = Fields /\ branches'[m].fact.rt \in Nat
                         /\ branches'[m].parent \in DOMAIN branches
    BY <2>1, <2>3, <2>4
  <2>7. Whole(branches', current')
    BY <1>0, <2>5, <2>6, GrowsWhole
  <2> QED BY <1>a, <2>1, <2>7, FileKept
<1>3. ASSUME NEW n, NEW m \in Outcomes, Validate(n, m) PROVE WorldInv'
  <2>1. Whole(branches', current')
    BY <1>0, <1>3, MeasuredWhole, OutcomesAre DEF Validate
  <2> QED BY <1>a, <1>3, <2>1, FileKept DEF Validate
<1>4. ASSUME NEW n \in DOMAIN branches, NEW v, DiffGate(n, v) PROVE WorldInv'
  <2>1. branches' = [branches EXCEPT ![n].equiv = v] /\ UNCHANGED <<current, saved>> /\ Call /\ Between
    BY <1>4 DEF DiffGate
  <2>2. ASSUME NEW k \in DOMAIN branches
        PROVE  /\ DOMAIN branches'[k] = Fields /\ branches'[k].fact = branches[k].fact
               /\ branches'[k].parent = branches[k].parent
    BY <1>0, <2>1 DEF Whole, Fields
  <2>3. DOMAIN branches' = DOMAIN branches
    BY <2>1
  <2>4. Whole(branches', current')
    BY <1>0, <2>1, <2>2, <2>3 DEF Whole
  <2> QED BY <1>a, <2>1, <2>4, FileKept
<1>5. CASE Save
  <2>1. /\ saved'.branches = branches /\ saved'.current = current /\ UNCHANGED <<branches, current>>
        /\ Call /\ Between
    BY <1>5 DEF Save
  <2>2. FileInv' /\ Whole(branches', current')
    BY <1>0, <2>1 DEF FileInv
  <2> QED BY <1>a, <2>1, <2>2
<1>6. CASE Load
  <2>1. /\ branches' = saved.branches /\ current' = saved.current /\ UNCHANGED saved
        /\ saved # NoFile /\ Call /\ Between
    BY <1>6 DEF Load
  <2>2. Whole(branches', current')
    BY <2>1 DEF WorldInv, FileInv
  <2> QED BY <1>a, <2>1, <2>2, FileKept
<1>7. CASE Leave
  <2>1. at' = "idle" /\ UNCHANGED <<branches, current, saved, job>>
    BY <1>7 DEF Leave
  <2> QED BY <1>0, <2>1, SettlesKeeps, FileKept DEF Settles
<1> QED BY <1>1, <1>2, <1>3, <1>4, <1>5, <1>6, <1>7 DEF Use

LEMMA StartWorld == ASSUME WorldInv, NEW c, NEW b, Start(c, b) PROVE WorldInv'
<1>1. FreshEnv /\ job' = NoJob /\ at' \in {"library", "root"} /\ UNCHANGED saved
  BY DEF Start
<1> QED BY <1>1, FreshWhole, SettlesKeeps, FileKept DEF Settles

LEMMA WorldStep == ASSUME WorldInv, CompilerNext PROVE WorldInv'
  BY StartWorld, WorkWorld, UseWorld DEF CompilerNext

LEMMA WorldStays ==
  ASSUME WorldInv, UNCHANGED <<branches, current, saved, at, job>> PROVE WorldInv'
  BY DEF WorldInv, FileInv, RoundInv, MadeInv, TodoInv, FastSoFar, BestIsFastest, Best, Facts

LEMMA WorldInit == Init => WorldInv
<1> SUFFICES ASSUME Init PROVE WorldInv
  OBVIOUS
<1>1. /\ branches = [n \in {Root} |-> NewBranch(InitialConfig, Nowhere)] /\ current = Root
      /\ saved = NoFile /\ at = "idle" /\ job = NoJob
  BY DEF Init
<1>2. Root # Nowhere
  BY DEF Root, Nowhere, Name
<1>3. LET b == NewBranch(InitialConfig, Nowhere)
      IN  DOMAIN b = Fields /\ b.fact.rt \in Nat /\ b.parent = Nowhere
  BY DEF NewBranch, Fields, Unmeasured
<1>4. IsFiniteSet({Root})
  BY FS_Singleton
<1>5. Whole(branches, current)
  BY <1>1, <1>2, <1>3, <1>4 DEF Whole
<1> QED BY <1>1, <1>5 DEF WorldInv, FileInv, RoundInv, BestIsFastest

LEMMA WorldInvariance == Spec => []WorldInv
<1>1. WorldInv /\ [CompilerNext]_vars => WorldInv'
  <2>1. UNCHANGED vars => UNCHANGED <<branches, current, saved, at, job>>
    BY DEF vars, envVars, taskVars
  <2> QED BY <2>1, WorldStep, WorldStays
<1> QED BY <1>1, WorldInit, PTL DEF Spec

\* Deleting what was only proposed, pruning a tree, saving and loading never cut a branch
\* off from the root (environment.py:363-368, search.py:252-258), with any search space,
\* strategies and bounds.
THEOREM LineageKept == Spec => []LineageIntact
  BY WorldInvariance, WorldIsWhole, PTL

\* The branch a strategy reports as the best (search.py:48-54) is the fastest of those
\* it measured, is still there, and has the run time that is reported.
THEOREM FastestReported == Spec => []BestIsFastest
<1>1. WorldInv => BestIsFastest
  BY DEF WorldInv
<1> QED BY <1>1, WorldInvariance, PTL

-----------------------------------------------------------------------------
(* Drift.                                                                  *)

\* The ring holds what came since the last alarm was dealt with, and nothing else;
\* an alarm that waits was raised over a full ring; a policy is trained only while
\* one more may be.
DriftInv ==
  /\ ring \in Seq(StepRewards) /\ Len(ring) <= 2 * WindowSize /\ since = Len(ring)
  /\ phase = "act" => Len(ring) = 2 * WindowSize
  /\ version \in 1 .. MaxPolicies

\* A full ring stays full, another one grows by one reward.
LEMMA NewestGrows ==
  ASSUME NEW T, NEW s \in Seq(T), NEW r \in T, NEW n \in Nat, Len(s) <= n, n >= 1
  PROVE  /\ Newest(Append(s, r), n) \in Seq(T)
         /\ Len(Newest(Append(s, r), n)) = IF Len(s) = n THEN n ELSE Len(s) + 1
<1> DEFINE t == Append(s, r)
<1>1. t \in Seq(T) /\ Len(t) = Len(s) + 1 /\ Len(s) \in Nat
  OBVIOUS
<1>2. CASE Len(s) = n
  <2>1. Newest(t, n) = SubSeq(t, 2, n + 1)
    BY <1>1, <1>2 DEF Newest
  <2> HIDE DEF t
  <2>2. SubSeq(t, 2, n + 1) \in Seq(T) /\ Len(SubSeq(t, 2, n + 1)) = n
    BY <1>1, <1>2
  <2> QED BY <1>2, <2>1, <2>2 DEF t
<1>3. CASE Len(s) # n
  BY <1>1, <1>3 DEF Newest
<1> QED BY <1>2, <1>3

LEMMA DriftStep == DriftInv /\ [DriftWork \/ \E who \in {"demo", "library"} : Manage(who)]_driftVars => DriftInv'
<1> SUFFICES ASSUME DriftInv, [DriftWork \/ \E who \in {"demo", "library"} : Manage(who)]_driftVars
             PROVE  DriftInv'
  OBVIOUS
<1> USE DriftAssumption
<1>1. ASSUME NEW r \in StepRewards, AddStep(r) PROVE DriftInv'
  <2>1. 2 * WindowSize \in Nat /\ 2 * WindowSize >= 1
    OBVIOUS
  <2>2. ring' = Newest(Append(ring, r), 2 * WindowSize)
    BY <1>1 DEF AddStep
  <2>3. /\ ring' \in Seq(StepRewards)
        /\ Len(ring') = IF Len(ring) = 2 * WindowSize THEN 2 * WindowSize ELSE Len(ring) + 1
    <3>1. ring \in Seq(StepRewards) /\ Len(ring) <= 2 * WindowSize
      BY DEF DriftInv
    <3> DEFINE n == 2 * WindowSize
    <3>2. n \in Nat /\ n >= 1
      BY <2>1
    <3> HIDE DEF n
    <3>3. /\ Newest(Append(ring, r), n) \in Seq(StepRewards)
          /\ Len(Newest(Append(ring, r), n)) = IF Len(ring) = n THEN n ELSE Len(ring) + 1
      BY <3>1, <3>2, NewestGrows DEF n
    <3> QED BY <2>2, <3>3 DEF n
  <2>4. phase' # "act" /\ version' = version /\ since' = IF since = 2 * WindowSize THEN since ELSE since + 1
    BY <1>1 DEF AddStep
  <2>5. Len(ring) \in Nat /\ Len(ring) <= 2 * WindowSize /\ since = Len(ring)
    BY DEF DriftInv
  <2>6. since' = Len(ring') /\ Len(ring') <= 2 * WindowSize
    BY <2>1, <2>3, <2>4, <2>5
  <2> QED BY <2>3, <2>4, <2>6 DEF DriftInv
<1>2. ASSUME NEW consume \in BOOLEAN, CheckDrift(consume) PROVE DriftInv'
  <2>1. CASE Fires /\ consume
    BY <1>2, <2>1 DEF CheckDrift, Emptied, DriftInv
  <2>2. CASE Fires /\ ~consume
    BY <1>2, <2>2 DEF CheckDrift, Fires, DriftInv
  <2>3. CASE ~Fires
    BY <1>2, <2>3 DEF CheckDrift, DriftInv
  <2> QED BY <2>1, <2>2, <2>3
<1>3. CASE TriggerAdaptation
  <2>1. version' \in 1 .. MaxPolicies
    BY <1>3 DEF TriggerAdaptation, DriftInv
  <2> QED BY <1>3, <2>1 DEF TriggerAdaptation, Emptied, DriftInv
<1>4. CASE TrainingFails \/ Ignore \/ UNCHANGED driftVars
  BY <1>4 DEF TrainingFails, Ignore, driftVars, DriftInv
<1>5. ASSUME NEW who \in {"demo", "library"}, Manage(who) PROVE DriftInv'
  BY <1>5 DEF Manage, DriftInv
<1> QED BY <1>1, <1>2, <1>3, <1>4, <1>5 DEF DriftWork

\* Whatever else runs in the process, the manager moves by its own actions only.
LEMMA DriftMoves ==
  [ComputerNext]_allVars => [DriftWork \/ \E who \in {"demo", "library"} : Manage(who)]_driftVars
<1>1. KernelSame => UNCHANGED driftVars
  BY DEF KernelSame
<1>2. KernelProgram => UNCHANGED driftVars
  BY DEF KernelProgram
<1>3. DriftProgram => DriftWork \/ \E who \in {"demo", "library"} : Manage(who)
  BY DEF DriftProgram
<1>4. UNCHANGED allVars => UNCHANGED driftVars
  BY DEF allVars
<1> QED BY <1>1, <1>2, <1>3, <1>4 DEF ComputerNext

\* "One drift event is reported exactly once" (adaptation.py:92): whatever the window,
\* the threshold and the rewards, an alarm rests on rewards that all came after the
\* last one that was dealt with.
THEOREM DriftReportedOnce == ComputerSpec => []AlarmsAreFresh
<1>1. ComputerInit => DriftInv
  BY DriftAssumption DEF ComputerInit, DriftInit, DriftInv
<1>2. DriftInv /\ [ComputerNext]_allVars => DriftInv'
  BY DriftMoves, DriftStep
<1>3. DriftInv => AlarmsAreFresh
  BY DEF DriftInv, AlarmsAreFresh
<1> QED BY <1>1, <1>2, <1>3, PTL DEF ComputerSpec

-----------------------------------------------------------------------------
(* The ledger and the slice.                                               *)

LEMMA UnitFacts ==
  /\ UnitSet = {"compiler", "micro", "vmarch", "kernel"} /\ Len(Units) = 4
  /\ \A k \in 1 .. 4 : Units[k] \in UnitSet
  /\ \A u \in UnitSet : \E k \in 1 .. 4 : u = Units[k]
<1>1. DOMAIN Units = 1 .. 4 /\ Len(Units) = 4
  BY DEF Units
<1>2. Units[1] = "compiler" /\ Units[2] = "micro" /\ Units[3] = "vmarch" /\ Units[4] = "kernel"
  BY DEF Units
<1>3. 1 .. 4 = {1, 2, 3, 4}
  OBVIOUS
<1>4. UnitSet = {Units[k] : k \in {1, 2, 3, 4}}
  BY <1>1, <1>3 DEF UnitSet, Range
<1> QED BY <1>1, <1>2, <1>3, <1>4

\* Where a call stands before it charges for a slice.
Early == {"probe micro", "probe compiler", "search", "probe kernel", "lower", "views", "in order",
          "out of order", "rerun", "loads", "score"}
Grading == {"read", "fresh", "emit"}

CountInv ==
  /\ ledger \in [UnitSet -> Nat]
  /\ {"runs", "charged"} \subseteq DOMAIN slice /\ slice.runs \in [UnitSet -> Nat]

\* Whoever is at work has an input; only the command line emits a manifest.
ControlInv ==
  /\ caller = "nobody" => step = "off"
  /\ step # "off" => input \in Inputs
  /\ step = "emit" => caller = "cli"

\* What was charged for so far is in the ledger.
ChargeInv ==
  /\ step \in Early => slice.charged = 0
  /\ step = "charge" => /\ slice.charged \in 0 .. 3
                        /\ \A k \in 1 .. slice.charged : ledger[Units[k]] >= slice.runs[Units[k]]

\* Between the charge and the manifest the command line leaves the ledger alone.
PaidInv ==
  /\ report # None => \A u \in UnitSet : report.paid[u] >= report.runs[u]
  /\ caller = "cli" /\ step \in Grading => \A u \in UnitSet : ledger[u] >= report.runs[u]

ComputerInv == CountInv /\ ControlInv /\ ChargeInv /\ PaidInv

\* Every step is of one of five kinds.
Idles == UNCHANGED <<ledger, slice, report, caller, step, input>>
Probes ==
  /\ step \in Early /\ step' \in Early \cup {"off"}
  /\ ledger' \in [UnitSet -> Nat]
  /\ UNCHANGED <<slice, report, caller, input>>
Legs ==
  /\ step \in Early /\ step' \in Early \cup {"off", "over", "charge"}
  /\ {"runs", "charged"} \subseteq DOMAIN slice' /\ slice'.runs \in [UnitSet -> Nat]
  /\ slice'.charged = slice.charged
  /\ UNCHANGED <<ledger, report, caller, input>>
Calls ==
  /\ step = "off" /\ UNCHANGED report
  /\ ledger' \in {ledger, NoUse} /\ slice' \in {slice, NoSlice}
  /\ caller # "nobody" => caller' = caller
  /\ \/ step' = "off"
     \/ step' \in Early /\ slice' = NoSlice /\ input' \in Inputs /\ caller' # "nobody"
     \/ step' = "read" /\ input' \in Inputs /\ caller' = "library"
Grades ==
  /\ step \in Grading /\ UNCHANGED <<ledger, slice, report, caller, input>>
  /\ \/ step' \in {"off", "over", "fresh"}
     \/ step' = "emit" /\ caller = "cli"
Leaves == step' = "off" /\ caller' = "nobody" /\ UNCHANGED <<ledger, slice, report, input>>

\* A charge adds calls, or nothing.
LEMMA SpendCounts ==
  ASSUME CountInv, NEW u \in UnitSet, NEW n \in Nat, NEW layer, NEW ok, ChargeProbe(layer, u, n, ok)
  PROVE  ledger' \in [UnitSet -> Nat]
  BY DEF CountInv, ChargeProbe, Spend

LEMMA ArmsCount == 2 * ProbeSteps \in Nat
<1>1. ProbeSteps \in Nat
  BY ProbeAssumption
<1> QED BY <1>1

LEMMA ProbeKinds ==
  ASSUME ComputerInv, Probing \/ \E fails \in {"no", "at once", "late"} : ProbeKernel(fails)
  PROVE  Probes \/ Idles
<1> USE ProbeAssumption, UnitFacts
<1>1. ASSUME NEW fails \in BOOLEAN, ProbeMicro(fails) PROVE Probes
  <2>1. step' \in {"probe compiler", "off"} /\ step = "probe micro"
    BY <1>1 DEF ProbeMicro, Done
  <2>2. ledger' \in [UnitSet -> Nat]
    BY <1>1, SpendCounts DEF ProbeMicro, ComputerInv, CountInv
  <2> QED BY <1>1, <2>1, <2>2 DEF ProbeMicro, Probes, Early, ProbeSame, callVars
<1>2. ASSUME NEW fails \in BOOLEAN, ProbeCompiler(fails) PROVE Probes
  <2>1. step' \in {"search", "probe kernel", "off"} /\ step = "probe compiler"
    BY <1>2 DEF ProbeCompiler, Done
  <2> QED BY <1>2, <2>1 DEF ProbeCompiler, Probes, Early, ProbeSame, callVars, ComputerInv, CountInv
<1>3. CASE Search
  BY <1>3 DEF Search, Idles, computerVars, callVars
<1>4. CASE EndSearch
  <2>1. step' \in {"probe kernel", "off"} /\ step = "search"
    BY <1>4 DEF EndSearch, Done
  <2>2. ledger' \in [UnitSet -> Nat]
    BY <1>4, SpendCounts DEF EndSearch, ComputerInv
  <2> QED BY <1>4, <2>1, <2>2 DEF EndSearch, Probes, Early, ProbeSame, callVars
<1>5. ASSUME NEW fails \in {"no", "at once", "late"}, ProbeKernel(fails) PROVE Probes
  <2>1. step' \in {"lower", "off"} /\ step = "probe kernel"
    BY <1>5 DEF ProbeKernel, Done
  <2>2. ledger' \in [UnitSet -> Nat]
    <3> QED BY <1>5, ArmsCount, SpendCounts DEF ProbeKernel, ComputerInv, CountInv
  <2> QED BY <1>5, <2>1, <2>2 DEF ProbeKernel, Probes, Early, ProbeSame, callVars
<1> QED BY <1>1, <1>2, <1>3, <1>4, <1>5 DEF Probing

\* What a leg gathers.
LEMMA GatherCounts ==
  ASSUME ComputerInv, NEW u \in UnitSet, NEW n \in Nat, NEW problems, NEW faults,
         Gather(u, n, problems, faults)
  PROVE  /\ {"runs", "charged"} \subseteq DOMAIN slice' /\ slice'.runs \in [UnitSet -> Nat]
         /\ slice'.charged = slice.charged
  BY DEF ComputerInv, CountInv, Gather, Counted

LEMMA NatProducts ==
  \A i, j, k, l \in Nat : /\ 2 * i * j \in Nat /\ 2 * i * j * k \in Nat
                          /\ 4 * i * j * k * l \in Nat
<1> SUFFICES ASSUME NEW i \in Nat, NEW j \in Nat, NEW k \in Nat, NEW l \in Nat
             PROVE  2 * i * j \in Nat /\ 2 * i * j * k \in Nat /\ 4 * i * j * k * l \in Nat
  OBVIOUS
<1>1. 2 * i \in Nat /\ 4 * i \in Nat
  OBVIOUS
<1>2. (2 * i) * j \in Nat /\ (4 * i) * j \in Nat
  BY <1>1
<1>3. (2 * i * j) * k \in Nat /\ (4 * i * j) * k \in Nat
  BY <1>2
<1>4. (4 * i * j * k) * l \in Nat
  BY <1>3
<1> QED BY <1>2, <1>3, <1>4

\* The factorial of a slice is finite.
LEMMA Factorial ==
  ASSUME ComputerInv, step # "off"
  PROVE  /\ Cardinality(S.seeds) \in Nat /\ Cardinality(S.ns) \in Nat /\ S.steps \in Nat
         /\ Cardinality(S.controls) \in Nat /\ Cardinality(S.gains) \in Nat
<1>1. input \in Inputs
  BY DEF ComputerInv, ControlInv
<1>2. /\ IsFiniteSet(S.seeds) /\ IsFiniteSet(S.ns) /\ IsFiniteSet(S.controls)
      /\ IsFiniteSet(S.gains) /\ S.steps \in Nat
  BY <1>1, ProbeAssumption DEF S
<1> QED BY <1>2, FS_CardinalityType

LEMMA CpuLegCounts ==
  ASSUME ComputerInv, step # "off", NEW u \in UnitSet, NEW leg, NEW n \in Nat, NEW draw, NEW bad,
         CpuLeg(leg, u, n, draw, bad)
  PROVE  /\ {"runs", "charged"} \subseteq DOMAIN slice' /\ slice'.runs \in [UnitSet -> Nat]
         /\ slice'.charged = slice.charged
  BY GatherCounts DEF CpuLeg

LEMMA SliceLegs ==
  ASSUME ComputerInv, Slicing, ~Charge
  PROVE  Legs
<1> USE UnitFacts
<1>1. CASE LowerAll
  <2>1. /\ {"runs", "charged"} \subseteq DOMAIN slice' /\ slice'.runs \in [UnitSet -> Nat]
        /\ slice'.charged = slice.charged
    BY <1>1 DEF LowerAll, ComputerInv, CountInv
  <2>2. step = "lower" /\ step' \in {"views", "over", "off"}
    BY <1>1 DEF LowerAll, Raise
  <2> QED BY <1>1, <2>1, <2>2 DEF LowerAll, Legs, Early, SliceSame, callVars
<1>2. CASE StubViews
  <2>1. /\ {"runs", "charged"} \subseteq DOMAIN slice' /\ slice'.runs \in [UnitSet -> Nat]
        /\ slice'.charged = slice.charged
    BY <1>2 DEF StubViews, ComputerInv, CountInv
  <2> QED BY <1>2, <2>1 DEF StubViews, Legs, Early, SliceSame, callVars
<1>3. ASSUME NEW draw, NEW bad, InOrderLeg(draw, bad) PROVE Legs
  <2>1. step = "in order" /\ step' = "out of order"
    BY <1>3 DEF InOrderLeg
  <2> DEFINE n == 2 * Cardinality(S.seeds) * Cardinality(S.ns) * Cardinality(S.controls)
  <2>2. n \in Nat
    BY <2>1, Factorial, NatProducts
  <2>3. CpuLeg("vmicro", "micro", n, draw, bad)
    BY <1>3 DEF InOrderLeg
  <2> HIDE DEF n
  <2>4. /\ {"runs", "charged"} \subseteq DOMAIN slice' /\ slice'.runs \in [UnitSet -> Nat]
        /\ slice'.charged = slice.charged
    BY <2>1, <2>2, <2>3, CpuLegCounts
  <2> QED BY <1>3, <2>1, <2>4 DEF InOrderLeg, Legs, Early, SliceSame, callVars
<1>4. ASSUME NEW draw, NEW bad, OutOfOrderLeg(draw, bad) PROVE Legs
  <2>1. step = "out of order" /\ step' \in {"rerun", "over", "off"}
    BY <1>4 DEF OutOfOrderLeg, Raise
  <2> DEFINE n == 2 * Cardinality(S.seeds) * Cardinality(S.ns)
  <2>2. n \in Nat
    BY <2>1, Factorial, NatProducts
  <2>3. UNCHANGED slice \/ CpuLeg("vmarch", "vmarch", n, draw, bad)
    BY <1>4 DEF OutOfOrderLeg
  <2> HIDE DEF n
  <2>4. /\ {"runs", "charged"} \subseteq DOMAIN slice' /\ slice'.runs \in [UnitSet -> Nat]
        /\ slice'.charged = slice.charged
    <3>1. CASE UNCHANGED slice
      BY <3>1 DEF ComputerInv, CountInv
    <3> QED BY <2>1, <2>2, <2>3, <3>1, CpuLegCounts
  <2> QED BY <1>4, <2>1, <2>4 DEF OutOfOrderLeg, Legs, Early, SliceSame, callVars
<1>5. ASSUME NEW differs, Rerun(differs) PROVE Legs
  <2>1. /\ {"runs", "charged"} \subseteq DOMAIN slice' /\ slice'.runs \in [UnitSet -> Nat]
        /\ slice'.charged = slice.charged
    BY <1>5, GatherCounts DEF Rerun
  <2> QED BY <1>5, <2>1 DEF Rerun, Legs, Early, SliceSame, callVars
<1>6. ASSUME NEW lat, NEW rate, LoadsLeg(lat, rate) PROVE Legs
  <2>1. step = "loads" /\ step' = "score"
    BY <1>6 DEF LoadsLeg
  <2> DEFINE n == 4 * Cardinality(S.seeds) * Cardinality(S.ns) * Cardinality(S.gains) * S.steps
  <2>2. n \in Nat
    BY <2>1, Factorial, NatProducts
  <2>3. \E problems, faults : Gather("kernel", n, problems, faults)
    BY <1>6 DEF LoadsLeg
  <2> HIDE DEF n
  <2>4. /\ {"runs", "charged"} \subseteq DOMAIN slice' /\ slice'.runs \in [UnitSet -> Nat]
        /\ slice'.charged = slice.charged
    BY <2>2, <2>3, GatherCounts
  <2> QED BY <1>6, <2>1, <2>4 DEF LoadsLeg, Legs, Early, SliceSame, callVars
<1>7. CASE Score
  <2>1. /\ {"runs", "charged"} \subseteq DOMAIN slice' /\ slice'.runs \in [UnitSet -> Nat]
        /\ slice'.charged = slice.charged
    BY <1>7, GatherCounts, ProbeAssumption DEF Score
  <2> QED BY <1>7, <2>1 DEF Score, Legs, Early, SliceSame, callVars
<1>8. CASE Fails
  <2>1. step \in Early /\ step' \in {"over", "off"} /\ UNCHANGED slice
    BY <1>8 DEF Fails, Raise, Early
  <2> QED BY <1>8, <2>1 DEF Fails, Legs, SliceSame, callVars, ComputerInv, CountInv
<1> QED BY <1>1, <1>2, <1>3, <1>4, <1>5, <1>6, <1>7, <1>8 DEF Slicing

LEMMA Certifies == ASSUME ComputerInv, Certifying PROVE Grades \/ Idles
<1>1. ASSUME NEW evidence, Read(evidence) PROVE Grades
  BY <1>1 DEF Read, Grades, Grading, CertSame, callVars
<1>2. CASE Certify
  BY <1>2 DEF Certify, Grades, Grading, CertSame, callVars
<1>3. CASE Emit
  BY <1>3 DEF Emit, Grades, Grading, CertSame, callVars
<1>4. ASSUME NEW drifts, EditSource(drifts) PROVE Idles
  BY <1>4 DEF EditSource, Idles, callVars
<1> QED BY <1>1, <1>2, <1>3, <1>4 DEF Certifying

LEMMA CallsAre == ASSUME ComputerInv, Calling PROVE Calls \/ Idles \/ Leaves
<1>1. ASSUME NEW inp \in Inputs, NEW most, CommandLine(inp, most) PROVE Calls
  <2>1. caller = "nobody" /\ caller' = "cli" /\ step = "off"
    BY <1>1 DEF CommandLine, Computer, Free, ComputerInv, ControlInv
  <2>2. step' = "probe micro"
    BY <1>1 DEF CommandLine, Begin, FirstStep
  <2> QED BY <1>1, <2>1, <2>2 DEF CommandLine, Computer, Begin, Calls, Early
<1>2. ASSUME NEW most, Import(most) PROVE Calls
  <2>1. caller = "nobody" /\ step = "off"
    BY <1>2 DEF Import, Computer, Free, ComputerInv, ControlInv
  <2> QED BY <1>2, <2>1 DEF Import, Computer, Calls
<1>3. ASSUME NEW inp \in Inputs, NEW what \in DOMAIN FirstStep, LibraryCall(what, inp)
      PROVE  Calls
  <2>1. FirstStep[what] \in Early \cup {"read"}
    <3>1. what \in {"pipeline", "micro", "compiler", "kernel", "slice", "certify"}
      BY DEF FirstStep
    <3>2. /\ FirstStep["pipeline"] = "probe micro" /\ FirstStep["micro"] = "probe micro"
          /\ FirstStep["compiler"] = "probe compiler" /\ FirstStep["kernel"] = "probe kernel"
          /\ FirstStep["slice"] = "lower" /\ FirstStep["certify"] = "read"
      BY DEF FirstStep
    <3> QED BY <3>1, <3>2 DEF Early
  <2> QED BY <1>3, <2>1 DEF LibraryCall, Begin, Calls
<1>4. CASE Exit
  BY <1>4 DEF Exit, Leaves
<1>5. ASSUME NEW n, Fork("copy", n) \/ Switch(n) \/ Intervene(n, "tight") PROVE Idles
  BY <1>5 DEF Fork, Switch, Intervene, Idles
<1> QED BY <1>1, <1>2, <1>3, <1>4, <1>5 DEF Calling

\* The other programs do not touch the computer.
LEMMA OthersIdle ==
  \/ (CompilerNext /\ UNCHANGED computerVars)
  \/ KernelProgram \/ DriftProgram \/ UNCHANGED allVars
  => Idles
  BY DEF KernelProgram, DriftProgram, Alone, allVars, computerVars, callVars, Idles

LEMMA StepKinds ==
  ASSUME ComputerInv, [ComputerNext]_allVars
  PROVE  Idles \/ Probes \/ Legs \/ Calls \/ Grades \/ Leaves \/ Charge
<1>1. CASE Calling
  BY <1>1, CallsAre
<1>2. CASE Probing \/ \E fails \in {"no", "at once", "late"} : ProbeKernel(fails)
  BY <1>2, ProbeKinds
<1>3. CASE Slicing
  BY <1>3, SliceLegs
<1>4. CASE Certifying
  BY <1>4, Certifies
<1> QED BY <1>1, <1>2, <1>3, <1>4, OthersIdle DEF ComputerNext

-----------------------------------------------------------------------------
\* A charge pays for one unit and leaves what was paid before.
LEMMA ChargePays ==
  ASSUME ComputerInv, Charge, NEW u \in UnitSet, u = Units[slice.charged + 1],
         CanSpend(u, slice.runs[u])
  PROVE  /\ ledger' \in [UnitSet -> Nat]
         /\ slice'.runs = slice.runs /\ slice'.charged = slice.charged + 1
         /\ {"runs", "charged"} \subseteq DOMAIN slice'
         /\ slice.charged \in 0 .. 3
         /\ \A k \in 1 .. slice.charged + 1 : ledger'[Units[k]] >= slice.runs[Units[k]]
<1>1. /\ step = "charge" /\ ledger \in [UnitSet -> Nat] /\ slice.runs \in [UnitSet -> Nat]
      /\ {"runs", "charged"} \subseteq DOMAIN slice /\ slice.charged \in 0 .. 3
      /\ \A k \in 1 .. slice.charged : ledger[Units[k]] >= slice.runs[Units[k]]
  BY DEF ComputerInv, CountInv, ChargeInv, Charge
<1>2. ledger' = [ledger EXCEPT ![u] = @ + slice.runs[u]] /\ slice' = [slice EXCEPT !.charged = @ + 1]
  BY DEF Charge, Spend
<1>3. /\ ledger' \in [UnitSet -> Nat] /\ ledger'[u] >= slice.runs[u]
      /\ \A v \in UnitSet : ledger'[v] >= ledger[v]
  BY <1>1, <1>2
<1>4. ASSUME NEW k \in 1 .. slice.charged + 1 PROVE ledger'[Units[k]] >= slice.runs[Units[k]]
  <2>1. Units[k] \in UnitSet /\ (k = slice.charged + 1 \/ k \in 1 .. slice.charged)
    BY <1>1, UnitFacts
  <2>2. CASE k = slice.charged + 1
    BY <1>3, <2>2
  <2>3. CASE k \in 1 .. slice.charged
    <3>1. ledger[Units[k]] >= slice.runs[Units[k]]
      BY <1>1, <2>3
    <3>2. ledger'[Units[k]] \in Nat /\ ledger[Units[k]] \in Nat /\ slice.runs[Units[k]] \in Nat
      BY <1>1, <1>3, <2>1
    <3> QED BY <1>3, <2>1, <3>1, <3>2
  <2> QED BY <2>1, <2>2, <2>3
<1> QED BY <1>1, <1>2, <1>3, <1>4

LEMMA ChargeKeeps == ASSUME ComputerInv, Charge PROVE ComputerInv'
<1> USE UnitFacts
<1>0. /\ step = "charge" /\ slice.charged \in 0 .. 3 /\ input \in Inputs /\ caller # "nobody"
      /\ UNCHANGED <<caller, input>>
  BY DEF ComputerInv, ChargeInv, ControlInv, Charge, callVars
<1> DEFINE u == Units[slice.charged + 1]
<1>1. u \in UnitSet
  BY <1>0
<1>2. CASE ~CanSpend(u, slice.runs[u])
  <2>1. step' \in {"over", "off"} /\ UNCHANGED <<ledger, slice, report>>
    BY <1>2 DEF Charge, Raise
  <2> QED BY <1>0, <2>1 DEF ComputerInv, CountInv, ControlInv, ChargeInv, PaidInv, Early, Grading
<1>3. CASE CanSpend(u, slice.runs[u])
  <2> HIDE DEF u
  <2>1. /\ ledger' \in [UnitSet -> Nat]
        /\ slice'.runs = slice.runs /\ slice'.charged = slice.charged + 1
        /\ {"runs", "charged"} \subseteq DOMAIN slice'
        /\ \A k \in 1 .. slice.charged + 1 : ledger'[Units[k]] >= slice.runs[Units[k]]
    BY <1>1, <1>3, ChargePays DEF u
  <2>2. CountInv'
    BY <2>1 DEF ComputerInv, CountInv
  <2>3. CASE slice.charged + 1 = LastUnit
    <3>1. /\ step' = IF caller = "cli" THEN "read" ELSE "off"
          /\ report' = [gates |-> Gates, runs |-> slice.runs, paid |-> ledger',
                        faults |-> slice.faults, views |-> slice.views]
      BY <1>3, <2>3 DEF Charge, u
    <3>2. \A v \in UnitSet : ledger'[v] >= slice.runs[v]
      BY <2>1, <2>3 DEF LastUnit
    <3>3. report'.runs = slice.runs /\ report'.paid = ledger'
      BY <3>1
    <3> QED BY <1>0, <2>2, <3>1, <3>2, <3>3
            DEF ComputerInv, ControlInv, ChargeInv, PaidInv, Early, Grading
  <2>4. CASE slice.charged + 1 # LastUnit
    <3>1. UNCHANGED <<report, step>>
      BY <1>3, <2>4 DEF Charge, u
    <3>2. slice'.charged \in 0 .. 3
      BY <1>0, <2>1, <2>4 DEF LastUnit
    <3>3. ChargeInv'
      BY <1>0, <2>1, <3>1, <3>2 DEF ChargeInv, Early
    <3> QED BY <1>0, <2>2, <3>1, <3>3 DEF ComputerInv, ControlInv, PaidInv, Grading
  <2> QED BY <2>3, <2>4
<1> QED BY <1>2, <1>3

LEMMA ComputerStep == ComputerInv /\ [ComputerNext]_allVars => ComputerInv'
<1> SUFFICES ASSUME ComputerInv, [ComputerNext]_allVars PROVE ComputerInv'
  OBVIOUS
<1> USE DEF ComputerInv, CountInv, ControlInv, ChargeInv, PaidInv
<1>1. CASE Idles
  BY <1>1 DEF Idles
<1>2. CASE Probes
  BY <1>2 DEF Probes, Early, Grading
<1>3. CASE Legs
  <2>1. slice'.charged = 0 /\ 1 .. slice'.charged = {} /\ 0 \in 0 .. 3
    BY <1>3 DEF Legs
  <2> QED BY <1>3, <2>1 DEF Legs, Early, Grading
<1>4. CASE Calls
  <2>1. CountInv'
    BY <1>4 DEF Calls, NoUse, NoSlice
  <2>2. ControlInv'
    BY <1>4 DEF Calls, Early
  <2>3. ChargeInv'
    <3>1. NoSlice.charged = 0
      BY DEF NoSlice
    <3>2. step' # "charge" /\ (step' \in Early => slice' = NoSlice)
      BY <1>4 DEF Calls, Early
    <3> QED BY <3>1, <3>2
  <2>4. PaidInv'
    BY <1>4 DEF Calls, Early, Grading
  <2> QED BY <2>1, <2>2, <2>3, <2>4
<1>5. CASE Grades
  BY <1>5 DEF Grades, Early, Grading
<1>6. CASE Leaves
  BY <1>6 DEF Leaves, Early, Grading
<1>7. CASE Charge
  BY <1>7, ChargeKeeps
<1> QED BY <1>1, <1>2, <1>3, <1>4, <1>5, <1>6, <1>7, StepKinds

\* A slice is charged in full or gives no report (computer.py:179-186), and no manifest
\* tells of less than its slice used: whatever the inputs, the limits and the failures.
THEOREM PaidInFull == ComputerSpec => []ChargedInFull
<1>1. ComputerInit => ComputerInv
  BY DEF ComputerInit, ComputerInv, CountInv, ControlInv, ChargeInv, PaidInv, NoUse, NoSlice, Early,
         Grading
<1>2. ComputerInv /\ [ComputerNext]_allVars => ComputerInv'
  BY ComputerStep
<1>3. ComputerInv => ChargedInFull
  BY DEF ComputerInv, ControlInv, PaidInv, ChargedInFull, Grading
<1> QED BY <1>1, <1>2, <1>3, PTL DEF ComputerSpec

-----------------------------------------------------------------------------
(* The environment of the virtual compiler, in whichever program it runs.  *)

EnvQuiet == UNCHANGED <<branches, experience, views, used, saved>>
Sessions == sessions' \in {sessions, sessions + 1, 1}

LEMMA QuietFacts == ASSUME FactsInv, EnvQuiet PROVE FactsInv'
  BY QuietRearranges, RearrangesKeeps DEF EnvQuiet

LEMMA SearchFacts == ASSUME FactsInv, Search PROVE FactsInv' /\ Sessions
<1>1. ASSUME ValidateNext(StubFact(Head(job.todo))) PROVE FactsInv' /\ Sessions
  <2>1. Measures /\ UNCHANGED sessions
    BY <1>1 DEF ValidateNext, Measures
  <2> QED BY <2>1, MeasuresKeeps DEF Sessions
<1>2. CASE Work
  BY <1>2, WorkKinds, RearrangesKeeps, RestartsKeeps, MeasuresKeeps DEF Sessions
<1> QED BY <1>1, <1>2 DEF Search, Work

LEMMA ProbeFacts == ASSUME FactsInv, NEW fails, ProbeCompiler(fails) PROVE FactsInv' /\ Sessions
<1>1. UNCHANGED <<saved, sessions>>
  BY DEF ProbeCompiler
<1>2. CASE fails
  BY <1>1, <1>2, QuietFacts DEF ProbeCompiler, EnvQuiet, envVars, Sessions
<1>3. CASE ~fails
  <2>1. Restarts
    <3>1. used' = 0 /\ experience' = {} /\ views' = {}
      BY <1>3 DEF ProbeCompiler, Fresh3
    <3>2. \A n \in DOMAIN branches' : \E c, p : branches'[n] = NewBranch(c, p)
      BY <1>3 DEF ProbeCompiler
    <3> QED BY <1>1, <3>1, <3>2, NewFields DEF Restarts
  <2> QED BY <1>1, <2>1, RestartsKeeps DEF Sessions
<1> QED BY <1>2, <1>3

\* The two forks of the slice are measured, and no more than they.
LEMMA ViewsFacts == ASSUME FactsInv, StubViews PROVE FactsInv' /\ Sessions
<1> DEFINE seen(c) == <<Built(c), Fact(TRUE, StubTime(c))>>
<1>1. /\ experience' = {seen(c) : c \in {InitialConfig, LowView}} /\ views' = experience'
      /\ used' = 2 /\ UNCHANGED <<saved, sessions>>
  BY DEF StubViews, taskVars
<1>2. IsFiniteSet(views') /\ Cardinality(views') <= used'
  <2>1. views' = {seen(InitialConfig), seen(LowView)}
    BY <1>1
  <2>2. IsFiniteSet({seen(LowView)}) /\ Cardinality({seen(LowView)}) = 1
    BY FS_Singleton
  <2>3. views' = {seen(LowView)} \cup {seen(InitialConfig)}
    BY <2>1
  <2> HIDE DEF seen
  <2>4. IsFiniteSet(views') /\ Cardinality(views') \in {1, 2}
    BY <2>2, <2>3, FS_AddElement
  <2> QED BY <1>1, <2>4
<1>3. ASSUME NEW n \in DOMAIN branches'
      PROVE  /\ DOMAIN branches'[n] = Fields
             /\ branches'[n].fact.known => <<Built(branches'[n].config), branches'[n].fact>> \in experience'
  <2>1. \/ \E c, p : branches'[n] = NewBranch(c, p)
        \/ \E c \in {InitialConfig, LowView} : \E p :
             branches'[n] = [NewBranch(c, p) EXCEPT !.fact = Fact(TRUE, StubTime(c)), !.bin = TRUE]
    <3>1. PICK k : branches'[n] = Viewed(k)
      BY DEF StubViews
    <3>2. ViewConfig[2] = InitialConfig /\ ViewConfig[4] = LowView
      BY DEF ViewConfig
    <3> QED BY <3>1, <3>2 DEF Viewed
  <2>2. ASSUME NEW c, NEW p, branches'[n] = NewBranch(c, p)
        PROVE  DOMAIN branches'[n] = Fields /\ ~branches'[n].fact.known
    BY <2>2, NewFields
  <2>3. ASSUME NEW c \in {InitialConfig, LowView}, NEW p,
               branches'[n] = [NewBranch(c, p) EXCEPT !.fact = Fact(TRUE, StubTime(c)), !.bin = TRUE]
        PROVE  /\ DOMAIN branches'[n] = Fields /\ branches'[n].config = c
               /\ branches'[n].fact = Fact(TRUE, StubTime(c))
    BY <2>3, NewFields DEF Fields
  <2> QED BY <1>1, <2>1, <2>2, <2>3
<1>4. SavedInv'
  BY <1>1 DEF FactsInv, SavedInv, Taught
<1> QED BY <1>1, <1>2, <1>3, <1>4 DEF FactsInv, NowInv, Sessions

LEMMA FactsKept == ASSUME FactsInv, [ComputerNext]_allVars PROVE FactsInv' /\ Sessions
<1> USE DEF vars, envVars, taskVars, EnvSame
<1>1. CASE CompilerNext
  <2>1. Sessions
    BY <1>1, WorkKinds, UseKinds, StartRestarts DEF CompilerNext, Sessions
  <2> QED BY <1>1, <2>1, FactsStep
<1>2. CASE Search
  BY <1>2, SearchFacts
<1>3. ASSUME NEW fails, ProbeCompiler(fails) PROVE FactsInv' /\ Sessions
  BY <1>3, ProbeFacts
<1>4. CASE StubViews
  BY <1>4, ViewsFacts
<1>5. CASE Calling
  <2>1. EnvQuiet /\ Sessions
    BY <1>5 DEF Calling, CommandLine, Import, Computer, Free, LibraryCall, Exit, Fork, Switch,
                Intervene, EnvQuiet, Sessions
  <2> QED BY <2>1, QuietFacts
<1>6. CASE EndSearch \/ \E fails : ProbeMicro(fails) \/ ProbeKernel(fails)
  <2>1. EnvQuiet /\ Sessions
    BY <1>6 DEF EndSearch, ProbeMicro, ProbeKernel, EnvQuiet, Sessions
  <2> QED BY <2>1, QuietFacts
<1>7. CASE Slicing /\ ~StubViews
  <2>1. EnvQuiet /\ Sessions
    BY <1>7 DEF Slicing, LowerAll, InOrderLeg, OutOfOrderLeg, Rerun, LoadsLeg, Score, Fails, Charge,
                EnvQuiet, Sessions
  <2> QED BY <2>1, QuietFacts
<1>8. CASE Certifying
  <2>1. EnvQuiet /\ Sessions
    BY <1>8 DEF Certifying, Read, Certify, Emit, EditSource, CertSame, EnvQuiet, Sessions
  <2> QED BY <2>1, QuietFacts
<1>9. CASE KernelProgram \/ DriftProgram \/ UNCHANGED allVars
  <2>1. EnvQuiet
    BY <1>9 DEF KernelProgram, DriftProgram, Alone, allVars, EnvQuiet
  <2>2. Sessions
    BY <1>9 DEF KernelProgram, DriftProgram, Free, allVars, Sessions
  <2> QED BY <2>1, <2>2, QuietFacts
<1> QED BY <1>1, <1>2, <1>3, <1>4, <1>5, <1>6, <1>7, <1>8, <1>9 DEF ComputerNext, Probing

\* The virtual compiler's promise holds of its environments in the computer too: in the
\* probe, where the stub oracle answers, and in the slice, which measures forks.
THEOREM FactsMeasured == ComputerSpec => []FactsAreMeasured
<1>1. ComputerInit => FactsInv
  BY FactsInit DEF ComputerInit
<1>2. FactsInv /\ [ComputerNext]_allVars => FactsInv'
  BY FactsKept
<1> QED BY <1>1, <1>2, FactsAre, PTL DEF ComputerSpec

-----------------------------------------------------------------------------
(* The budget.                                                             *)

\* A computer begins with nothing spent; afterwards the ledger stays within the limit.
BudgetInv ==
  /\ limit \in [UnitSet -> Nat] /\ sessions \in Nat
  /\ \A u \in UnitSet : ledger[u] <= limit[u]
  /\ sessions = 0 => ledger = NoUse /\ caller = "nobody"

\* What a step may do to the ledger: nothing, work for the caller, or begin a computer.
Spares == UNCHANGED <<ledger, limit, caller>>
Spends ==
  /\ caller # "nobody" /\ UNCHANGED limit
  /\ \A u \in UnitSet : ledger'[u] = ledger[u] \/ ledger'[u] <= limit[u]
Boots == ledger = NoUse /\ ledger' = NoUse /\ limit' \in Limits /\ sessions' = 1

LEMMA ChargeSpends ==
  ASSUME ComputerInv, BudgetInv, NEW u \in UnitSet, NEW n \in Nat,
         (CanSpend(u, n) /\ Spend(u, n)) \/ UNCHANGED ledger
  PROVE  \A v \in UnitSet : ledger'[v] = ledger[v] \/ ledger'[v] <= limit[v]
<1>1. ledger \in [UnitSet -> Nat]
  BY DEF ComputerInv, CountInv
<1>2. CASE CanSpend(u, n) /\ Spend(u, n)
  <2>1. ledger' = [ledger EXCEPT ![u] = ledger[u] + n] /\ ledger[u] + n <= limit[u]
    BY <1>2 DEF CanSpend, Spend
  <2> QED BY <1>1, <2>1
<1>3. CASE UNCHANGED ledger
  BY <1>3
<1> QED BY <1>2, <1>3

LEMMA AtWork == ASSUME ComputerInv, step # "off" PROVE caller # "nobody"
  BY DEF ComputerInv, ControlInv

LEMMA LedgerKinds ==
  ASSUME ComputerInv, BudgetInv, [ComputerNext]_allVars PROVE Spares \/ Spends \/ Boots
<1> USE UnitFacts DEF callVars
<1>1. ASSUME NEW u \in UnitSet, NEW n \in Nat, NEW layer, NEW ok, ChargeProbe(layer, u, n, ok),
             step # "off", UNCHANGED limit
      PROVE  Spends
  BY <1>1, ChargeSpends, AtWork DEF ChargeProbe, Spends
<1>2. ASSUME NEW fails, ProbeMicro(fails) PROVE Spares \/ Spends
  <2>1. step # "off" /\ UNCHANGED <<limit, caller>>
    BY <1>2 DEF ProbeMicro, ProbeSame
  <2> QED BY <1>1, <1>2, <2>1 DEF ProbeMicro, Spares
<1>3. CASE EndSearch
  <2>1. step # "off" /\ UNCHANGED limit
    BY <1>3 DEF EndSearch, ProbeSame
  <2> QED BY <1>1, <1>3, <2>1 DEF EndSearch
<1>4. ASSUME NEW fails, ProbeKernel(fails) PROVE Spares \/ Spends
  <2>1. step # "off" /\ UNCHANGED <<limit, caller>>
    BY <1>4 DEF ProbeKernel, ProbeSame
  <2> QED BY <1>1, <1>4, <2>1, ArmsCount DEF ProbeKernel, Spares
<1>5. CASE Charge
  <2>1. step # "off" /\ UNCHANGED limit /\ Units[slice.charged + 1] \in UnitSet
    BY <1>5 DEF Charge, ComputerInv, ChargeInv
  <2>2. slice.runs[Units[slice.charged + 1]] \in Nat
    BY <2>1 DEF ComputerInv, CountInv
  <2> DEFINE u == Units[slice.charged + 1]
  <2>3. (CanSpend(u, slice.runs[u]) /\ Spend(u, slice.runs[u])) \/ UNCHANGED ledger
    BY <1>5 DEF Charge
  <2> HIDE DEF u
  <2>4. \A v \in UnitSet : ledger'[v] = ledger[v] \/ ledger'[v] <= limit[v]
    BY <2>1, <2>2, <2>3, ChargeSpends DEF u
  <2> QED BY <2>1, <2>4, AtWork DEF Spends
<1>6. ASSUME NEW inp, NEW most \in Limits, CommandLine(inp, most) PROVE Boots
  <2>1. sessions = 0 /\ sessions' = 1 /\ limit' = most /\ ledger' = NoUse
    BY <1>6 DEF CommandLine, Computer, Free, Begin
  <2> QED BY <2>1 DEF BudgetInv, Boots
<1>7. ASSUME NEW most \in Limits, Import(most) PROVE Boots
  <2>1. sessions = 0 /\ sessions' = 1 /\ limit' = most /\ ledger' = ledger
    BY <1>7 DEF Import, Computer, Free
  <2> QED BY <2>1 DEF BudgetInv, Boots
<1>8. ASSUME NEW what, NEW inp, LibraryCall(what, inp) PROVE Spends
  <2>1. caller # "nobody" /\ UNCHANGED limit /\ (ledger' = NoUse \/ UNCHANGED ledger)
    BY <1>8 DEF LibraryCall, Begin
  <2>2. \A u \in UnitSet : NoUse[u] = 0 /\ limit[u] \in Nat
    BY DEF NoUse, BudgetInv
  <2> QED BY <2>1, <2>2 DEF Spends
<1>9. CASE Exit
  BY <1>9 DEF Exit, Spends
<1>10. ASSUME NEW n, Fork("copy", n) \/ Switch(n) \/ Intervene(n, "tight") PROVE Spares
  BY <1>10 DEF Fork, Switch, Intervene, Spares
<1>11. CASE Slicing /\ ~Charge
  BY <1>11 DEF Slicing, LowerAll, StubViews, InOrderLeg, OutOfOrderLeg, Rerun, LoadsLeg, Score,
               Fails, SliceSame, Spares
<1>12. CASE Certifying
  BY <1>12 DEF Certifying, Read, Certify, Emit, EditSource, CertSame, Spares
<1>13. CASE Search \/ \E fails : ProbeCompiler(fails)
  BY <1>13 DEF Search, ProbeCompiler, ProbeSame, computerVars, Spares
<1>14. CASE (CompilerNext /\ UNCHANGED computerVars) \/ KernelProgram \/ DriftProgram
            \/ UNCHANGED allVars
  BY <1>14 DEF KernelProgram, DriftProgram, Alone, allVars, computerVars, Spares
<1> QED BY <1>2, <1>3, <1>4, <1>5, <1>6, <1>7, <1>8, <1>9, <1>10, <1>11, <1>12, <1>13, <1>14
        DEF ComputerNext, Calling, Probing

LEMMA BudgetStep ==
  ASSUME ComputerInv, FactsInv, BudgetInv, [ComputerNext]_allVars PROVE BudgetInv'
<1>1. Sessions
  BY FactsKept
<1>2. sessions' \in Nat /\ (sessions' = 0 => sessions = 0)
  BY <1>1 DEF Sessions, BudgetInv
<1>3. CASE Spares
  BY <1>2, <1>3 DEF Spares, BudgetInv
<1>4. CASE Spends
  BY <1>2, <1>4 DEF Spends, BudgetInv
<1>5. CASE Boots
  <2>1. limit' \in [UnitSet -> Nat]
    BY <1>5, LimitsAssumption DEF Boots
  <2>2. \A u \in UnitSet : NoUse[u] = 0
    BY DEF NoUse
  <2> QED BY <1>5, <2>1, <2>2 DEF Boots, BudgetInv
<1> QED BY <1>3, <1>4, <1>5, LedgerKinds

\* The hard budget of the exact oracles (computer.py:160-167): whatever fails, is refused
\* or is repeated, no unit is ever charged beyond its limit.
THEOREM NeverOverBudget == ComputerSpec => [](\A u \in UnitSet : ledger[u] \in 0 .. limit[u])
<1> DEFINE All == ComputerInv /\ FactsInv /\ BudgetInv
<1>1. ComputerInit => All
  BY FactsInit DEF ComputerInit, ComputerInv, CountInv, ControlInv, ChargeInv, PaidInv, BudgetInv,
                   NoUse, NoSlice, Early, Grading, Init
<1>2. All /\ [ComputerNext]_allVars => All'
  BY ComputerStep, FactsKept, BudgetStep
<1>3. All => \A u \in UnitSet : ledger[u] \in 0 .. limit[u]
  BY DEF ComputerInv, CountInv, BudgetInv
<1> QED BY <1>1, <1>2, <1>3, PTL DEF ComputerSpec

-----------------------------------------------------------------------------
(* The certificate.                                                        *)

\* What can go wrong in the legs of a slice.
Faults == {Problem(leg, kind) : leg \in {"vmicro", "vmarch"}, kind \in {Conservation, Equivalence}}
          \cup {Problem("vmicro", "determinism")}
Harmless == {Problem("vmicro", Conservation)}
Before == {"probe micro", "probe compiler", "search", "probe kernel", "lower"}

\* Every fault of a slice left a problem of its own.
SliceInv ==
  /\ DOMAIN slice = DOMAIN NoSlice
  /\ slice.faults \subseteq slice.problems \cap Faults
  /\ step \in Before => slice.faults = {}

\* A report all of whose gates hold tells of no fault but the one no gate sees.
ReportInv ==
  report # None /\ (\A g \in DOMAIN report.gates : report.gates[g]) => report.faults \subseteq Harmless

\* Between the two looks at it an artifact may grow stale, and never fresh again.
CertFields == {"micro", "compiler", "kernel", "art", "level", "blockers", "faults"}
CertKnown ==
  cert # None /\ step # "fresh" =>
    /\ cert.level > 0 => cert.faults \subseteq Harmless
    /\ cert.art.state = "there" /\ Stale(cert.art) => "kernel" \in cert.blockers
CertInv ==
  /\ disk \in Evidence
  /\ step = "fresh" =>
       /\ DOMAIN cert = CertFields
       /\ {cert.micro, cert.compiler, cert.kernel} \subseteq Nat
       /\ Stale(cert.art) => Stale(disk.kernel)
  /\ CertKnown

GradeInv == SliceInv /\ ReportInv /\ CertInv

\* The kinds of step.
Passes ==       \* nothing is graded, gathered or certified
  /\ UNCHANGED <<slice, report, cert, disk>>
  /\ \/ step' = step
     \/ step # "fresh" /\ step' # "fresh" /\ (step' \in Before => step \in Before)
Begins ==
  /\ slice' = NoSlice /\ UNCHANGED <<report, cert, disk>>
  /\ step = "off" /\ step' # "fresh"
Gathers ==
  /\ UNCHANGED <<report, cert, disk>>
  /\ step # "fresh" /\ step' # "fresh" /\ step' \notin Before
  /\ DOMAIN slice' = DOMAIN NoSlice
  /\ \E problems, faults :
       /\ slice'.problems = slice.problems \cup problems /\ slice'.faults = slice.faults \cup faults
       /\ faults \subseteq problems \cap Faults

LEMMA PassesKeep == ASSUME GradeInv, Passes PROVE GradeInv'
  BY DEF GradeInv, SliceInv, ReportInv, CertInv, Passes, CertKnown

LEMMA BeginsKeep == ASSUME GradeInv, Begins PROVE GradeInv'
<1>1. NoSlice.faults = {}
  BY DEF NoSlice
<1> QED BY <1>1 DEF GradeInv, SliceInv, ReportInv, CertInv, Begins, CertKnown

LEMMA GathersKeep == ASSUME GradeInv, Gathers PROVE GradeInv'
  BY DEF GradeInv, SliceInv, ReportInv, CertInv, Gathers, CertKnown

LEMMA LowerGrades == ASSUME GradeInv, LowerAll PROVE GradeInv'
<1>1. /\ step = "lower" /\ UNCHANGED <<report, cert, disk>>
      /\ step' \in {"over", "off", "views"}
  BY DEF LowerAll, SliceSame, fileVars, Raise
<1>2. slice.faults = {} /\ DOMAIN slice = DOMAIN NoSlice
  BY <1>1 DEF GradeInv, SliceInv, Before
<1>3. slice'.faults = slice.faults /\ DOMAIN slice' = DOMAIN NoSlice
  BY <1>2 DEF LowerAll, NoSlice
<1>4. SliceInv'
  BY <1>1, <1>2, <1>3 DEF SliceInv, Before
<1> QED BY <1>1, <1>4 DEF GradeInv, ReportInv, CertInv, CertKnown

\* Gates that all hold leave only the fault that no gate sees.
LEMMA GatesSee ==
  ASSUME SliceInv, \A g \in DOMAIN Gates : Gates[g]
  PROVE  slice.faults \subseteq Harmless
<1>1. Gates["functional_equivalence"] /\ Gates["vmarch"] /\ Gates["determinism"]
  BY DEF Gates
<1>2. \A p \in slice.problems : p.kind # Equivalence /\ p.leg # "vmarch" /\ p.kind # "determinism"
  BY <1>1 DEF Gates, Silent, Says
<1>3. \A p \in Faults : p.kind # Equivalence /\ p.leg # "vmarch" /\ p.kind # "determinism" => p \in Harmless
  BY DEF Faults, Problem, Harmless, Conservation, Equivalence
<1> QED BY <1>2, <1>3 DEF SliceInv

LEMMA ChargeGrades == ASSUME GradeInv, Charge PROVE GradeInv'
<1>1. /\ step = "charge" /\ UNCHANGED <<cert, disk>> /\ step' \in {"over", "off", "charge", "read"}
      /\ slice' \in {slice, [slice EXCEPT !.charged = @ + 1]}
      /\ report' = report \/ (report'.gates = Gates /\ report'.faults = slice.faults)
  BY DEF Charge, fileVars, Raise
<1>2. slice'.faults = slice.faults /\ slice'.problems = slice.problems /\ DOMAIN slice' = DOMAIN slice
  BY <1>1 DEF GradeInv, SliceInv, NoSlice
<1>3. SliceInv' /\ ReportInv'
  BY <1>1, <1>2, GatesSee DEF GradeInv, SliceInv, ReportInv, Before
<1>4. CertInv'
  BY <1>1 DEF GradeInv, CertInv, CertKnown
<1> QED BY <1>3, <1>4 DEF GradeInv

LEMMA GradesAre ==
  ASSUME NEW d \in Evidence
  PROVE  /\ MicroGrade(d) \in Nat /\ CompilerGrade(d) \in Nat /\ KernelGrade(d.kernel) \in Nat
         /\ IntegrationGrade \in Nat
<1>1. d.kernel.level \in 0 .. 2
  BY DEF Evidence, KernelArtifact
<1>2. KernelGrade(d.kernel) \in Nat
  BY <1>1 DEF KernelGrade
<1> QED BY <1>2 DEF MicroGrade, CompilerGrade, IntegrationGrade

LEMMA ReadGrades == ASSUME GradeInv, NEW evidence \in Disks \cup {disk}, Read(evidence) PROVE GradeInv'
<1>1. /\ step = "read" /\ step' = "fresh" /\ disk' = evidence /\ UNCHANGED <<slice, report>>
      /\ cert' = [micro |-> MicroGrade(evidence), compiler |-> CompilerGrade(evidence),
                  kernel |-> KernelGrade(evidence.kernel),
                  art |-> evidence.kernel, level |-> 0, blockers |-> {}, faults |-> {}]
  BY DEF Read, CertSame
<1>2. evidence \in Evidence
  BY DisksAssumption DEF GradeInv, CertInv
<1>3. DOMAIN cert' = CertFields /\ cert'.art = disk'.kernel
  BY <1>1 DEF CertFields
<1>4. {cert'.micro, cert'.compiler, cert'.kernel} \subseteq Nat
  BY <1>1, <1>2, GradesAre
<1>5. CertInv'
  BY <1>1, <1>2, <1>3, <1>4 DEF CertInv, CertKnown
<1> QED BY <1>1, <1>5 DEF GradeInv, SliceInv, ReportInv, Before

LEMMA EditGrades == ASSUME GradeInv, NEW drifts \in BOOLEAN, EditSource(drifts) PROVE GradeInv'
<1>1. /\ step = "fresh" /\ UNCHANGED <<step, slice, report, cert>>
      /\ disk' = [disk EXCEPT !.kernel.edited = TRUE, !.kernel.drifted = @ \/ drifts]
  BY DEF EditSource
<1>2. disk \in Evidence
  BY DEF GradeInv, CertInv
<1>3. disk' \in Evidence /\ disk'.kernel.edited
  BY <1>1, <1>2 DEF Evidence, KernelArtifact
<1>4. CertInv'
  BY <1>1, <1>3 DEF GradeInv, CertInv, Stale, CertKnown
<1> QED BY <1>1, <1>4 DEF GradeInv, SliceInv, ReportInv

LEMMA CertifyGrades == ASSUME GradeInv, Certify PROVE GradeInv'
<1> DEFINE grades == {cert.micro, cert.compiler, cert.kernel, IntegrationGrade}
           level == CHOOSE g \in grades : \A k \in grades : g <= k
           blocked == (IF disk.micro = "no skill" THEN {"micro"} ELSE {})
             \cup (IF cert.art.state # "there" \/ ~IsFresh(disk.kernel) THEN {"kernel"} ELSE {})
             \cup (IF IntegrationGrade = 0 THEN {"integration"} ELSE {})
<1>1. /\ step = "fresh" /\ step' \in {"emit", "off"} /\ UNCHANGED <<slice, report, disk>>
      /\ cert' = [cert EXCEPT !.level = level, !.blockers = blocked,
                              !.faults = IF report = None THEN {} ELSE report.faults]
  BY DEF Certify, CertSame, fileVars
<1>2. DOMAIN cert = CertFields /\ grades \in SUBSET Nat /\ grades # {}
  BY <1>1 DEF GradeInv, CertInv, IntegrationGrade
<1>3. level \in grades /\ \A k \in grades : level <= k
  <2> HIDE DEF grades
  <2>1. \E g \in grades : \A k \in grades : g <= k
    BY <1>2, LeastNatural
  <2> QED BY <2>1
<1> HIDE DEF level, blocked
<1>4. /\ cert'.level = level /\ cert'.blockers = blocked /\ cert'.art = cert.art
      /\ cert'.faults = IF report = None THEN {} ELSE report.faults
  BY <1>1, <1>2 DEF CertFields
<1>5. ASSUME level > 0 PROVE cert'.faults \subseteq Harmless
  <2>1. IntegrationGrade # 0
    BY <1>2, <1>3, <1>5
  <2>2. report # None /\ \A g \in DOMAIN report.gates : report.gates[g]
    BY <2>1 DEF IntegrationGrade
  <2> QED BY <1>4, <2>2 DEF GradeInv, ReportInv
<1>6. Stale(cert.art) => "kernel" \in blocked
  BY <1>1 DEF GradeInv, CertInv, IsFresh, blocked
<1>7. CertInv'
  BY <1>1, <1>4, <1>5, <1>6 DEF GradeInv, CertInv, CertKnown
<1> QED BY <1>1, <1>7 DEF GradeInv, SliceInv, ReportInv, Before

LEMMA CallingGrades == ASSUME GradeInv, ComputerInv, Calling PROVE Passes \/ Begins
<1>1. ASSUME NEW inp \in Inputs, NEW most, CommandLine(inp, most) PROVE Begins
  <2>1. step = "off" /\ UNCHANGED <<report, cert, disk>>
    BY <1>1 DEF CommandLine, Computer, Free, fileVars, ComputerInv, ControlInv
  <2>2. slice' = NoSlice /\ step' = "probe micro"
    BY <1>1 DEF CommandLine, Begin, FirstStep
  <2> QED BY <2>1, <2>2 DEF Begins
<1>2. ASSUME NEW most, Import(most) PROVE Passes
  BY <1>2 DEF Import, Computer, fileVars, Passes
<1>3. ASSUME NEW inp, NEW what \in DOMAIN FirstStep, LibraryCall(what, inp) PROVE Begins
  <2>1. FirstStep[what] # "fresh"
    <3>1. what \in {"pipeline", "micro", "compiler", "kernel", "slice", "certify"}
      BY DEF FirstStep
    <3>2. /\ FirstStep["pipeline"] = "probe micro" /\ FirstStep["micro"] = "probe micro"
          /\ FirstStep["compiler"] = "probe compiler" /\ FirstStep["kernel"] = "probe kernel"
          /\ FirstStep["slice"] = "lower" /\ FirstStep["certify"] = "read"
      BY DEF FirstStep
    <3> QED BY <3>1, <3>2
  <2> QED BY <1>3, <2>1 DEF LibraryCall, Begin, Begins, fileVars
<1>4. CASE Exit
  BY <1>4 DEF Exit, Passes, Before, fileVars
<1>5. ASSUME NEW n, Fork("copy", n) \/ Switch(n) \/ Intervene(n, "tight") PROVE Passes
  BY <1>5 DEF Fork, Switch, Intervene, Passes, fileVars
<1> QED BY <1>1, <1>2, <1>3, <1>4, <1>5 DEF Calling

LEMMA ProbingGrades ==
  ASSUME Probing \/ \E fails : ProbeKernel(fails) PROVE Passes
<1> USE DEF ProbeSame, fileVars, Done, Before, Passes
<1>1. ASSUME NEW fails, ProbeMicro(fails) PROVE Passes
  BY <1>1 DEF ProbeMicro
<1>2. ASSUME NEW fails, ProbeCompiler(fails) PROVE Passes
  BY <1>2 DEF ProbeCompiler
<1>3. CASE Search
  BY <1>3 DEF Search, computerVars
<1>4. CASE EndSearch
  BY <1>4 DEF EndSearch
<1>5. ASSUME NEW fails, ProbeKernel(fails) PROVE Passes
  BY <1>5 DEF ProbeKernel
<1> QED BY <1>1, <1>2, <1>3, <1>4, <1>5 DEF Probing

\* What a leg puts down as a fault it puts down as a problem too.
LEMMA GatherGrades ==
  ASSUME GradeInv, NEW u, NEW n, NEW problems, NEW faults, Gather(u, n, problems, faults),
         faults \subseteq problems \cap Faults, SliceSame,
         step # "fresh", step' # "fresh", step' \notin Before
  PROVE  Gathers
<1>1. DOMAIN slice = DOMAIN NoSlice
  BY DEF GradeInv, SliceInv
<1>2. /\ slice'.problems = slice.problems \cup problems /\ slice'.faults = slice.faults \cup faults
      /\ DOMAIN slice' = DOMAIN NoSlice
  BY <1>1 DEF Gather, NoSlice
<1> QED BY <1>2 DEF Gathers, SliceSame, fileVars

LEMMA CpuLegGrades ==
  ASSUME GradeInv, NEW leg \in {"vmicro", "vmarch"}, NEW u, NEW n, NEW draw,
         NEW bad \in AtMostOne({Conservation, Equivalence}), CpuLeg(leg, u, n, draw, bad), SliceSame,
         step # "fresh", step' # "fresh", step' \notin Before
  PROVE  Gathers
<1> DEFINE wrong == \/ Equivalence \in bad
                    \/ \E s \in S.seeds, m \in S.ns : Prefix(draw[s], m) \notin Right[m]
           problems == {Problem(leg, k) : k \in (bad \ {Equivalence}) \cup (IF wrong THEN {Equivalence} ELSE {})}
           faults == {Problem(leg, k) : k \in bad}
<1>1. Gather(u, n, problems, faults)
  BY DEF CpuLeg
<1>2. bad \subseteq (bad \ {Equivalence}) \cup (IF wrong THEN {Equivalence} ELSE {})
  OBVIOUS
<1> HIDE DEF wrong
<1>3. faults \subseteq problems
  BY <1>2
<1>4. bad \subseteq {Conservation, Equivalence}
  BY DEF AtMostOne
<1>5. faults \subseteq Faults
  BY <1>4 DEF Faults
<1> HIDE DEF problems, faults
<1> QED BY <1>1, <1>3, <1>5, GatherGrades

LEMMA SlicingGrades == ASSUME GradeInv, Slicing PROVE GradeInv'
<1> USE DEF Before
<1>1. CASE LowerAll
  BY <1>1, LowerGrades
<1>2. CASE StubViews
  <2>1. /\ step = "views" /\ step' = "in order" /\ UNCHANGED <<report, cert, disk>>
        /\ slice' = [slice EXCEPT !.runs["compiler"] = 2,
                        !.views = {[preset |-> "O0", config |-> InitialConfig],
                                   [preset |-> "O3", config |-> LowView]}]
    BY <1>2 DEF StubViews, SliceSame, fileVars
  <2>2. /\ slice'.problems = slice.problems /\ slice'.faults = slice.faults
        /\ DOMAIN slice' = DOMAIN NoSlice
    BY <2>1 DEF GradeInv, SliceInv, NoSlice
  <2>3. Gathers
    <3>1. /\ slice'.problems = slice.problems \cup {} /\ slice'.faults = slice.faults \cup {}
          /\ {} \subseteq {} \cap Faults
      BY <2>2
    <3>2. step # "fresh" /\ step' # "fresh" /\ step' \notin Before
      BY <2>1 DEF Before
    <3> QED BY <2>1, <2>2, <3>1, <3>2, Zenon DEF Gathers
  <2> QED BY <2>3, GathersKeep
<1>3. ASSUME NEW draw, NEW bad \in AtMostOne({Conservation, Equivalence}),
             step \in {"in order", "out of order"}, InOrderLeg(draw, bad) \/ OutOfOrderLeg(draw, bad)
      PROVE  GradeInv'
  <2>1. step # "fresh" /\ step' # "fresh" /\ step' \notin Before /\ SliceSame
    BY <1>3 DEF InOrderLeg, OutOfOrderLeg, Raise
  <2>2. CASE UNCHANGED slice
    <3>1. Passes
      BY <2>1, <2>2 DEF SliceSame, fileVars, Passes
    <3> QED BY <3>1, PassesKeep
  <2>3. CASE slice' # slice
    <3>1. \E leg \in {"vmicro", "vmarch"} : \E u, n : CpuLeg(leg, u, n, draw, bad)
      BY <1>3, <2>3 DEF InOrderLeg, OutOfOrderLeg
    <3> QED BY <2>1, <3>1, CpuLegGrades, GathersKeep
  <2> QED BY <2>2, <2>3
<1>4. ASSUME NEW differs, Rerun(differs) PROVE GradeInv'
  <2> DEFINE bad == IF differs THEN {Problem("vmicro", "determinism")} ELSE {}
  <2>1. step = "rerun" /\ step' = "loads" /\ SliceSame /\ Gather("micro", 4, bad, bad)
    BY <1>4 DEF Rerun
  <2>2. bad \subseteq bad \cap Faults
    BY DEF Faults
  <2> HIDE DEF bad
  <2> QED BY <2>1, <2>2, GatherGrades, GathersKeep
<1>5. ASSUME NEW lat, NEW rate, LoadsLeg(lat, rate) PROVE GradeInv'
  <2>1. step = "loads" /\ step' = "score" /\ SliceSame /\ \E n, problems : Gather("kernel", n, problems, {})
    BY <1>5 DEF LoadsLeg
  <2> QED BY <2>1, GatherGrades, GathersKeep
<1>6. CASE Score
  BY <1>6, GatherGrades, GathersKeep DEF Score
<1>7. CASE Fails
  <2>1. Passes
    BY <1>7 DEF Fails, SliceSame, fileVars, Raise, Passes
  <2> QED BY <2>1, PassesKeep
<1>8. CASE Charge
  BY <1>8, ChargeGrades
<1> QED BY <1>1, <1>2, <1>3, <1>4, <1>5, <1>6, <1>7, <1>8 DEF Slicing

LEMMA GradeStep == ASSUME GradeInv, ComputerInv, [ComputerNext]_allVars PROVE GradeInv'
<1>1. CASE Calling
  BY <1>1, CallingGrades, PassesKeep, BeginsKeep
<1>2. CASE Probing \/ \E fails \in {"no", "at once", "late"} : ProbeKernel(fails)
  BY <1>2, ProbingGrades, PassesKeep
<1>3. CASE Slicing
  BY <1>3, SlicingGrades
<1>4. CASE Certifying
  <2>1. CASE Emit
    <3>1. Passes
      BY <2>1 DEF Emit, CertSame, Passes, Before
    <3> QED BY <3>1, PassesKeep
  <2> QED BY <1>4, <2>1, ReadGrades, EditGrades, CertifyGrades DEF Certifying
<1>5. CASE (CompilerNext /\ UNCHANGED computerVars) \/ KernelProgram \/ DriftProgram \/ UNCHANGED allVars
  <2>1. Passes
    BY <1>5 DEF KernelProgram, DriftProgram, Alone, allVars, computerVars, fileVars, Passes
  <2> QED BY <2>1, PassesKeep
<1> QED BY <1>1, <1>2, <1>3, <1>4, <1>5 DEF ComputerNext

\* What the gates can see lets no grade through: whatever went wrong in the legs of the
\* slice, which evidence lay on the disk and whoever edited it meanwhile, a level above 0
\* rests on a slice with right results on both CPUs, a second CPU that conserved its
\* instructions and a rerun that agreed, and kernel evidence that was stale when it was
\* read is among the blockers.  (Of the first CPU's conservation no gate can tell.)
THEOREM GradesAreEarned == ComputerSpec => []CertificateIsSound
<1>1. ComputerInit => ComputerInv /\ GradeInv
  <2>1. ASSUME ComputerInit PROVE GradeInv
    <3>1. NoSlice.faults = {} /\ NoDisk \in Evidence
      BY DEF NoSlice, NoDisk, Evidence, KernelArtifact
    <3> QED BY <2>1, <3>1 DEF ComputerInit, GradeInv, SliceInv, ReportInv, CertInv, CertKnown
  <2>2. ComputerInit => ComputerInv
    BY DEF ComputerInit, ComputerInv, CountInv, ControlInv, ChargeInv, PaidInv, NoUse, NoSlice, Early,
           Grading
  <2> QED BY <2>1, <2>2
<1>2. ComputerInv /\ GradeInv /\ [ComputerNext]_allVars => (ComputerInv /\ GradeInv)'
  BY ComputerStep, GradeStep
<1>3. GradeInv => CertificateIsSound
  <2>1. Harmless \cap Gated = {}
    BY DEF Harmless, Gated, Problem, Conservation, Equivalence
  <2> QED BY <2>1 DEF GradeInv, CertInv, CertKnown, CertificateIsSound
<1> QED BY <1>1, <1>2, <1>3, PTL DEF ComputerSpec

-----------------------------------------------------------------------------
(* Phantom spends.                                                         *)

\* The probe's search is a surrogate's screen of one branch, and takes its view before it
\* is done, if its budget allows one.
SearchInv ==
  step = "search" =>
    /\ DOMAIN job = DOMAIN NoJob /\ cmd = "surrogate" /\ used \in Nat
    /\ input \in Inputs /\ budget = input.compiler /\ budget \in Nat
    /\ at \in {"start", "rank", "validate", "done", "idle"}
    /\ at = "start" => used = 0 /\ branches[current].config.source = {}
    /\ at = "rank" => used = 0 /\ job.arm = "surrogate" /\ IsFiniteSet(job.kids) /\ job.kids # {}
    /\ at = "validate" => job.arm = "surrogate" /\ (used = 0 /\ budget # 0 => job.todo # <<>>)
    /\ at \in {"done", "idle"} => used >= 1 \/ budget = 0

\* What the exact calls of a unit, and the probes that could make none, allow to charge.
Covers(u) == exact[u] + Unseen(u)

\* Every unit in the ledger is covered; while a slice is at work so was what it will charge.
PhantomInv ==
  /\ exact \in [Counts -> Nat]
  /\ NoPhantomSpends
  /\ step \in Early => \A u \in UnitSet : ledger[u] + slice.runs[u] <= Covers(u)
  /\ step = "charge" =>
       \A k \in slice.charged + 1 .. 4 : ledger[Units[k]] + slice.runs[Units[k]] <= Covers(Units[k])

LEMMA StubIsFact == ASSUME NEW n PROVE StubFact(n) # Lost /\ StubFact(n).ok /\ StubFact(n).rt # 0
  BY DEF StubFact, StubTime, Fact, Lost

LEMMA ProbeSearches ==
  ASSUME ComputerInv, NEW fails \in BOOLEAN, ProbeCompiler(fails) PROVE SearchInv'
<1>1. step = "probe compiler" /\ input \in Inputs
  BY DEF ComputerInv, ControlInv, ProbeCompiler
<1>2. CASE fails
  BY <1>2 DEF ProbeCompiler, Done, SearchInv
<1>3. CASE ~fails
  <2>1. /\ at' = "start" /\ cmd' = "surrogate" /\ used' = 0 /\ budget' = input.compiler
        /\ current' = PresetName(O3) /\ job' = NoJob
        /\ branches' = [n \in {Root, ForkName(1), PresetName(O3)} |->
               IF n = PresetName(O3) THEN NewBranch(Apply(InitialConfig, O3), ForkName(1))
               ELSE NewBranch(InitialConfig, IF n = Root THEN Nowhere ELSE Root)]
    BY <1>3 DEF ProbeCompiler, Fresh3
  <2>2. budget' \in Nat /\ UNCHANGED input
    BY <1>1, <1>3, <2>1, ProbeAssumption DEF ProbeCompiler, ProbeSame, callVars
  <2>3. branches'[current'] = NewBranch(Apply(InitialConfig, O3), ForkName(1))
    BY <2>1
  <2>4. branches'[current'].config = Apply(InitialConfig, O3)
    BY <2>3, NewFields
  <2>5. Apply(InitialConfig, O3).source = {}
    BY DEF Apply, InitialConfig, O3
  <2> QED BY <1>1, <2>1, <2>2, <2>4, <2>5 DEF SearchInv
<1> QED BY <1>2, <1>3

LEMMA SearchExpands ==
  ASSUME SearchInv, step = "search", at = "start", NEW acts \in Tried, Expand(acts), UNCHANGED <<step, input>>
  PROVE  SearchInv'
<1> DEFINE kids == Names(Arm, current, acts)
<1>1. Arm = "surrogate" /\ acts = SearchSpace
  BY DEF SearchInv, Arm, Tried
<1>2. /\ DOMAIN job = DOMAIN NoJob /\ used = 0
      /\ job' = [job EXCEPT !.arm = Arm, !.round = @ + 1, !.base = current, !.kids = kids,
                            !.made = kids, !.done = {}, !.best = current, !.rt = Facts(current).rt]
      /\ at' = "rank" /\ UNCHANGED <<cmd, used, budget>>
  BY DEF Expand, SearchInv
<1>3. Expandable(current, acts) = SearchSpace
  BY <1>1 DEF Expandable, Applicable, SearchInv
<1>4. IsFiniteSet(kids) /\ kids # {}
  <2>1. kids = {UniqueName("surrogate", a) : a \in SearchSpace}
    BY <1>1, <1>3 DEF Names
  <2> HIDE DEF kids
  <2>2. IsFiniteSet({UniqueName("surrogate", a) : a \in SearchSpace})
    BY SearchAssumption, FiniteNames
  <2> QED BY <2>1, <2>2, SearchAssumption
<1> HIDE DEF kids
<1>5. DOMAIN job' = DOMAIN NoJob /\ job'.arm = "surrogate" /\ job'.kids = kids
  BY <1>1, <1>2 DEF NoJob
<1> QED BY <1>2, <1>4, <1>5 DEF SearchInv

LEMMA SearchRanks ==
  ASSUME SearchInv, step = "search", at = "rank", NEW s \in Shortlists, Rank(s), UNCHANGED <<step, input>>
  PROVE  SearchInv'
<1>1. /\ job.arm = "surrogate" /\ IsFiniteSet(job.kids) /\ job.kids # {} /\ used = 0
      /\ DOMAIN job = DOMAIN NoJob
  BY DEF SearchInv
<1>2. Cardinality(job.kids) \in Nat /\ Cardinality(job.kids) # 0
  BY <1>1, FS_CardinalityType, FS_EmptySet
<1>3. Fewest(1) = 1
  BY <1>2 DEF Fewest
<1>4. s \in Orders(job.kids, 1)
  BY <1>1, <1>3 DEF Shortlists, Lengths
<1>5. s # <<>>
  BY <1>4 DEF Orders
<1>6. job' = [job EXCEPT !.todo = s] /\ at' = "validate" /\ UNCHANGED <<cmd, used, budget>>
  BY DEF Rank, envVars
<1>7. job'.todo = s /\ job'.arm = job.arm /\ DOMAIN job' = DOMAIN NoJob
  BY <1>1, <1>6 DEF NoJob
<1> QED BY <1>1, <1>5, <1>6, <1>7 DEF SearchInv

LEMMA SearchKeeps == ASSUME SearchInv, Search PROVE SearchInv'
<1>1. step = "search" /\ UNCHANGED <<step, input>>
  BY DEF Search, computerVars, callVars
<1>2. ASSUME NEW acts \in Tried, at = "start", Expand(acts) PROVE SearchInv'
  BY <1>1, <1>2, SearchExpands
<1>3. ASSUME NEW s \in Shortlists, at = "rank", Rank(s) PROVE SearchInv'
  BY <1>1, <1>3, SearchRanks
<1>4. CASE at = "validate" /\ job.todo # <<>> /\ ValidateNext(StubFact(Head(job.todo)))
  <2>1. used' = used + 1 /\ UNCHANGED <<at, cmd, budget>>
    BY <1>4 DEF ValidateNext, Measure
  <2>2. DOMAIN job' = DOMAIN job /\ job'.arm = job.arm
    BY <1>1, <1>4 DEF ValidateNext, SearchInv, NoJob
  <2> QED BY <1>1, <1>4, <2>1, <2>2 DEF SearchInv
<1>5. CASE PassOver
  <2>1. /\ at = "validate" /\ (~Left \/ Vetoed(Head(job.todo)))
        /\ job' = [job EXCEPT !.todo = Tail(@)] /\ UNCHANGED <<at, cmd, used, budget>>
    BY <1>5 DEF PassOver, envVars
  <2>2. used >= 1 \/ budget = 0
    BY <1>1, <2>1 DEF SearchInv, Left, Vetoed
  <2>3. DOMAIN job' = DOMAIN job /\ job'.arm = job.arm
    BY <1>1, <2>1 DEF SearchInv, NoJob
  <2> QED BY <1>1, <2>1, <2>2, <2>3 DEF SearchInv
<1>6. CASE EndScreen
  <2>1. at = "validate" /\ (job.todo = <<>> \/ Enough) /\ at' = "done" /\ UNCHANGED <<job, cmd, used, budget>>
    BY <1>6 DEF EndScreen, Ranked
  <2> QED BY <1>1, <2>1 DEF SearchInv, Enough
<1>7. CASE Return
  BY <1>1, <1>7 DEF Return, envVars, SearchInv
<1> QED BY <1>2, <1>3, <1>4, <1>5, <1>6, <1>7 DEF Search

\* Outside the search only the probe begins one.
LEMMA SearchStep ==
  ASSUME ComputerInv, SearchInv, [ComputerNext]_allVars PROVE SearchInv'
<1>1. CASE Calling
  <2>1. step' # "search"
    <3>1. CASE \E inp, most : CommandLine(inp, most)
      BY <3>1 DEF CommandLine, Begin, FirstStep
    <3>2. CASE \E most : Import(most)
      BY <3>2 DEF Import, Computer, Free, ComputerInv, ControlInv
    <3>3. ASSUME NEW inp, NEW what \in DOMAIN FirstStep, LibraryCall(what, inp) PROVE step' # "search"
      <4>1. FirstStep[what] # "search"
        <5>1. what \in {"pipeline", "micro", "compiler", "kernel", "slice", "certify"}
          BY DEF FirstStep
        <5>2. /\ FirstStep["pipeline"] = "probe micro" /\ FirstStep["micro"] = "probe micro"
              /\ FirstStep["compiler"] = "probe compiler" /\ FirstStep["kernel"] = "probe kernel"
              /\ FirstStep["slice"] = "lower" /\ FirstStep["certify"] = "read"
          BY DEF FirstStep
        <5> QED BY <5>1, <5>2
      <4> QED BY <3>3, <4>1 DEF LibraryCall, Begin
    <3>4. CASE Exit \/ \E n \in DOMAIN worlds : Fork("copy", n) \/ Switch(n) \/ Intervene(n, "tight")
      BY <3>4 DEF Exit, Fork, Switch, Intervene
    <3> QED BY <1>1, <3>1, <3>2, <3>3, <3>4 DEF Calling
  <2> QED BY <2>1 DEF SearchInv
<1>2. CASE Search
  BY <1>2, SearchKeeps
<1>3. ASSUME NEW fails \in BOOLEAN, ProbeCompiler(fails) PROVE SearchInv'
  BY <1>3, ProbeSearches
<1>4. CASE EndSearch \/ \E fails : ProbeMicro(fails) \/ ProbeKernel(fails)
  <2>1. step' # "search"
    BY <1>4 DEF EndSearch, ProbeMicro, ProbeKernel, Done
  <2> QED BY <2>1 DEF SearchInv
<1>5. CASE Slicing
  <2>1. step' # "search"
    BY <1>5 DEF Slicing, LowerAll, StubViews, InOrderLeg, OutOfOrderLeg, Rerun, LoadsLeg, Score, Fails,
                Charge, Raise
  <2> QED BY <2>1 DEF SearchInv
<1>6. CASE Certifying
  <2>1. step' # "search"
    BY <1>6 DEF Certifying, Read, Certify, Emit, EditSource
  <2> QED BY <2>1 DEF SearchInv
<1>7. CASE caller = "nobody" /\ CompilerNext /\ UNCHANGED computerVars
  <2>1. step' # "search"
    BY <1>7 DEF computerVars, ComputerInv, ControlInv
  <2> QED BY <2>1 DEF SearchInv
<1>8. CASE KernelProgram \/ DriftProgram \/ UNCHANGED allVars
  <2>1. UNCHANGED <<step, input, branches, current, budget, used, at, cmd, job>>
    BY <1>8 DEF KernelProgram, DriftProgram, Alone, allVars, computerVars, callVars, vars, envVars, taskVars
  <2> QED BY <2>1 DEF SearchInv
<1> QED BY <1>1, <1>2, <1>3, <1>4, <1>5, <1>6, <1>7, <1>8 DEF ComputerNext, Probing

\* What a step may do to the two counts.
SparesBoth ==
  /\ UNCHANGED <<ledger, exact>> /\ slice'.runs \in [UnitSet -> Nat]
  /\ \/ step' \notin Early \cup {"charge"}
     \/ slice' = NoSlice /\ step' # "charge"
     \/ /\ slice'.runs = slice.runs /\ slice'.charged = slice.charged
        /\ step' = step \/ {step, step'} \subseteq Early
ResetsBoth == ledger' = NoUse /\ exact' = NoCalls /\ slice' = NoSlice /\ step' # "charge"
ProbesOne ==
  /\ step \in Early /\ step' # "charge" /\ UNCHANGED slice
  /\ ledger' \in [UnitSet -> Nat]
  /\ exact' \in [Counts -> Nat]
  /\ \E u \in UnitSet, n \in Nat :
       /\ \A v \in UnitSet : Covers(v)' = IF v = u THEN Covers(v) + n ELSE Covers(v)
       /\ \A v \in UnitSet : ledger'[v] <= IF v = u THEN ledger[v] + n ELSE ledger[v]
GathersOne ==
  /\ step \in Early /\ UNCHANGED ledger /\ slice'.charged = slice.charged
  /\ slice'.runs \in [UnitSet -> Nat]
  /\ \E u \in UnitSet, n \in Nat :
       /\ exact' = [exact EXCEPT ![u] = @ + n]
       /\ \A v \in UnitSet : slice'.runs[v] <= IF v = u THEN slice.runs[v] + n ELSE slice.runs[v]

\* Two counts move at once, at the end of a search.
LEMMA BothCount ==
  ASSUME NEW e \in [Counts -> Nat], NEW a \in Nat, NEW b \in Nat
  PROVE  [e EXCEPT !["compiler"] = @ + a, !["unseen"] = @ + b] \in [Counts -> Nat]
<1> DEFINE g == [e EXCEPT !["compiler"] = @ + a, !["unseen"] = @ + b]
<1>1. \A v \in Counts : e[v] \in Nat
  OBVIOUS
<1>2. \A v \in Counts : g[v] \in {e[v], e[v] + a, e[v] + b, e[v] + a + b}
  BY DEF Counts
<1>3. \A v \in Counts : g[v] \in Nat
  <2> SUFFICES ASSUME NEW v \in Counts PROVE g[v] \in Nat
    OBVIOUS
  <2> HIDE DEF g
  <2>1. e[v] \in Nat /\ g[v] \in {e[v], e[v] + a, e[v] + b, e[v] + a + b}
    BY <1>1, <1>2
  <2> QED BY <2>1
<1>4. DOMAIN g = Counts /\ g = [v \in DOMAIN g |-> g[v]]
  OBVIOUS
<1> HIDE DEF g
<1>5. g \in [Counts -> Nat]
  BY <1>3, <1>4
<1> QED BY <1>5 DEF g

LEMMA CountsAre ==
  ASSUME ComputerInv, PhantomInv
  PROVE  /\ \A u \in UnitSet : ledger[u] \in Nat /\ Covers(u) \in Nat /\ slice.runs[u] \in Nat
         /\ ledger \in [UnitSet -> Nat] /\ exact \in [Counts -> Nat]
  BY DEF ComputerInv, CountInv, PhantomInv, Covers, Unseen, Counts

LEMMA CoversAre ==
  ASSUME exact \in [Counts -> Nat]
  PROVE  /\ exact' = exact => \A u \in UnitSet : Covers(u)' = Covers(u)
         /\ NoPhantomSpends <=> \A u \in UnitSet : ledger[u] <= Covers(u)
         /\ NoPhantomSpends' <=> \A u \in UnitSet : ledger'[u] <= Covers(u)'
  BY DEF Covers, Unseen, NoPhantomSpends

\* A run of one unit covers as many charges of that unit.
LEMMA RunsCover ==
  ASSUME exact \in [Counts -> Nat], NEW u \in UnitSet, NEW n \in Nat, exact' = [exact EXCEPT ![u] = @ + n]
  PROVE  /\ exact' \in [Counts -> Nat]
         /\ \A v \in UnitSet : Covers(v)' = IF v = u THEN Covers(v) + n ELSE Covers(v)
<1>1. u \in Counts /\ exact' \in [Counts -> Nat]
  BY DEF Counts
<1>2. \A v \in Counts : exact'[v] = IF v = u THEN exact[v] + n ELSE exact[v]
  BY <1>1
<1>3. UnitSet \subseteq Counts /\ "unseen" \in Counts /\ u # "unseen"
  BY UnitFacts DEF Counts
<1>4. \A v \in Counts : exact[v] \in Nat /\ exact'[v] \in Nat
  BY <1>1
<1>5. exact'["unseen"] = exact["unseen"]
  BY <1>2, <1>3
<1>6. ASSUME NEW v \in UnitSet PROVE Covers(v)' = IF v = u THEN Covers(v) + n ELSE Covers(v)
  BY <1>2, <1>3, <1>4, <1>5 DEF Covers, Unseen
<1> QED BY <1>1, <1>6

LEMMA SparesKeep == ASSUME ComputerInv, PhantomInv, SparesBoth PROVE PhantomInv'
<1>0. \A u \in UnitSet : Covers(u)' = Covers(u)
  BY CoversAre DEF PhantomInv, SparesBoth
<1>1. exact' \in [Counts -> Nat] /\ NoPhantomSpends'
  BY <1>0, CoversAre DEF PhantomInv, SparesBoth
<1>2. CASE step' \notin Early \cup {"charge"}
  BY <1>1, <1>2 DEF PhantomInv
<1>3. CASE slice' = NoSlice /\ step' # "charge"
  <2>1. \A u \in UnitSet : slice'.runs[u] = 0
    BY <1>3 DEF NoSlice, NoUse
  <2>2. \A u \in UnitSet : ledger'[u] + slice'.runs[u] <= Covers(u)'
    BY <1>0, <2>1, CountsAre, CoversAre DEF PhantomInv, SparesBoth
  <2> QED BY <1>1, <1>3, <2>2 DEF PhantomInv
<1>4. CASE /\ slice'.runs = slice.runs /\ slice'.charged = slice.charged
           /\ step' = step \/ {step, step'} \subseteq Early
  <2>1. "charge" \notin Early
    BY DEF Early
  <2>2. step = "charge" => \A k \in slice.charged + 1 .. 4 : Units[k] \in UnitSet
    BY UnitFacts DEF ComputerInv, ChargeInv
  <2> QED BY <1>0, <1>1, <1>4, <2>1, <2>2 DEF PhantomInv, SparesBoth
<1> QED BY <1>2, <1>3, <1>4 DEF SparesBoth

LEMMA ResetsKeep == ASSUME ResetsBoth PROVE PhantomInv'
<1>1. \A u \in UnitSet : NoUse[u] = 0 /\ NoSlice.runs[u] = 0 /\ NoCalls[u] = 0 /\ NoCalls["unseen"] = 0
  BY DEF NoUse, NoSlice, NoCalls, Counts
<1>2. exact' \in [Counts -> Nat]
  BY DEF NoCalls, ResetsBoth
<1>3. \A u \in UnitSet : Covers(u)' = 0
  BY <1>1 DEF ResetsBoth, Covers, Unseen
<1>4. \A u \in UnitSet : ledger'[u] <= Covers(u)' /\ ledger'[u] + slice'.runs[u] <= Covers(u)'
  BY <1>1, <1>3 DEF ResetsBoth
<1>5. NoPhantomSpends'
  BY <1>4 DEF NoPhantomSpends, Covers
<1> QED BY <1>2, <1>4, <1>5 DEF PhantomInv, ResetsBoth

LEMMA ProbesKeep == ASSUME ComputerInv, PhantomInv, ProbesOne PROVE PhantomInv'
<1>1. PICK u \in UnitSet, n \in Nat :
        /\ \A v \in UnitSet : Covers(v)' = IF v = u THEN Covers(v) + n ELSE Covers(v)
        /\ \A v \in UnitSet : ledger'[v] <= IF v = u THEN ledger[v] + n ELSE ledger[v]
  BY DEF ProbesOne
<1>3. \A v \in UnitSet : ledger[v] + slice.runs[v] <= Covers(v)
  BY DEF ProbesOne, PhantomInv
<1>5. \A v \in UnitSet : ledger'[v] \in Nat /\ slice.runs[v] \in Nat
  BY CountsAre DEF ProbesOne
<1>4. \A v \in UnitSet : ledger'[v] + slice.runs[v] <= Covers(v)'
  BY <1>1, <1>3, <1>5, CountsAre
<1>7. \A v \in UnitSet : Covers(v)' \in Nat
  BY <1>1, CountsAre
<1>6. \A v \in UnitSet : ledger'[v] <= Covers(v)'
  BY <1>4, <1>5, <1>7
<1>8. NoPhantomSpends'
  BY <1>6 DEF NoPhantomSpends, Covers
<1> QED BY <1>4, <1>8 DEF PhantomInv, ProbesOne

LEMMA GathersKeepCounts == ASSUME ComputerInv, PhantomInv, GathersOne PROVE PhantomInv'
<1>1. PICK u \in UnitSet, n \in Nat :
        /\ exact' = [exact EXCEPT ![u] = @ + n]
        /\ \A v \in UnitSet : slice'.runs[v] <= IF v = u THEN slice.runs[v] + n ELSE slice.runs[v]
  BY DEF GathersOne
<1>2. exact \in [Counts -> Nat]
  BY CountsAre
<1>3. \A v \in UnitSet : ledger[v] + slice.runs[v] <= Covers(v)
  BY DEF GathersOne, PhantomInv
<1>4. /\ exact' \in [Counts -> Nat]
      /\ \A v \in UnitSet : Covers(v)' = IF v = u THEN Covers(v) + n ELSE Covers(v)
  BY <1>1, <1>2, RunsCover
<1>5. \A v \in UnitSet : slice'.runs[v] \in Nat
  BY DEF GathersOne
<1>6. \A v \in UnitSet : ledger'[v] + slice'.runs[v] <= Covers(v)' /\ ledger'[v] <= Covers(v)'
  BY <1>1, <1>3, <1>4, <1>5, CountsAre DEF GathersOne
<1>7. slice'.charged = 0
  BY DEF GathersOne, ComputerInv, ChargeInv
<1>8. NoPhantomSpends'
  BY <1>6 DEF NoPhantomSpends, Covers
<1> QED BY <1>4, <1>6, <1>7, <1>8, UnitFacts DEF PhantomInv

LEMMA ChargeCounts == ASSUME ComputerInv, PhantomInv, Charge PROVE PhantomInv'
<1> DEFINE u == Units[slice.charged + 1]
<1>1. step = "charge" /\ slice.charged \in 0 .. 3 /\ u \in UnitSet /\ UNCHANGED exact
  BY UnitFacts DEF ComputerInv, ChargeInv, Charge
<1>2. CASE ~CanSpend(u, slice.runs[u])
  <2>1. step' \in {"over", "off"} /\ UNCHANGED <<ledger, slice>>
    BY <1>2 DEF Charge, Raise
  <2>2. SparesBoth
    BY <1>1, <2>1 DEF SparesBoth, Early, ComputerInv, CountInv
  <2> QED BY <2>2, SparesKeep
<1>3. CASE CanSpend(u, slice.runs[u])
  <2> HIDE DEF u
  <2>1. ledger' = [ledger EXCEPT ![u] = @ + slice.runs[u]]
    BY <1>3 DEF Charge, Spend, u
  <2>2. slice'.runs = slice.runs /\ slice'.charged = slice.charged + 1
    BY <1>1, <1>3, ChargePays DEF u
  <2>3. step' \in {"read", "off", "charge"}
    BY <1>1, <1>3 DEF Charge, u
  <2>4. ledger[u] + slice.runs[u] <= Covers(u)
    BY <1>1 DEF PhantomInv, u
  <2>8. \A v \in UnitSet : Covers(v)' = Covers(v)
    BY <1>1, CountsAre, CoversAre
  <2>9. \A v \in UnitSet : ledger[v] <= Covers(v)
    BY CoversAre, CountsAre DEF PhantomInv
  <2>10. \A v \in UnitSet : ledger'[v] <= Covers(v)'
    BY <1>1, <2>1, <2>4, <2>8, <2>9, CountsAre
  <2>5. NoPhantomSpends'
    BY <2>10 DEF NoPhantomSpends, Covers
  <2>6. \A k \in slice'.charged + 1 .. 4 : Units[k] # u /\ Units[k] \in UnitSet
    <3>1. /\ Units[1] = "compiler" /\ Units[2] = "micro" /\ Units[3] = "vmarch" /\ Units[4] = "kernel"
      BY DEF Units
    <3>2. \A k \in slice.charged + 2 .. 4 : k \in 1 .. 4 /\ k > slice.charged + 1
      BY <1>1
    <3>3. \A j, k \in 1 .. 4 : j < k => Units[j] # Units[k]
      BY <3>1
    <3> QED BY <1>1, <2>2, <3>2, <3>3, UnitFacts DEF u
  <2>7. \A k \in slice'.charged + 1 .. 4 : ledger'[Units[k]] + slice'.runs[Units[k]] <= Covers(Units[k])'
    <3>1. \A k \in slice'.charged + 1 .. 4 : k \in slice.charged + 1 .. 4
      BY <1>1, <2>2
    <3> QED BY <1>1, <2>1, <2>2, <2>6, <2>8, <3>1, CountsAre DEF PhantomInv
  <2> QED BY <1>1, <2>3, <2>5, <2>7, CountsAre DEF PhantomInv, Early
<1> QED BY <1>2, <1>3

AnyProbe == Probing \/ \E fails \in {"no", "at once", "late"} : ProbeKernel(fails)

LEMMA ProbingCounts ==
  ASSUME ComputerInv, SearchInv, PhantomInv, AnyProbe
  PROVE  SparesBoth \/ ProbesOne
<1>a. {"compiler", "micro", "kernel"} \subseteq UnitSet
  BY UnitFacts
<1>b. 2 * ProbeSteps \in Nat /\ 2 * ProbeSteps <= 2 * ProbeSteps
  BY ArmsCount
<1>0. ASSUME NEW u \in UnitSet, NEW n \in Nat, NEW m \in Nat, m <= n, NEW layer, NEW ok, step \in Early,
             step' # "charge", UNCHANGED slice, exact' \in [Counts -> Nat], ChargeProbe(layer, u, m, ok),
             \A v \in UnitSet : Covers(v)' = IF v = u THEN Covers(v) + n ELSE Covers(v)
      PROVE  ProbesOne
  <2>2. CASE CanSpend(u, m)
    <3>1. ledger' = [ledger EXCEPT ![u] = @ + m]
      BY <1>0, <2>2 DEF ChargeProbe, Spend
    <3>2. ledger' \in [UnitSet -> Nat]
      BY <1>0, <3>1, CountsAre
    <3>3. \A v \in UnitSet : ledger'[v] <= IF v = u THEN ledger[v] + n ELSE ledger[v]
      BY <1>0, <3>1, CountsAre
    <3> QED BY <1>0, <3>2, <3>3 DEF ProbesOne
  <2>3. CASE ~CanSpend(u, m)
    <3>1. UNCHANGED ledger
      BY <1>0, <2>3 DEF ChargeProbe
    <3>2. \A v \in UnitSet : ledger'[v] <= IF v = u THEN ledger[v] + n ELSE ledger[v]
      BY <1>0, <3>1, CountsAre
    <3> QED BY <1>0, <3>1, <3>2, CountsAre DEF ProbesOne
  <2> QED BY <2>2, <2>3
<1>6. ASSUME NEW u \in UnitSet, NEW n \in Nat, Ran(u, n)
      PROVE  /\ exact' \in [Counts -> Nat]
             /\ \A v \in UnitSet : Covers(v)' = IF v = u THEN Covers(v) + n ELSE Covers(v)
  <2>1. exact' = [exact EXCEPT ![u] = @ + n] /\ exact \in [Counts -> Nat]
    BY <1>6, CountsAre DEF Ran
  <2> QED BY <2>1, RunsCover
<1>1. ASSUME NEW fails \in BOOLEAN, ProbeMicro(fails) PROVE SparesBoth \/ ProbesOne
  <2>1. step' \in {"probe compiler", "off"} /\ step = "probe micro" /\ UNCHANGED slice
    BY <1>1 DEF ProbeMicro, Done, ProbeSame
  <2>2. CASE fails
    BY <1>1, <2>1, <2>2 DEF ProbeMicro, SparesBoth, Early, ComputerInv, CountInv
  <2>3. CASE ~fails
    <3> DEFINE n == IF input.micro < Beam THEN input.micro ELSE Beam
    <3>1. n \in Nat
      BY <2>1, ProbeAssumption DEF ComputerInv, ControlInv
    <3>2. Ran("micro", 1 + n) /\ ChargeProbe("micro", "micro", 1, input.micro > 0)
      BY <1>1, <2>3 DEF ProbeMicro
    <3> HIDE DEF n
    <3>3. 1 + n \in Nat /\ 1 <= 1 + n /\ 1 \in Nat
      BY <3>1
    <3>4. step \in Early /\ step' # "charge"
      BY <2>1 DEF Early
    <3>5. "micro" \in UnitSet
      BY <1>a
    <3>6. /\ exact' \in [Counts -> Nat]
          /\ \A v \in UnitSet : Covers(v)' = IF v = "micro" THEN Covers(v) + (1 + n) ELSE Covers(v)
      BY <1>6, <3>2, <3>3, <3>5
    <3> QED BY <1>0, <2>1, <3>2, <3>3, <3>4, <3>5, <3>6
  <2> QED BY <2>2, <2>3
<1>2. ASSUME NEW fails \in BOOLEAN, ProbeCompiler(fails) PROVE SparesBoth
  <2>1. step' \in {"search", "probe kernel", "off"} /\ step = "probe compiler"
    BY <1>2 DEF ProbeCompiler, Done
  <2> QED BY <1>2, <2>1 DEF ProbeCompiler, SparesBoth, Early, ProbeSame, ComputerInv, CountInv
<1>3. CASE Search
  BY <1>3 DEF Search, SparesBoth, computerVars, ComputerInv, CountInv
<1>4. CASE EndSearch
  <2>1. step' \in {"probe kernel", "off"} /\ step = "search" /\ UNCHANGED slice
    BY <1>4 DEF EndSearch, Done, ProbeSame
  <2> DEFINE m == IF input.compiler = 0 THEN 1 ELSE 0
  <2>0. /\ used \in Nat /\ budget = input.compiler /\ (used >= 1 \/ budget = 0)
        /\ (input.compiler = 0 => m = 1) /\ m \in {0, 1}
    BY <1>4, <2>1 DEF EndSearch, SearchInv
  <2>3. step \in Early /\ step' # "charge"
    BY <2>1 DEF Early
  <2>4. /\ exact' = [exact EXCEPT !["compiler"] = @ + used, !["unseen"] = @ + m]
        /\ ChargeProbe("compiler", "compiler", 1, TRUE)
    BY <1>4 DEF EndSearch
  <2> HIDE DEF m
  <2>2. m \in Nat /\ used \in Nat /\ used + m \in Nat /\ 1 <= used + m /\ 1 \in Nat
    BY <2>0
  <2>5. exact \in [Counts -> Nat] /\ "compiler" \in UnitSet /\ "unseen" \notin UnitSet
    BY <1>a, CountsAre, UnitFacts
  <2>6. exact' \in [Counts -> Nat]
    BY <2>2, <2>4, <2>5, BothCount
  <2>7. \A v \in Counts : exact'[v] = IF v = "compiler" THEN exact[v] + used
                                     ELSE IF v = "unseen" THEN exact[v] + m ELSE exact[v]
    BY <2>4, <2>5
  <2>8. UnitSet \subseteq Counts /\ "unseen" \in Counts /\ \A v \in Counts : exact[v] \in Nat
    BY <2>5 DEF Counts
  <2>9. ASSUME NEW v \in UnitSet
        PROVE  Covers(v)' = IF v = "compiler" THEN Covers(v) + (used + m) ELSE Covers(v)
    <3>1. exact'["unseen"] = exact["unseen"] + m
      BY <2>7, <2>8
    <3>2. exact'[v] = IF v = "compiler" THEN exact[v] + used ELSE exact[v]
      BY <2>5, <2>7, <2>8
    <3>3. exact[v] \in Nat /\ exact["unseen"] \in Nat
      BY <2>8
    <3> QED BY <2>2, <3>1, <3>2, <3>3 DEF Covers, Unseen
  <2> QED BY <1>0, <2>1, <2>2, <2>3, <2>4, <2>5, <2>6, <2>9
<1>5. ASSUME NEW fails \in {"no", "at once", "late"}, ProbeKernel(fails) PROVE SparesBoth \/ ProbesOne
  <2>1. step' \in {"lower", "off"} /\ step = "probe kernel" /\ UNCHANGED slice
    BY <1>5 DEF ProbeKernel, Done, ProbeSame
  <2>2. CASE fails = "at once"
    BY <1>5, <2>1, <2>2 DEF ProbeKernel, SparesBoth, Early, ComputerInv, CountInv
  <2>3. CASE fails # "at once"
    <3> DEFINE n == 2 * ProbeSteps
    <3>1. n \in Nat /\ n <= n
      BY <1>b
    <3>2. Ran("kernel", n) /\ ChargeProbe("kernel", "kernel", n, fails = "no")
      BY <1>5, <2>3 DEF ProbeKernel
    <3> HIDE DEF n
    <3>3. step \in Early /\ step' # "charge"
      BY <2>1 DEF Early
    <3>4. "kernel" \in UnitSet
      BY <1>a
    <3>5. /\ exact' \in [Counts -> Nat]
          /\ \A v \in UnitSet : Covers(v)' = IF v = "kernel" THEN Covers(v) + n ELSE Covers(v)
      BY <1>6, <3>1, <3>2, <3>4
    <3> QED BY <1>0, <2>1, <3>1, <3>2, <3>3, <3>4, <3>5
  <2> QED BY <2>2, <2>3
<1> QED BY <1>1, <1>2, <1>3, <1>4, <1>5 DEF AnyProbe, Probing

\* A leg counts for the charge what it counts as run.
LEMMA GatherBoth ==
  ASSUME ComputerInv, PhantomInv, NEW u \in UnitSet, NEW n \in Nat, NEW problems, NEW faults,
         Gather(u, n, problems, faults), step \in Early, SliceSame
  PROVE  GathersOne
<1>1. /\ slice.runs \in [UnitSet -> Nat] /\ {"runs", "charged"} \subseteq DOMAIN slice
      /\ exact' = [exact EXCEPT ![u] = @ + n] /\ UNCHANGED ledger
  BY DEF ComputerInv, CountInv, Gather, Ran, SliceSame
<1>2. slice'.runs = [slice.runs EXCEPT ![u] = @ + n] /\ slice'.charged = slice.charged
  BY <1>1 DEF Gather, Counted
<1>3. \A v \in UnitSet : slice'.runs[v] <= IF v = u THEN slice.runs[v] + n ELSE slice.runs[v]
  BY <1>1, <1>2
<1>4. slice'.runs \in [UnitSet -> Nat]
  BY <1>1, <1>2
<1> QED BY <1>1, <1>2, <1>3, <1>4 DEF GathersOne

LEMMA SlicingCounts ==
  ASSUME ComputerInv, PhantomInv, Slicing, ~Charge
  PROVE  SparesBoth \/ GathersOne
<1> USE UnitFacts DEF Early
<1>1. CASE LowerAll
  <2>1. slice'.runs = slice.runs /\ slice'.charged = slice.charged
    BY <1>1 DEF LowerAll, ComputerInv, CountInv
  <2>2. step = "lower" /\ step' \in {"views", "over", "off"}
    BY <1>1 DEF LowerAll, Raise
  <2> QED BY <1>1, <2>1, <2>2 DEF LowerAll, SparesBoth, SliceSame, ComputerInv, CountInv
<1>2. CASE StubViews
  <2>1. /\ slice.runs \in [UnitSet -> Nat] /\ {"runs", "charged"} \subseteq DOMAIN slice
        /\ exact' = [exact EXCEPT !["compiler"] = @ + 2] /\ UNCHANGED ledger
    BY <1>2 DEF ComputerInv, CountInv, StubViews, Ran, SliceSame
  <2>2. slice'.runs = [slice.runs EXCEPT !["compiler"] = 2] /\ slice'.charged = slice.charged
    BY <1>2, <2>1 DEF StubViews
  <2>3. \A v \in UnitSet : slice'.runs[v] <= IF v = "compiler" THEN slice.runs[v] + 2 ELSE slice.runs[v]
    BY <2>1, <2>2
  <2>4. slice'.runs \in [UnitSet -> Nat]
    BY <2>1, <2>2
  <2>5. step = "views"
    BY <1>2 DEF StubViews
  <2> QED BY <2>1, <2>2, <2>3, <2>4, <2>5 DEF GathersOne
<1>3. ASSUME NEW draw, NEW bad, InOrderLeg(draw, bad) PROVE GathersOne
  <2> DEFINE n == 2 * Cardinality(S.seeds) * Cardinality(S.ns) * Cardinality(S.controls)
  <2>1. step = "in order" /\ SliceSame /\ CpuLeg("vmicro", "micro", n, draw, bad)
    BY <1>3 DEF InOrderLeg
  <2>2. n \in Nat
    BY <2>1, Factorial, NatProducts
  <2> HIDE DEF n
  <2>3. \E problems, faults : Gather("micro", n, problems, faults)
    BY <2>1 DEF CpuLeg
  <2> QED BY <2>1, <2>2, <2>3, GatherBoth
<1>4. ASSUME NEW draw, NEW bad, OutOfOrderLeg(draw, bad) PROVE GathersOne
  <2> DEFINE n == 2 * Cardinality(S.seeds) * Cardinality(S.ns)
  <2>1. step = "out of order" /\ SliceSame
    BY <1>4 DEF OutOfOrderLeg
  <2>2. n \in Nat
    BY <2>1, Factorial, NatProducts
  <2>3. CASE "balanced" \in S.controls
    <3>1. CpuLeg("vmarch", "vmarch", n, draw, bad)
      BY <1>4, <2>3 DEF OutOfOrderLeg
    <3> HIDE DEF n
    <3>2. \E problems, faults : Gather("vmarch", n, problems, faults)
      BY <3>1 DEF CpuLeg
    <3> QED BY <2>1, <2>2, <3>2, GatherBoth
  <2>4. CASE "balanced" \notin S.controls
    <3>1. exact' = [exact EXCEPT !["vmarch"] = @ + 2] /\ UNCHANGED <<slice, ledger>>
      BY <1>4, <2>4 DEF OutOfOrderLeg, Ran, SliceSame
    <3>2. \A v \in UnitSet : slice'.runs[v] <= IF v = "vmarch" THEN slice.runs[v] + 2 ELSE slice.runs[v]
      BY <3>1, CountsAre
    <3>3. slice'.runs \in [UnitSet -> Nat]
      BY <3>1 DEF ComputerInv, CountInv
    <3> QED BY <2>1, <3>1, <3>2, <3>3 DEF GathersOne
  <2> QED BY <2>3, <2>4
<1>5. ASSUME NEW differs, Rerun(differs) PROVE GathersOne
  BY <1>5, GatherBoth DEF Rerun
<1>6. ASSUME NEW lat, NEW rate, LoadsLeg(lat, rate) PROVE GathersOne
  <2> DEFINE n == 4 * Cardinality(S.seeds) * Cardinality(S.ns) * Cardinality(S.gains) * S.steps
  <2>1. step = "loads" /\ SliceSame /\ \E problems, faults : Gather("kernel", n, problems, faults)
    BY <1>6 DEF LoadsLeg
  <2>2. n \in Nat
    BY <2>1, Factorial, NatProducts
  <2> HIDE DEF n
  <2> QED BY <2>1, <2>2, GatherBoth
<1>7. CASE Score
  <2>1. TrainSteps \in Nat
    BY ProbeAssumption
  <2> QED BY <1>7, <2>1, GatherBoth DEF Score
<1>8. CASE Fails
  <2>1. step' \in {"over", "off"}
    BY <1>8 DEF Fails, Raise
  <2> QED BY <1>8, <2>1 DEF Fails, SparesBoth, SliceSame, ComputerInv, CountInv
<1> QED BY <1>1, <1>2, <1>3, <1>4, <1>5, <1>6, <1>7, <1>8 DEF Slicing

LEMMA CallingCounts ==
  ASSUME ComputerInv, PhantomInv, Calling PROVE SparesBoth \/ ResetsBoth
<1>0. NoSlice.runs \in [UnitSet -> Nat] /\ slice.runs \in [UnitSet -> Nat]
  BY DEF NoSlice, NoUse, ComputerInv, CountInv
<1>1. ASSUME NEW inp \in Inputs, NEW most, CommandLine(inp, most) PROVE ResetsBoth
  BY <1>1 DEF CommandLine, Begin, FirstStep, ResetsBoth
<1>2. ASSUME NEW most, Import(most) PROVE SparesBoth
  BY <1>0, <1>2 DEF Import, SparesBoth
<1>3. ASSUME NEW inp, NEW what \in DOMAIN FirstStep, LibraryCall(what, inp) PROVE SparesBoth \/ ResetsBoth
  <2>1. FirstStep[what] # "charge"
    <3>1. what \in {"pipeline", "micro", "compiler", "kernel", "slice", "certify"}
      BY DEF FirstStep
    <3>2. /\ FirstStep["pipeline"] = "probe micro" /\ FirstStep["micro"] = "probe micro"
          /\ FirstStep["compiler"] = "probe compiler" /\ FirstStep["kernel"] = "probe kernel"
          /\ FirstStep["slice"] = "lower" /\ FirstStep["certify"] = "read"
      BY DEF FirstStep
    <3> QED BY <3>1, <3>2
  <2>2. step' = FirstStep[what] /\ slice' = NoSlice
        /\ ((ledger' = NoUse /\ exact' = NoCalls) \/ UNCHANGED <<ledger, exact>>)
    BY <1>3 DEF LibraryCall, Begin
  <2> QED BY <1>0, <2>1, <2>2 DEF SparesBoth, ResetsBoth
<1>4. CASE Exit
  BY <1>0, <1>4 DEF Exit, SparesBoth, Early
<1>5. ASSUME NEW n, Fork("copy", n) \/ Switch(n) \/ Intervene(n, "tight") PROVE SparesBoth
  BY <1>0, <1>5 DEF Fork, Switch, Intervene, SparesBoth
<1> QED BY <1>1, <1>2, <1>3, <1>4, <1>5 DEF Calling

LEMMA PhantomStep ==
  ASSUME ComputerInv, SearchInv, PhantomInv, [ComputerNext]_allVars PROVE PhantomInv'
<1>1. CASE Calling
  BY <1>1, CallingCounts, SparesKeep, ResetsKeep
<1>2. CASE AnyProbe
  BY <1>2, ProbingCounts, SparesKeep, ProbesKeep
<1>3. CASE Slicing
  BY <1>3, SlicingCounts, SparesKeep, GathersKeepCounts, ChargeCounts
<1>4. CASE Certifying
  <2>1. slice.runs \in [UnitSet -> Nat]
    BY DEF ComputerInv, CountInv
  <2>2. SparesBoth
    BY <1>4, <2>1 DEF Certifying, Read, Certify, Emit, EditSource, CertSame, SparesBoth, Early
  <2> QED BY <2>2, SparesKeep
<1>5. CASE (CompilerNext /\ UNCHANGED computerVars) \/ KernelProgram \/ DriftProgram \/ UNCHANGED allVars
  <2>1. slice.runs \in [UnitSet -> Nat]
    BY DEF ComputerInv, CountInv
  <2>2. SparesBoth
    BY <1>5, <2>1 DEF KernelProgram, DriftProgram, Alone, allVars, computerVars, SparesBoth
  <2> QED BY <2>2, SparesKeep
<1> QED BY <1>1, <1>2, <1>3, <1>4, <1>5 DEF ComputerNext, AnyProbe

\* The ledger tells of no call nobody made but one view for every compiler probe that may
\* take none (computer.py:238 against :22): whatever fails, is refused or is repeated.
THEOREM SpendsAreReal == ComputerSpec => []NoPhantomSpends
<1> DEFINE All == ComputerInv /\ SearchInv /\ PhantomInv
<1>1. ComputerInit => All
  <2>1. ComputerInit => ComputerInv
    BY DEF ComputerInit, ComputerInv, CountInv, ControlInv, ChargeInv, PaidInv, NoUse, NoSlice, Early,
           Grading
  <2>2. ComputerInit => SearchInv /\ PhantomInv
    BY DEF ComputerInit, SearchInv, PhantomInv, NoPhantomSpends, NoUse, NoCalls, Counts, Unseen, Early
  <2> QED BY <2>1, <2>2
<1>2. All /\ [ComputerNext]_allVars => All'
  BY ComputerStep, SearchStep, PhantomStep
<1>3. All => NoPhantomSpends
  BY DEF PhantomInv
<1> QED BY <1>1, <1>2, <1>3, PTL DEF ComputerSpec

-----------------------------------------------------------------------------
(* The branches of the environments in the computer.                       *)

\* Between its calls, and in all its calls but the search of the probe, no strategy of the
\* compiler is at work.
AtInv == caller # "nobody" /\ step # "search" => at = "idle"

LEMMA StubMeasurable == \A n : Measurable(StubFact(n))
  BY DEF Measurable, StubFact, StubTime, Fact

LEMMA SearchWorld == ASSUME WorldInv, Search PROVE WorldInv'
<1>1. CASE Return
  BY <1>1, WorkWorld DEF Work
<1> QED BY <1>1, ExpandWorld, RankWorld, StubMeasurable, ValidateWorld, PassWorld, ScreenWorld DEF Search

\* Names that are told apart by what was asked for, or by their numbers.
LEMMA NamesDiffer ==
  /\ Root # Nowhere /\ \A k : ForkName(k) # Nowhere /\ ForkName(k) # Root
  /\ \A a : PresetName(a) # Nowhere /\ PresetName(a) # Root
  /\ \A k, a : PresetName(a) # ForkName(k)
  /\ ForkName(1) # ForkName(2) /\ PresetName(O0) # PresetName(O3)
<1>1. /\ Root.by = "root" /\ Nowhere.by = "nowhere" /\ \A k : ForkName(k).by = "branch"
      /\ \A a : PresetName(a).by = "perturb"
  BY DEF Root, Nowhere, ForkName, PresetName, Name
<1>2. ForkName(1).no = 1 /\ ForkName(2).no = 2
  BY DEF ForkName, Name
<1>3. PresetName(O0).act = O0 /\ PresetName(O3).act = O3 /\ O0.arg # O3.arg
  BY DEF PresetName, Name, O0, O3
<1> QED BY <1>1, <1>2, <1>3

LEMMA FewAreFinite ==
  /\ \A a, b, c : IsFiniteSet({a, b, c})
  /\ \A a, b, c, d, e : IsFiniteSet({a, b, c, d, e})
<1>1. \A T, x : IsFiniteSet(T) => IsFiniteSet(T \cup {x})
  BY FS_AddElement
<1>2. \A a : IsFiniteSet({a})
  BY FS_Singleton
<1>3. \A a, b, c : IsFiniteSet({a, b, c})
  <2> SUFFICES ASSUME NEW a, NEW b, NEW c PROVE IsFiniteSet({a, b, c})
    OBVIOUS
  <2>1. IsFiniteSet({a} \cup {b})
    BY <1>1, <1>2
  <2>2. IsFiniteSet(({a} \cup {b}) \cup {c}) /\ ({a} \cup {b}) \cup {c} = {a, b, c}
    BY <1>1, <2>1
  <2> QED BY <2>2
<1>4. \A a, b, c, d, e : IsFiniteSet({a, b, c, d, e})
  <2> SUFFICES ASSUME NEW a, NEW b, NEW c, NEW d, NEW e PROVE IsFiniteSet({a, b, c, d, e})
    OBVIOUS
  <2>1. IsFiniteSet({a, b, c} \cup {d})
    BY <1>1, <1>3
  <2>2. /\ IsFiniteSet(({a, b, c} \cup {d}) \cup {e})
        /\ ({a, b, c} \cup {d}) \cup {e} = {a, b, c, d, e}
    BY <1>1, <2>1
  <2> QED BY <2>2
<1> QED BY <1>3, <1>4

LEMMA NewIsWhole ==
  \A c, p : /\ DOMAIN NewBranch(c, p) = Fields /\ NewBranch(c, p).fact.rt \in Nat
            /\ NewBranch(c, p).parent = p
  BY DEF NewBranch, Fields, Unmeasured

LEMMA ProbeWorld == ASSUME WorldInv, NEW fails \in BOOLEAN, ProbeCompiler(fails) PROVE WorldInv'
<1>1. CASE fails
  <2>1. UNCHANGED <<branches, current, saved, at, job>>
    BY <1>1 DEF ProbeCompiler, envVars
  <2> QED BY <2>1, WorldStays
<1>2. CASE ~fails
  <2> DEFINE F == ForkName(1)
             P == PresetName(O3)
             low == NewBranch(Apply(InitialConfig, O3), ForkName(1))
  <2>1. /\ branches' = [n \in {Root, F, P} |->
               IF n = P THEN low ELSE NewBranch(InitialConfig, IF n = Root THEN Nowhere ELSE Root)]
        /\ current' = P /\ at' = "start" /\ job' = NoJob /\ UNCHANGED saved
    BY <1>2 DEF ProbeCompiler
  <2>2. F # Root /\ P # Root /\ P # F /\ Root # Nowhere /\ F # Nowhere /\ P # Nowhere
    BY NamesDiffer
  <2>3. DOMAIN low = Fields /\ low.fact.rt \in Nat /\ low.parent = F
    BY NewIsWhole
  <2>4. IsFiniteSet({Root, F, P})
    BY FewAreFinite
  <2> HIDE DEF F, P, low
  <2>5. /\ branches'[P] = low /\ branches'[F] = NewBranch(InitialConfig, Root)
        /\ branches'[Root] = NewBranch(InitialConfig, Nowhere) /\ DOMAIN branches' = {Root, F, P}
    BY <2>1, <2>2
  <2>6. /\ DOMAIN branches'[F] = Fields /\ branches'[F].fact.rt \in Nat /\ branches'[F].parent = Root
        /\ DOMAIN branches'[Root] = Fields /\ branches'[Root].fact.rt \in Nat
        /\ branches'[Root].parent = Nowhere
    BY <2>5, NewIsWhole
  <2>7. Whole(branches', current')
    BY <2>1, <2>2, <2>3, <2>4, <2>5, <2>6 DEF Whole
  <2> QED BY <2>1, <2>7, SettlesKeeps, FileKept DEF Settles
<1> QED BY <1>1, <1>2

\* The environment of the slice is one path from the root.
LEMMA ViewsWorld == ASSUME WorldInv, at = "idle", StubViews PROVE WorldInv'
<1> DEFINE V == Range(ViewPath)
           pos(n) == CHOOSE k \in 1 .. 5 : ViewPath[k] = n
<1>1. /\ branches' = [n \in V |-> Viewed(pos(n))] /\ current' = PresetName(O3)
      /\ UNCHANGED <<saved, at, job>>
  BY DEF StubViews, taskVars
<1>2. /\ ViewPath[1] = Root /\ ViewPath[2] = ForkName(1) /\ ViewPath[3] = PresetName(O0)
      /\ ViewPath[4] = ForkName(2) /\ ViewPath[5] = PresetName(O3)
  BY DEF ViewPath
<1>3. DOMAIN ViewPath = 1 .. 5
  BY DEF ViewPath
<1>4. V = {ViewPath[k] : k \in 1 .. 5}
  BY <1>3 DEF Range
<1>5. V = {Root, ForkName(1), PresetName(O0), ForkName(2), PresetName(O3)}
  <2>1. 1 .. 5 = {1, 2, 3, 4, 5}
    OBVIOUS
  <2>2. V = {ViewPath[k] : k \in {1, 2, 3, 4, 5}}
    BY <1>4, <2>1
  <2> QED BY <1>2, <2>2
<1>6. IsFiniteSet(V)
  <2>1. IsFiniteSet({Root, ForkName(1), PresetName(O0), ForkName(2), PresetName(O3)})
    BY FewAreFinite
  <2> HIDE DEF V
  <2> QED BY <1>5, <2>1
<1>7. Nowhere \notin V
  BY <1>5, NamesDiffer
<1>8. \A n \in V : pos(n) \in 1 .. 5 /\ ViewPath[pos(n)] = n
  BY <1>4
<1> HIDE DEF V, pos
<1>9. \A k \in 1 .. 5 : /\ DOMAIN Viewed(k) = Fields /\ Viewed(k).fact.rt \in Nat
                        /\ Viewed(k).parent = IF k = 1 THEN Nowhere ELSE ViewPath[k - 1]
  <2> SUFFICES ASSUME NEW k \in 1 .. 5
               PROVE  /\ DOMAIN Viewed(k) = Fields /\ Viewed(k).fact.rt \in Nat
                      /\ Viewed(k).parent = IF k = 1 THEN Nowhere ELSE ViewPath[k - 1]
    OBVIOUS
  <2> DEFINE p == IF k = 1 THEN Nowhere ELSE ViewPath[k - 1]
             made == NewBranch(ViewConfig[k], p)
             m == Fact(TRUE, StubTime(ViewConfig[k]))
  <2>1. Viewed(k) = IF k \in {2, 4} THEN [[made EXCEPT !.fact = m] EXCEPT !.bin = TRUE] ELSE made
    BY DEF Viewed
  <2>2. m.rt \in Nat
    BY DEF Fact, StubTime
  <2>3. DOMAIN made = Fields /\ made.fact.rt \in Nat /\ made.parent = p
    BY NewIsWhole
  <2> HIDE DEF p, made, m
  <2>4. DOMAIN Viewed(k) = Fields /\ Viewed(k).fact.rt \in Nat /\ Viewed(k).parent = p
    BY <2>1, <2>2, <2>3 DEF Fields
  <2> QED BY <2>4 DEF p
<1>10. \A n \in V : n = Root <=> pos(n) = 1
  <2>1. \A k \in 2 .. 5 : ViewPath[k] # Root
    BY <1>2, NamesDiffer
  <2>2. \A k \in 1 .. 5 : k = 1 \/ k \in 2 .. 5
    OBVIOUS
  <2>3. pos(Root) = 1
    BY <1>5, <1>8, <2>1, <2>2
  <2> QED BY <1>2, <1>8, <2>1, <2>2, <2>3
<1>11. \A n \in V : pos(n) # 1 => ViewPath[pos(n) - 1] \in V
  <2>1. \A k \in 1 .. 5 : k # 1 => k - 1 \in 1 .. 5
    OBVIOUS
  <2> QED BY <1>4, <1>8, <2>1
<1>12. Whole(branches', current')
  <2>1. DOMAIN branches' = V /\ {Root, current'} \subseteq V
    BY <1>1, <1>5
  <2>2. ASSUME NEW n \in V
        PROVE  /\ DOMAIN branches'[n] = Fields /\ branches'[n].fact.rt \in Nat
               /\ n = Root <=> branches'[n].parent = Nowhere
               /\ n # Root => branches'[n].parent \in V
    <3>1. branches'[n] = Viewed(pos(n)) /\ pos(n) \in 1 .. 5
      BY <1>1, <1>8
    <3>2. /\ DOMAIN branches'[n] = Fields /\ branches'[n].fact.rt \in Nat
          /\ branches'[n].parent = IF pos(n) = 1 THEN Nowhere ELSE ViewPath[pos(n) - 1]
      BY <1>9, <3>1
    <3> QED BY <1>7, <1>10, <1>11, <3>2
  <2> QED BY <1>6, <1>7, <2>1, <2>2 DEF Whole
<1>13. Settles
  BY <1>1 DEF WorldInv, RoundInv, Settles
<1> QED BY <1>1, <1>12, <1>13, SettlesKeeps, FileKept

\* What every other step of the computer does to the environment: nothing.
Apart ==
  /\ UNCHANGED <<branches, current, saved, at, job>>
  /\ AtInv => AtInv'

LEMMA WorldKept ==
  ASSUME ComputerInv, WorldInv, AtInv, [ComputerNext]_allVars
  PROVE  WorldInv' /\ AtInv'
<1> USE DEF envVars, taskVars, vars
<1>0. ASSUME Apart PROVE WorldInv' /\ AtInv'
  BY <1>0, WorldStays DEF Apart
<1>1. CASE caller = "nobody" /\ CompilerNext /\ UNCHANGED computerVars
  <2>1. caller' = "nobody"
    BY <1>1 DEF computerVars, callVars
  <2> QED BY <1>1, <2>1, WorldStep DEF AtInv
<1>2. CASE Search
  <2>1. step' = "search"
    BY <1>2 DEF Search, computerVars
  <2> QED BY <1>2, <2>1, SearchWorld DEF AtInv
<1>3. ASSUME NEW fails \in BOOLEAN, ProbeCompiler(fails) PROVE WorldInv' /\ AtInv'
  <2>1. step = "probe compiler" /\ caller' = caller /\ (step' = "search" \/ at' = at)
    BY <1>3 DEF ProbeCompiler, ProbeSame, callVars
  <2> QED BY <1>3, <2>1, ProbeWorld DEF AtInv
<1>4. CASE StubViews
  <2>1. step = "views" /\ caller' = caller /\ at' = at
    BY <1>4 DEF StubViews, SliceSame, callVars
  <2>2. at = "idle"
    BY <2>1, AtWork DEF AtInv
  <2> QED BY <1>4, <2>1, <2>2, ViewsWorld DEF AtInv
<1>5. CASE Calling
  <2>1. CASE \E inp, most : CommandLine(inp, most)
    BY <1>0, <2>1 DEF CommandLine, Computer, Free, Apart, AtInv
  <2>2. CASE \E most : Import(most)
    BY <1>0, <2>2 DEF Import, Computer, Free, Apart, AtInv
  <2>3. CASE \E what, inp : LibraryCall(what, inp)
    BY <1>0, <2>3 DEF LibraryCall, Apart, AtInv
  <2>4. CASE Exit \/ \E n \in DOMAIN worlds : Fork("copy", n) \/ Switch(n) \/ Intervene(n, "tight")
    BY <1>0, <2>4 DEF Exit, Fork, Switch, Intervene, Apart, AtInv
  <2> QED BY <1>5, <2>1, <2>2, <2>3, <2>4 DEF Calling
<1>6. CASE EndSearch \/ \E fails : ProbeMicro(fails) \/ ProbeKernel(fails)
  <2>1. /\ UNCHANGED <<branches, current, saved, at, job, caller>>
        /\ at = "idle" \/ step # "search"
    BY <1>6 DEF EndSearch, ProbeMicro, ProbeKernel, ProbeSame, EnvSame, callVars
  <2> QED BY <1>0, <2>1 DEF Apart, AtInv
<1>7. CASE Slicing /\ ~StubViews
  <2>1. UNCHANGED <<branches, current, saved, at, job, caller>> /\ step # "search"
    BY <1>7 DEF Slicing, LowerAll, InOrderLeg, OutOfOrderLeg, Rerun, LoadsLeg, Score, Fails, Charge,
                SliceSame, EnvSame, callVars
  <2> QED BY <1>0, <2>1 DEF Apart, AtInv
<1>8. CASE Certifying
  <2>1. UNCHANGED <<branches, current, saved, at, job, caller>> /\ step # "search"
    BY <1>8 DEF Certifying, Read, Certify, Emit, EditSource, CertSame, EnvSame, callVars
  <2> QED BY <1>0, <2>1 DEF Apart, AtInv
<1>9. CASE KernelProgram \/ DriftProgram \/ UNCHANGED allVars
  <2>1. UNCHANGED <<branches, current, saved, at, job, caller, step>>
    BY <1>9 DEF KernelProgram, DriftProgram, Alone, allVars, computerVars, callVars
  <2> QED BY <1>0, <2>1 DEF Apart, AtInv
<1> QED BY <1>1, <1>2, <1>3, <1>4, <1>5, <1>6, <1>7, <1>8, <1>9 DEF ComputerNext, Probing

LEMMA WorldsInvariance == ComputerSpec => []WorldInv
<1> DEFINE All == ComputerInv /\ WorldInv /\ AtInv
<1>1. ComputerInit => All
  <2>1. ComputerInit => ComputerInv
    BY DEF ComputerInit, ComputerInv, CountInv, ControlInv, ChargeInv, PaidInv, NoUse, NoSlice, Early,
           Grading
  <2>2. ComputerInit => AtInv
    BY DEF ComputerInit, AtInv
  <2> QED BY <2>1, <2>2, WorldInit DEF ComputerInit
<1>2. All /\ [ComputerNext]_allVars => All'
  BY ComputerStep, WorldKept
<1>3. All => WorldInv
  OBVIOUS
<1> QED BY <1>1, <1>2, <1>3, PTL DEF ComputerSpec

\* The environments of the probe and of the slice are whole too: every branch of theirs
\* leads back to the root.
THEOREM WorldsStayWhole == ComputerSpec => []LineageIntact
  BY WorldsInvariance, WorldIsWhole, PTL

\* The screen of the probe reports the fastest branch it measured as well.
THEOREM ProbeReportsFastest == ComputerSpec => []BestIsFastest
<1>1. WorldInv => BestIsFastest
  BY DEF WorldInv
<1> QED BY <1>1, WorldsInvariance, PTL

-----------------------------------------------------------------------------
(* The virtual kernel's futures.  What its states hold is the ensemble's   *)
(* affair, so a history is a sequence of no particular elements.           *)

AList(s) == \E T : s \in Seq(T)

LEMMA Lengthened ==
  ASSUME NEW s, AList(s), NEW x
  PROVE  /\ AList(Append(s, x)) /\ Len(s) \in Nat /\ Len(Append(s, x)) = Len(s) + 1
         /\ Append(s, x)[Len(s) + 1] = x
         /\ \A i \in 1 .. Len(s) : Append(s, x)[i] = s[i]
<1>1. PICK T : s \in Seq(T)
  BY DEF AList
<1> DEFINE U == T \cup {x}
<1>2. s \in Seq(U) /\ x \in U
  BY <1>1
<1>3. Append(s, x) \in Seq(U)
  BY <1>2
<1> QED BY <1>2, <1>3 DEF AList

LEMMA JoinedLength ==
  ASSUME NEW s, AList(s), NEW r, AList(r)
  PROVE  AList(s \o r) /\ Len(s) \in Nat /\ Len(r) \in Nat /\ Len(s \o r) = Len(s) + Len(r)
<1>1. PICK T : s \in Seq(T)
  BY DEF AList
<1>2. PICK R : r \in Seq(R)
  BY DEF AList
<1> DEFINE U == T \cup R
<1>3. s \in Seq(U) /\ r \in Seq(U)
  BY <1>1, <1>2
<1>4. s \o r \in Seq(U)
  BY <1>3
<1> QED BY <1>3, <1>4 DEF AList

LEMMA JoinedItems ==
  ASSUME NEW s, AList(s), NEW r, AList(r)
  PROVE  /\ \A i \in 1 .. Len(s) : (s \o r)[i] = s[i]
         /\ \A i \in 1 .. Len(r) : (s \o r)[Len(s) + i] = r[i]
<1>1. PICK T : s \in Seq(T)
  BY DEF AList
<1>2. PICK R : r \in Seq(R)
  BY DEF AList
<1> DEFINE U == T \cup R
<1>3. s \in Seq(U) /\ r \in Seq(U)
  BY <1>1, <1>2
<1>4. \A i \in 1 .. Len(r) : (s \o r)[Len(s) + i] = r[i]
  BY <1>3
<1> QED BY <1>3, <1>4

LEMMA Tabled ==
  ASSUME NEW h \in Nat, NEW X, NEW f \in [1 .. h -> X]
  PROVE  AList(f) /\ Len(f) = h
<1>1. f \in Seq(X)
  OBVIOUS
<1>2. Len(f) = h
  OBVIOUS
<1> QED BY <1>1, <1>2 DEF AList

\* From state to state one tick passes.
Ticking(s) == \A i \in 2 .. Len(s) : s[i].t = s[i - 1].t + 1

\* A future's state is the last of its history, which has one action for each step
\* and one tick from step to step.
OwnStory(f) ==
  /\ {"kir", "history", "actions"} \subseteq DOMAIN f
  /\ AList(f.history) /\ AList(f.actions)
  /\ Len(f.history) = Len(f.actions) + 1 /\ f.kir = f.history[Len(f.history)]
  /\ Ticking(f.history)

FutureInv == focus \in DOMAIN futures /\ \A n \in DOMAIN futures : OwnStory(futures[n])

\* It is enough to look at what a future holds.
LEMMA Story ==
  ASSUME NEW f, NEW h, NEW b, f.history = h, f.actions = b,
         {"kir", "history", "actions"} \subseteq DOMAIN f,
         AList(h), AList(b), Len(h) = Len(b) + 1, f.kir = h[Len(h)], Ticking(h)
  PROVE  OwnStory(f)
  BY DEF OwnStory

LEMMA NewStory ==
  ASSUME NEW kir
  PROVE  OwnStory(NewFuture(kir))
<1> DEFINE f == NewFuture(kir)
           h == <<kir>>
           b == <<>>
<1>1. f.kir = kir /\ f.history = h /\ f.actions = b
  BY DEF NewFuture
<1>2. {"kir", "history", "actions"} \subseteq DOMAIN f
  BY DEF NewFuture
<1>3. AList(h) /\ AList(b)
  <2>1. <<kir>> \in Seq({kir}) /\ <<>> \in Seq({kir})
    OBVIOUS
  <2> QED BY <2>1 DEF AList
<1>4. Len(h) = 1 /\ Len(b) = 0 /\ h[1] = kir
  OBVIOUS
<1> HIDE DEF f, h, b
<1>5. f.kir = h[Len(h)] /\ Len(h) = Len(b) + 1
  BY <1>1, <1>4
<1>6. Ticking(h)
  BY <1>4 DEF Ticking
<1>7. OwnStory(f)
  BY <1>1, <1>2, <1>3, <1>5, <1>6, Story
<1> QED BY <1>7 DEF f

\* A history that goes on.
LEMMA TickingOn ==
  ASSUME NEW s, AList(s), Len(s) >= 1, Ticking(s), NEW r, AList(r), Len(r) >= 1, Ticking(r),
         r[1].t = s[Len(s)].t + 1
  PROVE  Ticking(s \o r) /\ (s \o r)[Len(s \o r)] = r[Len(r)]
<1> DEFINE n == Len(s)
           h == s \o r
<1>1. /\ AList(h) /\ n \in Nat /\ Len(r) \in Nat /\ Len(h) = n + Len(r)
      /\ \A i \in 1 .. n : h[i] = s[i]
      /\ \A i \in 1 .. Len(r) : h[n + i] = r[i]
  <2>1. AList(s \o r) /\ Len(s) \in Nat /\ Len(r) \in Nat /\ Len(s \o r) = Len(s) + Len(r)
    BY JoinedLength
  <2>2. /\ \A i \in 1 .. Len(s) : (s \o r)[i] = s[i]
        /\ \A i \in 1 .. Len(r) : (s \o r)[Len(s) + i] = r[i]
    BY JoinedItems
  <2> QED BY <2>1, <2>2
<1>2. n >= 1 /\ r[1].t = s[n].t + 1
  OBVIOUS
<1> HIDE DEF n, h
<1>3. ASSUME NEW i \in 2 .. Len(h) PROVE h[i].t = h[i - 1].t + 1
  <2>1. CASE i <= n
    <3>1. i \in 2 .. n /\ i \in 1 .. n /\ i - 1 \in 1 .. n
      BY <1>1, <2>1
    <3>2. s[i].t = s[i - 1].t + 1
      BY <3>1 DEF Ticking, n
    <3> QED BY <1>1, <3>1, <3>2
  <2>2. CASE i = n + 1
    <3>1. h[n + 1] = r[1] /\ h[n] = s[n] /\ i - 1 = n
      BY <1>1, <1>2, <2>2
    <3> QED BY <3>1, <1>2, <2>2
  <2>3. CASE i > n + 1
    <3>1. PICK k \in 2 .. Len(r) : i = n + k
      <4>1. i - n \in 2 .. Len(r) /\ i = n + (i - n)
        BY <1>1, <2>3
      <4> QED BY <4>1
    <3>2. r[k].t = r[k - 1].t + 1
      BY DEF Ticking
    <3>3. h[n + k] = r[k] /\ h[n + (k - 1)] = r[k - 1] /\ i - 1 = n + (k - 1)
      BY <1>1, <3>1
    <3> QED BY <3>1, <3>2, <3>3
  <2> QED BY <1>1, <2>1, <2>2, <2>3
<1>4. h[Len(h)] = r[Len(r)]
  BY <1>1
<1>5. Ticking(h)
  BY <1>3 DEF Ticking
<1> QED BY <1>4, <1>5 DEF h

\* The analysis of the agents adds a whole trajectory.
LEMMA JoinedStory ==
  ASSUME NEW f, OwnStory(f), NEW kirs, AList(kirs), Len(kirs) = Horizon, Ticking(kirs),
         NEW acts, AList(acts), Len(acts) = Horizon, kirs[1].t = f.kir.t + 1
  PROVE  OwnStory([kir |-> kirs[Horizon], history |-> f.history \o kirs,
                   actions |-> f.actions \o acts])
<1> DEFINE h == f.history \o kirs
           b == f.actions \o acts
           g == [kir |-> kirs[Horizon], history |-> h, actions |-> b]
<1>1. Horizon \in Nat /\ Horizon >= 1
  BY KernelAssumption, SearchesAssumption
<1>2. /\ AList(f.history) /\ AList(f.actions) /\ Ticking(f.history)
      /\ Len(f.history) = Len(f.actions) + 1 /\ f.kir = f.history[Len(f.history)]
  BY DEF OwnStory
<1>3. AList(b) /\ Len(f.actions) \in Nat /\ Len(b) = Len(f.actions) + Len(acts)
  BY <1>2, JoinedLength
<1>4. Ticking(h) /\ AList(h) /\ Len(h) = Len(f.history) + Horizon /\ h[Len(h)] = kirs[Horizon]
  <2>1. AList(h) /\ Len(h) = Len(f.history) + Horizon
    BY <1>2, JoinedLength
  <2>2. Len(f.history) >= 1 /\ Len(kirs) >= 1
    BY <1>1, <1>2, <1>3
  <2>3. kirs[1].t = f.history[Len(f.history)].t + 1
    BY <1>2
  <2>4. Ticking(h) /\ h[Len(h)] = kirs[Len(kirs)]
    BY <1>2, <2>2, <2>3, TickingOn
  <2> QED BY <2>1, <2>4
<1>5. /\ {"kir", "history", "actions"} \subseteq DOMAIN g
      /\ g.kir = kirs[Horizon] /\ g.history = h /\ g.actions = b
  OBVIOUS
<1> HIDE DEF g, h, b
<1>6. Len(h) = Len(b) + 1
  BY <1>1, <1>2, <1>3, <1>4
<1>7. OwnStory(g)
  BY <1>3, <1>4, <1>5, <1>6, Story
<1> QED BY <1>7 DEF g, h, b

\* An intervention adds one state, one tick later, and one action.
LEMMA LongerStory ==
  ASSUME NEW f, OwnStory(f), NEW a, NEW kir, kir.t = f.kir.t + 1
  PROVE  OwnStory([Continued(f, a, kir) EXCEPT !.kir = kir])
<1> DEFINE g == [Continued(f, a, kir) EXCEPT !.kir = kir]
           h == Append(f.history, kir)
           b == Append(f.actions, a)
           n == Len(f.history)
<1>0. /\ AList(f.history) /\ AList(f.actions) /\ Ticking(f.history)
      /\ n = Len(f.actions) + 1 /\ f.kir = f.history[n]
  BY DEF OwnStory
<1>1. /\ {"kir", "history", "actions"} \subseteq DOMAIN g
      /\ g.kir = kir /\ g.history = h /\ g.actions = b
  BY DEF Continued, OwnStory
<1>2. /\ AList(h) /\ n \in Nat /\ Len(h) = n + 1 /\ h[n + 1] = kir
      /\ \A i \in 1 .. n : h[i] = f.history[i]
  BY <1>0, Lengthened
<1>3. AList(b) /\ Len(f.actions) \in Nat /\ Len(b) = Len(f.actions) + 1
  BY <1>0, Lengthened
<1>4. \A i \in 2 .. n : f.history[i].t = f.history[i - 1].t + 1
  BY <1>0 DEF Ticking
<1> HIDE DEF g, h, b, n
<1>5. ASSUME NEW i \in 2 .. Len(h) PROVE h[i].t = h[i - 1].t + 1
  <2>1. CASE i = n + 1
    <3>1. h[i] = kir /\ h[i - 1] = f.history[n]
      BY <1>0, <1>2, <1>3, <2>1
    <3> QED BY <3>1, <1>0
  <2>2. CASE i # n + 1
    <3>1. i \in 2 .. n /\ i \in 1 .. n /\ i - 1 \in 1 .. n
      BY <1>2, <2>2
    <3>2. h[i] = f.history[i] /\ h[i - 1] = f.history[i - 1]
      BY <1>2, <3>1
    <3> QED BY <1>4, <3>1, <3>2
  <2> QED BY <2>1, <2>2
<1>6. Len(h) = Len(b) + 1 /\ kir = h[Len(h)]
  BY <1>0, <1>2, <1>3
<1>7. Ticking(h)
  BY <1>5 DEF Ticking
<1>8. OwnStory(g)
  BY <1>1, <1>2, <1>3, <1>6, <1>7, Story
<1> QED BY <1>8 DEF g

LEMMA Overwritten ==
  ASSUME FutureInv, NEW name, NEW f, OwnStory(f), futures' = WithFuture(name, f), UNCHANGED focus
  PROVE  FutureInv'
  BY DEF FutureInv, WithFuture

LEMMA FuturesMove ==
  ASSUME FutureInv, Futures
  PROVE  FutureInv'
<1>1. ASSUME NEW n, NEW m \in DOMAIN futures, ForkFuture(n, m) PROVE FutureInv'
  <2>1. OwnStory(futures[m])
    BY DEF FutureInv
  <2> QED BY <1>1, <2>1, Overwritten DEF ForkFuture
<1>2. ASSUME NEW n \in DOMAIN futures, SwitchFuture(n) PROVE FutureInv'
  BY <1>2 DEF SwitchFuture, FutureInv
<1>3. ASSUME NEW n \in DOMAIN futures, NEW a, NEW k \in Predicted(futures[n].kir),
             InterveneFuture(n, a, k)
      PROVE  FutureInv'
  <2>1. k.t = futures[n].kir.t + 1
    BY DEF Predicted, Kir
  <2>2. OwnStory([Continued(futures[n], a, k) EXCEPT !.kir = k])
    BY <2>1, LongerStory DEF FutureInv
  <2>3. futures' = Intervened(n, a, k) /\ focus' = focus
    BY <1>3 DEF InterveneFuture
  <2>4. /\ DOMAIN futures' = DOMAIN futures
        /\ \A m \in DOMAIN futures :
             futures'[m] = IF m = n THEN [Continued(futures[n], a, k) EXCEPT !.kir = k] ELSE futures[m]
    BY <2>3 DEF Intervened, Touched
  <2> QED BY <2>2, <2>3, <2>4 DEF FutureInv
<1>4. ASSUME NEW n \in DOMAIN futures, NEW k, ResetFuture(n, k) PROVE FutureInv'
  <2>1. futures' = [futures EXCEPT ![n] = NewFuture(k)] /\ focus' = focus
    BY <1>4 DEF ResetFuture
  <2> QED BY <2>1, NewStory DEF FutureInv
<1> QED BY <1>1, <1>2, <1>3, <1>4 DEF Futures

LEMMA LabMoves ==
  ASSUME FutureInv, NEW s \in Screens, NEW X, NEW kirs \in [1 .. Horizon -> X], NEW v, Lab(s, kirs, v)
  PROVE  FutureInv'
<1> DEFINE f == futures[focus]
<1>0. Horizon \in Nat /\ Horizon >= 1 /\ BeamWidth \in Nat /\ BeamWidth >= 1
  BY KernelAssumption, SearchesAssumption
<1>1. OwnStory(f)
  BY DEF FutureInv
<1>2. s[1] \in [1 .. Horizon -> Arms]
  BY <1>0 DEF Screens, Sequences
<1>3. \A i \in 1 .. Horizon : kirs[i] \in Predicted(IF i = 1 THEN f.kir ELSE kirs[i - 1])
  BY DEF Lab
<1>4. \A x : \A k \in Predicted(x) : k.t = x.t + 1
  BY DEF Predicted, Kir
<1>5. kirs[1].t = f.kir.t + 1
  <2>1. 1 \in 1 .. Horizon
    BY <1>0
  <2> QED BY <1>3, <1>4, <2>1
<1>6. Ticking(kirs)
  <2>1. ASSUME NEW i \in 2 .. Horizon PROVE kirs[i].t = kirs[i - 1].t + 1
    <3>1. i \in 1 .. Horizon /\ i # 1
      BY <1>0
    <3> QED BY <1>3, <1>4, <3>1
  <2>2. Len(kirs) = Horizon
    BY <1>0, Tabled
  <2> QED BY <2>1, <2>2 DEF Ticking
<1>7. OwnStory([kir |-> kirs[Horizon], history |-> f.history \o kirs, actions |-> f.actions \o s[1]])
  <2>1. AList(kirs) /\ Len(kirs) = Horizon
    BY <1>0, Tabled
  <2>2. AList(s[1]) /\ Len(s[1]) = Horizon
    BY <1>0, <1>2, Tabled
  <2> QED BY <1>1, <1>5, <1>6, <2>1, <2>2, JoinedStory
<1>8. UNCHANGED focus /\ futures' = WithFuture("analysis",
        [kir |-> kirs[Horizon], history |-> f.history \o kirs, actions |-> f.actions \o s[1]])
  BY DEF Lab
<1> QED BY <1>7, <1>8, Overwritten

\* The ladder, the rest of the agents' work, active learning and the certification
\* look at futures and leave them as they are.
LEMMA OthersLook ==
  /\ Laddering \/ Learning \/ Assessing => UNCHANGED <<futures, focus>>
  /\ GroundNext \/ EndGround \/ EndLab \/ (\E veto \in BOOLEAN : Challenge(veto))
       => UNCHANGED <<futures, focus>>
  /\ \A s : Evaluate(futures[focus].kir, s) => UNCHANGED <<futures, focus>>
  /\ \A seed, n : ValidateFuture(seed, n) => UNCHANGED <<futures, focus>>
<1>1. Laddering => UNCHANGED <<futures, focus>>
  BY DEF Laddering, Ladder, ExactNext, EndExact, EndLadder, BeamRung, TreeRung, EnvironmentSame
<1>2. Learning => UNCHANGED <<futures, focus>>
  BY DEF Learning, Active, Probe, EndActive, RankProbes, Retrain, EnvironmentSame
<1>3. Assessing => UNCHANGED <<futures, focus>>
  BY DEF Assessing, CertifyLevels, EnvironmentSame
<1>4. GroundNext \/ EndGround \/ EndLab \/ (\E veto \in BOOLEAN : Challenge(veto))
        => UNCHANGED <<futures, focus>>
  BY DEF GroundNext, EndGround, EndLab, Challenge, EnvironmentSame
<1>5. \A s : Evaluate(futures[focus].kir, s) => UNCHANGED <<futures, focus>>
  BY DEF Evaluate, EnvironmentSame
<1>6. \A seed, n : ValidateFuture(seed, n) => UNCHANGED <<futures, focus>>
  BY DEF ValidateFuture, EnvironmentSame
<1> QED BY <1>1, <1>2, <1>3, <1>4, <1>5, <1>6

LEMMA FutureStep ==
  ASSUME FutureInv, [ComputerNext]_allVars
  PROVE  FutureInv'
<1>0. UNCHANGED <<futures, focus>> => FutureInv'
  BY DEF FutureInv
<1>1. CASE KernelWork
  <2>1. CASE Futures
    BY <2>1, FuturesMove
  <2>2. CASE Debating
    <3>1. CASE GroundNext \/ EndGround \/ EndLab \/ \E veto \in BOOLEAN : Challenge(veto)
      BY <1>0, <3>1, OthersLook
    <3>2. CASE \E s \in Screens, v \in TopCandidates :
                 \E kirs \in [1 .. Horizon -> UNION {Predicted(Kir(futures[focus].kir.t + i - 1,
                                futures[focus].kir.sw + i - 1, 1, 1)) : i \in 1 .. Horizon}] :
                   Lab(s, kirs, v)
      BY <3>2, LabMoves
    <3> QED BY <2>2, <3>1, <3>2 DEF Debating
  <2>3. CASE Laddering \/ Learning \/ Assessing
    BY <1>0, <2>3, OthersLook
  <2>4. CASE \E s \in Sequences(Horizon) : Evaluate(futures[focus].kir, s)
    BY <1>0, <2>4, OthersLook
  <2>5. CASE \E seed \in OracleSeeds, n \in DOMAIN futures : ValidateFuture(seed, n)
    BY <1>0, <2>5, OthersLook
  <2> QED BY <1>1, <2>1, <2>2, <2>3, <2>4, <2>5 DEF KernelWork
<1>2. ASSUME NEW seed, NEW kir, Boot(seed, kir) PROVE FutureInv'
  BY <1>2, NewStory DEF Boot, OnlyMain, FutureInv
<1>3. ASSUME NEW fails, ProbeKernel(fails) PROVE FutureInv'
  <2>1. CASE futures' = [n \in {"main", "tight-world"} |-> NewFuture(Booted)] /\ focus' = "main"
    BY <2>1, NewStory DEF FutureInv
  <2> QED BY <1>0, <1>3, <2>1 DEF ProbeKernel
<1>4. CASE KernelSame \/ UNCHANGED kernelVars \/ UNCHANGED allVars
  BY <1>0, <1>4 DEF KernelSame, allVars, kernelVars
<1> QED BY <1>1, <1>2, <1>3, <1>4 DEF ComputerNext, KernelProgram, DriftProgram

\* Futures are isolated (branch, environment.py:91-97): whatever a program, the agents
\* or a probe do to other futures, the state of a future is the last of its own
\* history, which has one action and one tick for every step.
THEOREM FuturesStayApart == ComputerSpec => []FuturesAreApart
<1>1. ComputerInit => FutureInv
  BY NewStory DEF ComputerInit, KernelInit, OnlyMain, FutureInv
<1>2. FutureInv /\ [ComputerNext]_allVars => FutureInv'
  BY FutureStep
<1>3. FutureInv => FuturesAreApart
  BY DEF FutureInv, OwnStory, Ticking, FuturesAreApart, Last
<1> QED BY <1>1, <1>2, <1>3, PTL DEF ComputerSpec

-----------------------------------------------------------------------------
(* Types of the environments.                                              *)

Policies == {a.arg : a \in SearchSpace}
Places == {"idle", "root", "start", "rank", "validate", "refute", "advise", "done", "library"}

GoodBranch(b) ==
  /\ b.fact \in Results \cup {Unmeasured} /\ b.bin \in BOOLEAN
  /\ b.equiv \in Verdicts \cup {"unknown"} /\ b.config.policy \subseteq Policies
GoodBranches(bs) == \A n \in DOMAIN bs : GoodBranch(bs[n])

\* The branches in memory and in the file.
BranchesInv == GoodBranches(branches) /\ GoodBranches(saved.branches)

\* The budgets in memory and in the file.
PurseInv ==
  /\ budget \in Nat /\ used \in 0 .. budget
  /\ saved.budget \in Nat /\ saved.used \in 0 .. saved.budget

\* A round begins only while there are rounds left.
JobInv ==
  /\ at \in Places /\ cmd \in Commands \cup {"none"} /\ code \in 0 .. 1
  /\ DOMAIN job = DOMAIN NoJob /\ job.round \in 0 .. Rounds /\ job.rt \in 0 .. MaxRuntime
  /\ at \in {"root", "start"} => job.round < Rounds

TroubleInv == trouble \in 0 .. MaxTrouble

LEMMA CostsWithin == ASSUME TroubleInv, NEW bad, Costs(bad) PROVE TroubleInv'
  BY BoundsAssumption DEF Costs, TroubleInv

LEMMA AppliedPolicy ==
  ASSUME NEW c, c.policy \subseteq Policies, NEW a, a \in SearchSpace \/ a.kind # "policy"
  PROVE  Apply(c, a).policy \subseteq Policies
<1>1. Apply(c, a).policy = IF a.kind # "policy" THEN c.policy
                           ELSE IF a.arg = "none" THEN {} ELSE c.policy \cup {a.arg}
  BY DEF Apply
<1>2. a.kind = "policy" => a.arg \in Policies
  BY DEF Policies
<1> QED BY <1>1, <1>2

LEMMA GoodNew ==
  ASSUME NEW c, c.policy \subseteq Policies, NEW p PROVE GoodBranch(NewBranch(c, p))
  BY DEF GoodBranch, NewBranch, Unmeasured

LEMMA GoodStart == InitialConfig.policy \subseteq Policies
  BY DEF InitialConfig

LEMMA GoodChild ==
  ASSUME GoodBranches(branches), NEW n \in DOMAIN branches, NEW a \in SearchSpace
  PROVE  GoodBranch(Child(n, a))
<1>1. branches[n].config.policy \subseteq Policies
  BY DEF GoodBranches, GoodBranch
<1> QED BY <1>1, AppliedPolicy, GoodNew DEF Child

LEMMA ExpandedGood ==
  ASSUME GoodBranches(branches), IsFiniteSet(DOMAIN branches), NEW by, NEW base \in DOMAIN branches,
         NEW acts \in SUBSET SearchSpace, branches' = Expanded(by, base, acts)
  PROVE  GoodBranches(branches')
<1> DEFINE N == Names(by, base, acts)
<1>1. branches' = [n \in DOMAIN branches \cup N |->
                     IF n \in DOMAIN branches THEN branches[n] ELSE Child(base, n.act)]
  BY DEF Expanded
<1>2. \A n \in N : n.act \in SearchSpace
  BY FreshName DEF Names, Expandable
<1> HIDE DEF N
<1>3. ASSUME NEW n \in DOMAIN branches' PROVE GoodBranch(branches'[n])
  <2>1. CASE n \in DOMAIN branches
    BY <1>1, <2>1 DEF GoodBranches
  <2>2. CASE n \notin DOMAIN branches
    <3>1. n \in N /\ branches'[n] = Child(base, n.act)
      BY <1>1, <2>2
    <3> QED BY <1>2, <3>1, GoodChild
  <2> QED BY <2>1, <2>2
<1> QED BY <1>3 DEF GoodBranches

LEMMA MeasuredGood ==
  ASSUME GoodBranches(branches), Whole(branches, current), NEW n, NEW m \in Outcomes, Measure(n, m)
  PROVE  GoodBranches(branches')
<1>1. CASE m = Lost
  BY <1>1 DEF Measure, GoodBranches
<1>2. CASE m # Lost
  <2>1. m \in Results /\ m.ok \in BOOLEAN
    <3>1. m \in Results
      BY <1>2 DEF Outcomes
    <3>2. (\E rt : m = Fact(TRUE, rt)) \/ m = Fact(FALSE, 0)
      BY <3>1 DEF Results
    <3>3. \A ok, rt : Fact(ok, rt).ok = ok
      BY DEF Fact
    <3>4. m.ok = TRUE \/ m.ok = FALSE
      BY <3>2, <3>3, Zenon
    <3> QED BY <3>1, <3>4
  <2>2. branches' = [branches EXCEPT ![n].fact = m, ![n].bin = m.ok]
    BY <1>2 DEF Measure
  <2>3. DOMAIN branches' = DOMAIN branches
    BY <2>2
  <2>4. ASSUME NEW k \in DOMAIN branches PROVE GoodBranch(branches'[k])
    <3>1. DOMAIN branches[k] = Fields /\ GoodBranch(branches[k])
      BY DEF Whole, GoodBranches
    <3>2. CASE k = n
      <4>1. /\ branches'[k].fact = m /\ branches'[k].bin = m.ok
            /\ branches'[k].equiv = branches[k].equiv /\ branches'[k].config = branches[k].config
        BY <2>2, <3>1, <3>2 DEF Fields
      <4> QED BY <2>1, <3>1, <4>1 DEF GoodBranch
    <3>3. CASE k # n
      BY <2>2, <3>1, <3>3
    <3> QED BY <3>2, <3>3
  <2> QED BY <2>3, <2>4 DEF GoodBranches
<1> QED BY <1>1, <1>2

\* What leaves the branches, and the file, as good as they were.
LEMMA BranchesStay ==
  ASSUME BranchesInv, GoodBranches(branches') , UNCHANGED saved PROVE BranchesInv'
  BY DEF BranchesInv, GoodBranches

LEMMA FreshGood == ASSUME FreshEnv PROVE GoodBranches(branches')
<1>1. branches' = [n \in {Root} |-> NewBranch(InitialConfig, Nowhere)]
  BY DEF FreshEnv
<1> QED BY <1>1, GoodNew, GoodStart DEF GoodBranches

LEMMA WorkBranches == ASSUME WorldInv, BranchesInv, Work PROVE BranchesInv'
<1>0. GoodBranches(branches) /\ Whole(branches, current) /\ IsFiniteSet(DOMAIN branches)
  BY DEF BranchesInv, WorldInv, Whole
<1>1. ASSUME NEW n, NEW m \in Outcomes, Measure(n, m), UNCHANGED saved PROVE BranchesInv'
  BY <1>0, <1>1, MeasuredGood, BranchesStay
<1>2. ASSUME NEW m \in Outcomes, ValidateRoot(m) \/ ValidateNext(m) PROVE BranchesInv'
  BY <1>1, <1>2 DEF ValidateRoot, ValidateNext
<1>3. ASSUME NEW n, NEW m \in Outcomes, Advise(n, m) PROVE BranchesInv'
  BY <1>1, <1>3 DEF Advise
<1>4. ASSUME UNCHANGED <<branches, saved>> PROVE BranchesInv'
  BY <1>4 DEF BranchesInv
<1>5. CASE RefuseRoot \/ PassOver \/ EndScreen \/ EndScreenOfSwarm \/ NoAdvice \/ Return
           \/ (\E found \in BOOLEAN : Refute(found)) \/ (\E n \in DOMAIN branches : EndCampaignRound(n))
           \/ (\E s \in Shortlists : Rank(s))
  <2>1. UNCHANGED <<branches, saved>>
    BY <1>5 DEF RefuseRoot, PassOver, EndScreen, EndScreenOfSwarm, NoAdvice, Return, Refute,
                EndCampaignRound, Rank, envVars
  <2> QED BY <1>4, <2>1
<1>6. ASSUME NEW acts \in Tried, Expand(acts) PROVE BranchesInv'
  <2>1. acts \in SUBSET SearchSpace /\ current \in DOMAIN branches
    BY <1>0 DEF Tried, Whole
  <2>2. branches' = Expanded(Arm, current, acts) /\ UNCHANGED saved
    BY <1>6 DEF Expand
  <2> QED BY <1>0, <2>1, <2>2, ExpandedGood, BranchesStay
<1>7. ASSUME NEW n \in DOMAIN branches, NEW a \in SearchSpace, Think(n, a) PROVE BranchesInv'
  <2> DEFINE leaf == UniqueName("step", a)
  <2>1. /\ branches' = [m \in DOMAIN branches \cup {leaf} |-> IF m = leaf THEN Child(n, a) ELSE branches[m]]
        /\ UNCHANGED saved
    BY <1>7 DEF Think
  <2>2. GoodBranch(Child(n, a))
    BY <1>0, GoodChild
  <2> HIDE DEF leaf
  <2>3. GoodBranches(branches')
    BY <1>0, <2>1, <2>2 DEF GoodBranches
  <2> QED BY <2>1, <2>3, BranchesStay
<1>8. CASE EndTree
  <2>1. branches' = [n \in DOMAIN branches \ Pruned |-> branches[n]] /\ UNCHANGED saved
    BY <1>8 DEF EndTree
  <2>2. GoodBranches(branches')
    BY <1>0, <2>1 DEF GoodBranches
  <2> QED BY <2>1, <2>2, BranchesStay
<1>9. CASE Report
  <2>1. (FreshEnv \/ UNCHANGED branches) /\ UNCHANGED saved
    BY <1>9 DEF Report, envVars
  <2>2. GoodBranches(branches')
    BY <1>0, <2>1, FreshGood DEF GoodBranches
  <2> QED BY <2>1, <2>2, BranchesStay
<1> QED BY <1>2, <1>3, <1>5, <1>6, <1>7, <1>8, <1>9 DEF Work

LEMMA UseBranches == ASSUME WorldInv, BranchesInv, Use PROVE BranchesInv'
<1>0. GoodBranches(branches) /\ Whole(branches, current) /\ IsFiniteSet(DOMAIN branches)
  BY DEF BranchesInv, WorldInv, Whole
<1>1. ASSUME NEW n \in DOMAIN branches, NEW a \in SearchSpace, Perturb(n, a) PROVE BranchesInv'
  <2>1. branches' = Expanded("perturb", n, {a}) /\ UNCHANGED saved /\ {a} \in SUBSET SearchSpace
    BY <1>1 DEF Perturb
  <2> QED BY <1>0, <2>1, ExpandedGood, BranchesStay
<1>2. ASSUME NEW n \in DOMAIN branches, Branch(n) PROVE BranchesInv'
  <2> DEFINE new == UniqueName("branch", NoAction)
  <2>1. /\ branches' = [m \in DOMAIN branches \cup {new} |-> IF m = new THEN Copy(n) ELSE branches[m]]
        /\ UNCHANGED saved
    BY <1>2 DEF Branch
  <2> HIDE DEF new
  <2>2. DOMAIN branches[n] = Fields /\ GoodBranch(branches[n])
    BY <1>0 DEF Whole, GoodBranches
  <2>3. /\ Copy(n).fact = branches[n].fact /\ Copy(n).bin = FALSE /\ Copy(n).equiv = "unknown"
        /\ Copy(n).config = branches[n].config
    BY <2>2 DEF Copy, Fields
  <2>4. GoodBranch(Copy(n))
    BY <2>2, <2>3 DEF GoodBranch
  <2>5. GoodBranches(branches')
    BY <1>0, <2>1, <2>4 DEF GoodBranches
  <2> QED BY <2>1, <2>5, BranchesStay
<1>3. ASSUME NEW n \in DOMAIN branches, NEW m \in Outcomes, Validate(n, m) PROVE BranchesInv'
  BY <1>0, <1>3, MeasuredGood, BranchesStay DEF Validate
<1>4. ASSUME NEW n \in DOMAIN branches, NEW verdict \in Verdicts, DiffGate(n, verdict) PROVE BranchesInv'
  <2>1. branches' = [branches EXCEPT ![n].equiv = verdict] /\ UNCHANGED saved
    BY <1>4 DEF DiffGate
  <2>2. ASSUME NEW k \in DOMAIN branches PROVE GoodBranch(branches'[k])
    <3>1. DOMAIN branches[k] = Fields /\ GoodBranch(branches[k])
      BY <1>0 DEF Whole, GoodBranches
    <3>2. /\ branches'[k].fact = branches[k].fact /\ branches'[k].bin = branches[k].bin
          /\ branches'[k].config = branches[k].config
          /\ branches'[k].equiv \in {branches[k].equiv, verdict}
      BY <2>1, <3>1 DEF Fields
    <3> QED BY <3>1, <3>2 DEF GoodBranch
  <2>3. GoodBranches(branches')
    BY <2>1, <2>2 DEF GoodBranches
  <2> QED BY <2>1, <2>3, BranchesStay
<1>5. CASE Save
  <2>1. UNCHANGED branches /\ saved'.branches = branches
    BY <1>5 DEF Save, envVars
  <2> QED BY <1>0, <2>1 DEF BranchesInv
<1>6. CASE Load
  <2>1. UNCHANGED saved /\ branches' = saved.branches
    BY <1>6 DEF Load
  <2> QED BY <2>1 DEF BranchesInv
<1>7. CASE Leave
  BY <1>7 DEF Leave, envVars, BranchesInv
<1> QED BY <1>1, <1>2, <1>3, <1>4, <1>5, <1>6, <1>7 DEF Use

LEMMA StartBranches == ASSUME BranchesInv, NEW c, NEW b, Start(c, b) PROVE BranchesInv'
<1>1. FreshEnv /\ UNCHANGED saved
  BY DEF Start
<1> QED BY <1>1, FreshGood, BranchesStay

LEMMA MeasureSpends == ASSUME PurseInv, NEW n, NEW m, Measure(n, m), UNCHANGED saved PROVE PurseInv'
<1>1. used < budget /\ used' = used + 1 /\ UNCHANGED <<budget, saved>>
  BY DEF Measure, Left
<1>2. budget \in Nat /\ used \in Nat
  BY DEF PurseInv
<1>3. used' \in 0 .. budget'
  BY <1>1, <1>2
<1> QED BY <1>1, <1>3 DEF PurseInv

LEMMA PurseStep == ASSUME PurseInv, CompilerNext PROVE PurseInv'
<1> USE DEF envVars
<1>1. ASSUME NEW m, ValidateRoot(m) \/ ValidateNext(m) PROVE PurseInv'
  BY <1>1, MeasureSpends DEF ValidateRoot, ValidateNext
<1>2. ASSUME NEW n, NEW m, Advise(n, m) \/ Validate(n, m) PROVE PurseInv'
  BY <1>2, MeasureSpends DEF Advise, Validate
<1>3. ASSUME UNCHANGED <<budget, used, saved>> PROVE PurseInv'
  BY <1>3 DEF PurseInv
<1>4. CASE RefuseRoot \/ PassOver \/ EndScreen \/ EndScreenOfSwarm \/ NoAdvice \/ Return \/ EndTree
           \/ (\E acts \in Tried : Expand(acts)) \/ (\E n \in DOMAIN branches, a \in SearchSpace : Think(n, a))
           \/ (\E found \in BOOLEAN : Refute(found)) \/ (\E n \in DOMAIN branches : EndCampaignRound(n))
           \/ (\E s \in Shortlists : Rank(s))
  <2>1. UNCHANGED <<budget, used, saved>>
    BY <1>4 DEF RefuseRoot, PassOver, EndScreen, EndScreenOfSwarm, NoAdvice, Return, Refute, EndTree,
                Expand, Think, EndCampaignRound, Rank
  <2> QED BY <1>3, <2>1
<1>5. ASSUME used' = 0, budget' \in Nat, UNCHANGED saved PROVE PurseInv'
  BY <1>5 DEF PurseInv
<1>6. CASE Report
  <2>1. UNCHANGED <<budget, saved>> /\ (used' = 0 \/ UNCHANGED used)
    BY <1>6 DEF Report, FreshEnv
  <2>2. budget' \in Nat
    BY <2>1 DEF PurseInv
  <2> QED BY <1>3, <1>5, <2>1, <2>2
<1>7. ASSUME NEW c, NEW b \in Budgets, Start(c, b) PROVE PurseInv'
  BY <1>5, <1>7, BudgetsAssumption DEF Start, FreshEnv
<1>8. CASE \E n \in DOMAIN branches : (\E a \in SearchSpace : Perturb(n, a)) \/ Branch(n)
                                      \/ \E verdict \in Verdicts : DiffGate(n, verdict)
  <2>1. UNCHANGED <<budget, used, saved>>
    BY <1>8 DEF Perturb, Branch, DiffGate
  <2> QED BY <1>3, <2>1
<1>9. CASE Save
  <2>1. saved'.budget = budget /\ saved'.used = used /\ UNCHANGED <<budget, used>>
    BY <1>9 DEF Save
  <2> QED BY <2>1 DEF PurseInv
<1>10. CASE Load
  <2>1. budget' = saved.budget /\ used' = saved.used /\ UNCHANGED saved
    BY <1>10 DEF Load
  <2> QED BY <2>1 DEF PurseInv
<1>11. CASE Leave
  BY <1>3, <1>11 DEF Leave
<1> QED BY <1>1, <1>2, <1>4, <1>6, <1>7, <1>8, <1>9, <1>10, <1>11 DEF CompilerNext, Work, Use

\* A step within a round, or to its end.
LEMMA WithinRound ==
  ASSUME JobInv, DOMAIN job' = DOMAIN NoJob, job'.round = job.round, job'.rt = job.rt,
         at' \in Places \ {"root", "start"}, UNCHANGED <<cmd, code>>
  PROVE  JobInv'
  BY DEF JobInv

LEMMA NoJobIs == NoJob.round = 0 /\ NoJob.rt = 0 /\ 0 < Rounds /\ Rounds \in Nat /\ MaxRuntime \in Nat
  BY BoundsAssumption DEF NoJob

LEMMA RunTimes ==
  /\ \A m \in Results \cup {Unmeasured} : m.rt \in 0 .. MaxRuntime
  /\ \A m \in Outcomes : \A rt : Better(m, rt) => m.rt \in 0 .. MaxRuntime
<1>1. ASSUME NEW m \in Results \cup {Unmeasured} PROVE m.rt \in 0 .. MaxRuntime
  BY NoJobIs DEF Results, Unmeasured, Fact
<1>2. ASSUME NEW m \in Outcomes, NEW rt, Better(m, rt) PROVE m.rt \in 0 .. MaxRuntime
  <2>1. m # Lost
    BY <1>2 DEF Better, Lost
  <2> QED BY <1>1, <1>2, <2>1 DEF Outcomes
<1> QED BY <1>1, <1>2

LEMMA ExpandJob == ASSUME JobInv, BranchesInv, WorldInv, at = "start", NEW acts, Expand(acts) PROVE JobInv'
<1> DEFINE N == Names(Arm, current, acts)
<1>1. /\ at' = "rank" /\ UNCHANGED <<cmd, code>>
      /\ job' = [job EXCEPT !.arm = Arm, !.round = @ + 1, !.base = current, !.kids = N,
                            !.made = N, !.done = {}, !.best = current, !.rt = Facts(current).rt]
  BY DEF Expand
<1> HIDE DEF N
<1>2. DOMAIN job' = DOMAIN NoJob /\ job'.round = job.round + 1 /\ job'.rt = Facts(current).rt
  BY <1>1 DEF JobInv, NoJob
<1>3. Facts(current) \in Results \cup {Unmeasured}
  BY DEF Facts, BranchesInv, GoodBranches, GoodBranch, WorldInv, Whole
<1>4. job'.rt \in 0 .. MaxRuntime
  BY <1>2, <1>3, RunTimes
<1>5. job.round \in 0 .. Rounds /\ job.round < Rounds
  BY DEF JobInv
<1>6. job'.round \in 0 .. Rounds
  BY <1>2, <1>5, NoJobIs
<1> QED BY <1>1, <1>2, <1>4, <1>6 DEF JobInv, Places

LEMMA ValidateJob == ASSUME JobInv, NEW m \in Outcomes, ValidateNext(m) PROVE JobInv'
<1> DEFINE n == Head(job.todo)
<1>1. /\ at = "validate" /\ UNCHANGED <<at, cmd, code>>
      /\ job' = [job EXCEPT !.todo = Tail(@),
                   !.done = IF m = Lost THEN @ ELSE @ \cup {n},
                   !.best = IF Better(m, job.rt) THEN n ELSE @,
                   !.rt   = IF Better(m, job.rt) THEN m.rt ELSE @]
  BY DEF ValidateNext
<1> HIDE DEF n
<1>2. /\ DOMAIN job' = DOMAIN NoJob /\ job'.round = job.round
      /\ job'.rt = IF Better(m, job.rt) THEN m.rt ELSE job.rt
  BY <1>1 DEF JobInv, NoJob
<1>3. job'.rt \in 0 .. MaxRuntime
  BY <1>2, RunTimes DEF JobInv
<1> QED BY <1>1, <1>2, <1>3 DEF JobInv

LEMMA StartsJob ==
  ASSUME JobInv, job'.round = 0, job'.rt = 0, DOMAIN job' = DOMAIN NoJob, at' \in Places,
         cmd' \in Commands \cup {"none"}, code' \in 0 .. 1
  PROVE  JobInv'
  BY NoJobIs DEF JobInv

LEMMA WorkJob == ASSUME WorldInv, BranchesInv, JobInv, Work PROVE JobInv'
<1> USE DEF taskVars
<1>0. cmd \in Commands \cup {"none"} /\ code \in 0 .. 1 /\ 1 \in 0 .. 1 /\ DOMAIN job = DOMAIN NoJob
  BY DEF JobInv
<1>1. ASSUME NEW m \in Outcomes, ValidateRoot(m) PROVE JobInv'
  <2>1. job' = [NoJob EXCEPT !.spent = used'] /\ UNCHANGED cmd
        /\ ((at' = "idle" /\ code' = 1) \/ (at' = "start" /\ UNCHANGED code))
    BY <1>1 DEF ValidateRoot, NoRoot
  <2>2. job'.round = 0 /\ job'.rt = 0 /\ DOMAIN job' = DOMAIN NoJob
    BY <2>1 DEF NoJob
  <2> QED BY <1>0, <2>1, <2>2, StartsJob DEF Places
<1>2. CASE RefuseRoot
  <2>1. at = "root" /\ UNCHANGED <<job, cmd>>
        /\ ((at' = "idle" /\ code' = 1) \/ (at' = "start" /\ UNCHANGED code))
    BY <1>2 DEF RefuseRoot, NoRoot
  <2> QED BY <1>0, <2>1 DEF JobInv, Places
<1>3. ASSUME NEW n, NEW a, Think(n, a) PROVE JobInv'
  <2>1. job' = [job EXCEPT !.made = @ \cup {UniqueName("step", a)}] /\ UNCHANGED <<at, cmd, code>>
        /\ at = "rank"
    BY <1>3 DEF Think
  <2>2. DOMAIN job' = DOMAIN NoJob /\ job'.round = job.round /\ job'.rt = job.rt
    BY <1>0, <2>1 DEF NoJob
  <2> QED BY <2>1, <2>2, WithinRound DEF Places
<1>4. ASSUME NEW s, Rank(s) PROVE JobInv'
  <2>1. job' = [job EXCEPT !.todo = s] /\ at' = "validate" /\ UNCHANGED <<cmd, code>>
    BY <1>4 DEF Rank
  <2>2. DOMAIN job' = DOMAIN NoJob /\ job'.round = job.round /\ job'.rt = job.rt
    BY <1>0, <2>1 DEF NoJob
  <2> QED BY <2>1, <2>2, WithinRound DEF Places
<1>5. CASE PassOver
  <2>1. job' = [job EXCEPT !.todo = Tail(@)] /\ at = "validate" /\ UNCHANGED <<at, cmd, code>>
    BY <1>5 DEF PassOver
  <2>2. DOMAIN job' = DOMAIN NoJob /\ job'.round = job.round /\ job'.rt = job.rt
    BY <1>0, <2>1 DEF NoJob
  <2> QED BY <2>1, <2>2, WithinRound DEF Places
<1>6. CASE EndScreen \/ EndTree \/ EndScreenOfSwarm \/ Return \/ \E found \in BOOLEAN : Refute(found)
  <2>1. at' \in {"done", "refute", "idle", "advise"} /\ UNCHANGED <<job, cmd, code>>
    BY <1>6 DEF EndScreen, EndTree, EndScreenOfSwarm, Return, Refute
  <2> QED BY <1>0, <2>1, WithinRound DEF Places
<1>7. ASSUME UNCHANGED <<job, cmd, code>>, at' = "done" \/ (at' = "start" /\ job.round < Rounds)
      PROVE  JobInv'
  BY <1>7 DEF JobInv, Places
<1>8. CASE NoAdvice \/ \E n \in DOMAIN branches, m \in Outcomes : Advise(n, m)
  BY <1>7, <1>8 DEF NoAdvice, Advise, NextRound
<1>9. ASSUME NEW n, EndCampaignRound(n) PROVE JobInv'
  BY <1>7, <1>9 DEF EndCampaignRound
<1>10. CASE Report
  <2>1. job' = NoJob /\ at' \in {"root", "idle"} /\ UNCHANGED <<cmd, code>>
    BY <1>10 DEF Report
  <2> QED BY <1>0, <2>1, NoJobIs, StartsJob DEF Places
<1> QED BY <1>1, <1>2, <1>3, <1>4, <1>5, <1>6, <1>8, <1>9, <1>10, ExpandJob, ValidateJob DEF Work

LEMMA JobStep == ASSUME WorldInv, BranchesInv, JobInv, CompilerNext PROVE JobInv'
<1>1. ASSUME NEW c \in Commands, NEW b, Start(c, b) PROVE JobInv'
  <2>1. job' = NoJob /\ at' \in {"library", "root"} /\ cmd' = c /\ code' = 0 /\ 0 \in 0 .. 1
    BY <1>1 DEF Start
  <2> QED BY <2>1, NoJobIs, StartsJob DEF Places
<1>2. CASE Use /\ ~Leave
  <2>1. UNCHANGED <<at, cmd, job, code>>
    BY <1>2 DEF Use, Perturb, Branch, Validate, DiffGate, Save, Load, Between
  <2> QED BY <2>1 DEF JobInv
<1>3. CASE Leave
  <2>1. at' = "idle" /\ UNCHANGED <<cmd, job, code>>
    BY <1>3 DEF Leave
  <2> QED BY <2>1, WithinRound DEF Places, JobInv
<1> QED BY <1>1, <1>2, <1>3, WorkJob DEF CompilerNext

LEMMA TroubleStep == ASSUME TroubleInv, CompilerNext PROVE TroubleInv'
<1>1. ASSUME NEW n, NEW m, Measure(n, m) PROVE TroubleInv'
  BY <1>1, CostsWithin DEF Measure
<1>2. ASSUME UNCHANGED trouble PROVE TroubleInv'
  BY <1>2 DEF TroubleInv
<1>3. CASE \E m \in Outcomes : ValidateRoot(m) \/ ValidateNext(m)
  BY <1>1, <1>3 DEF ValidateRoot, ValidateNext
<1>4. CASE \E n \in DOMAIN branches, m \in Outcomes : Advise(n, m) \/ Validate(n, m)
  BY <1>1, <1>4 DEF Advise, Validate
<1>5. CASE Use /\ ~\E n \in DOMAIN branches, m \in Outcomes : Validate(n, m)
  <2>1. UNCHANGED trouble
    BY <1>5 DEF Use, Perturb, Branch, DiffGate, Save, Load, Leave
  <2> QED BY <1>2, <2>1
<1>6. CASE RefuseRoot \/ PassOver \/ EndScreen \/ EndScreenOfSwarm \/ NoAdvice \/ Return \/ EndTree \/ Report
           \/ (\E acts \in Tried : Expand(acts)) \/ (\E n \in DOMAIN branches, a \in SearchSpace : Think(n, a))
           \/ (\E found \in BOOLEAN : Refute(found)) \/ (\E n \in DOMAIN branches : EndCampaignRound(n))
           \/ (\E s \in Shortlists : Rank(s)) \/ (\E c \in Commands, b \in Budgets : Start(c, b))
  <2>1. UNCHANGED trouble
    BY <1>6 DEF RefuseRoot, PassOver, EndScreen, EndScreenOfSwarm, NoAdvice, Return, Refute, EndTree,
                Expand, Think, EndCampaignRound, Rank, Report, Start
  <2> QED BY <1>2, <2>1
<1> QED BY <1>3, <1>4, <1>5, <1>6 DEF CompilerNext, Work, Use

-----------------------------------------------------------------------------
(* The same in the computer.                                               *)

EnvGood == BranchesInv /\ PurseInv /\ JobInv /\ TroubleInv

\* A session, or what a step of the computer leaves of one.
LEMMA SessionGood == ASSUME WorldInv, EnvGood, CompilerNext PROVE EnvGood'
<1>1. PurseInv' /\ JobInv' /\ TroubleInv'
  BY PurseStep, JobStep, TroubleStep DEF EnvGood
<1>2. BranchesInv'
  BY WorkBranches, UseBranches, StartBranches DEF EnvGood, CompilerNext
<1> QED BY <1>1, <1>2 DEF EnvGood

LEMMA StubIsResult == \A c : Fact(TRUE, StubTime(c)) \in Results
<1> SUFFICES ASSUME NEW c PROVE Fact(TRUE, StubTime(c)) \in Results
  OBVIOUS
<1>1. StubTime(c) \in 0 .. MaxRuntime
  BY StubAssumption, BoundsAssumption DEF StubTime
<1> QED BY <1>1 DEF Results

\* The screen of the probe is one of the steps of a session.
LEMMA SearchWorks == ASSUME Search PROVE Work
<1>1. \A n : StubFact(n) \in Outcomes
  BY StubIsResult DEF StubFact, Outcomes
<1> QED BY <1>1 DEF Search, Work

LEMMA EnvStays ==
  ASSUME EnvGood, UNCHANGED <<branches, saved, budget, used, at, cmd, job, code>>, TroubleInv'
  PROVE  EnvGood'
<1> USE DEF EnvGood
<1>1. BranchesInv'
  BY DEF BranchesInv
<1>2. PurseInv'
  BY DEF PurseInv
<1>3. JobInv'
  BY DEF JobInv
<1> QED BY <1>1, <1>2, <1>3

LEMMA ProbeGood == ASSUME ComputerInv, EnvGood, NEW fails \in BOOLEAN, ProbeCompiler(fails) PROVE EnvGood'
<1>0. TroubleInv'
  BY CostsWithin DEF ProbeCompiler, EnvGood
<1>1. CASE fails
  <2>1. UNCHANGED <<branches, saved, budget, used, at, cmd, job, code>>
    BY <1>1 DEF ProbeCompiler, envVars
  <2> QED BY <1>0, <2>1, EnvStays
<1>2. CASE ~fails
  <2> DEFINE new == [n \in {Root, ForkName(1), PresetName(O3)} |->
                       IF n = PresetName(O3) THEN NewBranch(Apply(InitialConfig, O3), ForkName(1))
                       ELSE NewBranch(InitialConfig, IF n = Root THEN Nowhere ELSE Root)]
  <2>1. /\ branches' = new /\ budget' = input.compiler /\ used' = 0 /\ UNCHANGED <<saved, code>>
        /\ at' = "start" /\ cmd' = "surrogate" /\ job' = NoJob /\ step = "probe compiler"
    BY <1>2 DEF ProbeCompiler, Fresh3
  <2>2. input.compiler \in Nat
    BY <2>1, ProbeAssumption DEF ComputerInv, ControlInv
  <2>3. GoodBranches(new)
    <3>1. Apply(InitialConfig, O3).policy \subseteq Policies
      BY GoodStart, AppliedPolicy DEF O3
    <3> QED BY <3>1, GoodStart, GoodNew DEF GoodBranches
  <2> HIDE DEF new
  <2>4. BranchesInv'
    BY <2>1, <2>3, BranchesStay DEF EnvGood
  <2>5. PurseInv'
    <3>1. budget' \in Nat /\ used' = 0 /\ saved' = saved
      BY <2>1, <2>2
    <3>2. saved.budget \in Nat /\ saved.used \in 0 .. saved.budget
      BY DEF EnvGood, PurseInv
    <3> QED BY <3>1, <3>2 DEF PurseInv
  <2>6. JobInv'
    <3>1. code' \in 0 .. 1 /\ JobInv
      BY <2>1 DEF EnvGood, JobInv
    <3>2. job'.round = 0 /\ job'.rt = 0 /\ DOMAIN job' = DOMAIN NoJob
      BY <2>1, NoJobIs
    <3>3. at' \in Places /\ cmd' \in Commands \cup {"none"}
      BY <2>1 DEF Places, Commands, Strategies
    <3> QED BY <3>1, <3>2, <3>3, StartsJob
  <2> QED BY <1>0, <2>4, <2>5, <2>6 DEF EnvGood
<1> QED BY <1>1, <1>2

LEMMA ViewsGood == ASSUME EnvGood, StubViews PROVE EnvGood'
<1> DEFINE V == Range(ViewPath)
           pos(n) == CHOOSE k \in 1 .. 5 : ViewPath[k] = n
<1>1. /\ branches' = [n \in V |-> Viewed(pos(n))] /\ used' = 2 /\ budget' = 4
      /\ UNCHANGED <<saved, at, cmd, job, code, trouble>>
  BY DEF StubViews, taskVars
<1>2. \A n \in V : pos(n) \in 1 .. 5
  <2>1. DOMAIN ViewPath = 1 .. 5
    BY DEF ViewPath
  <2> QED BY <2>1 DEF Range
<1> HIDE DEF V, pos
<1>3. \A k \in 1 .. 5 : ViewConfig[k].policy \subseteq Policies
  <2>1. LowView.policy \subseteq Policies /\ Apply(LowView, O3).policy \subseteq Policies
    BY GoodStart, AppliedPolicy DEF LowView, O0, O3
  <2>2. 1 .. 5 = {1, 2, 3, 4, 5}
    OBVIOUS
  <2>3. /\ ViewConfig[1] = InitialConfig /\ ViewConfig[2] = InitialConfig /\ ViewConfig[3] = LowView
        /\ ViewConfig[4] = LowView /\ ViewConfig[5] = Apply(LowView, O3)
    BY DEF ViewConfig
  <2> QED BY <2>1, <2>2, <2>3, GoodStart
<1>4. ASSUME NEW k \in 1 .. 5 PROVE GoodBranch(Viewed(k))
  <2> DEFINE p == IF k = 1 THEN Nowhere ELSE ViewPath[k - 1]
             made == NewBranch(ViewConfig[k], p)
             m == Fact(TRUE, StubTime(ViewConfig[k]))
  <2>1. Viewed(k) = IF k \in {2, 4} THEN [[made EXCEPT !.fact = m] EXCEPT !.bin = TRUE] ELSE made
    BY DEF Viewed
  <2>2. m \in Results
    BY StubIsResult
  <2>3. DOMAIN made = Fields /\ GoodBranch(made)
    BY <1>3, GoodNew, NewIsWhole
  <2> HIDE DEF p, made, m
  <2>4. CASE k \in {2, 4}
    <3>1. /\ Viewed(k).fact = m /\ Viewed(k).bin = TRUE /\ Viewed(k).equiv = made.equiv
          /\ Viewed(k).config = made.config
      BY <2>1, <2>3, <2>4 DEF Fields
    <3> QED BY <2>2, <2>3, <3>1 DEF GoodBranch
  <2>5. CASE k \notin {2, 4}
    BY <2>1, <2>3, <2>5
  <2> QED BY <2>4, <2>5
<1>5. GoodBranches(branches')
  BY <1>1, <1>2, <1>4 DEF GoodBranches
<1>6. BranchesInv' /\ PurseInv' /\ JobInv' /\ TroubleInv'
  BY <1>1, <1>5, BranchesStay DEF EnvGood, PurseInv, JobInv, TroubleInv
<1> QED BY <1>6 DEF EnvGood

LEMMA EnvStep == ASSUME ComputerInv, WorldInv, EnvGood, [ComputerNext]_allVars PROVE EnvGood'
<1> USE DEF vars, envVars, taskVars, EnvSame
<1>0. ASSUME UNCHANGED <<branches, saved, budget, used, at, cmd, job, code>>,
             UNCHANGED trouble \/ \E bad : Costs(bad)
      PROVE  EnvGood'
  <2>1. TroubleInv'
    BY <1>0, CostsWithin DEF EnvGood, TroubleInv
  <2> QED BY <1>0, <2>1, EnvStays
<1>1. CASE CompilerNext
  BY <1>1, SessionGood
<1>2. CASE Search
  BY <1>2, SearchWorks, SessionGood DEF CompilerNext
<1>3. ASSUME NEW fails \in BOOLEAN, ProbeCompiler(fails) PROVE EnvGood'
  BY <1>3, ProbeGood
<1>4. CASE StubViews
  BY <1>4, ViewsGood
<1>5. CASE Calling
  <2>1. UNCHANGED <<branches, saved, budget, used, at, cmd, job, code, trouble>>
    BY <1>5 DEF Calling, CommandLine, Import, Computer, LibraryCall, Exit, Fork, Switch, Intervene
  <2> QED BY <1>0, <2>1
<1>6. CASE EndSearch \/ \E fails : ProbeMicro(fails) \/ ProbeKernel(fails)
  <2>1. /\ UNCHANGED <<branches, saved, budget, used, at, cmd, job, code>>
        /\ UNCHANGED trouble \/ \E bad : Costs(bad)
    BY <1>6 DEF EndSearch, ProbeMicro, ProbeKernel
  <2> QED BY <1>0, <2>1
<1>7. CASE Slicing /\ ~StubViews
  <2>1. UNCHANGED <<branches, saved, budget, used, at, cmd, job, code>>
    BY <1>7 DEF Slicing, LowerAll, InOrderLeg, OutOfOrderLeg, Rerun, LoadsLeg, Score, Fails, Charge
  <2>2. UNCHANGED trouble \/ \E bad : Costs(bad)
    BY <1>7 DEF Slicing, LowerAll, InOrderLeg, OutOfOrderLeg, Rerun, LoadsLeg, Score, Fails, Charge
  <2> QED BY <1>0, <2>1, <2>2
<1>8. CASE Certifying
  <2>1. UNCHANGED <<branches, saved, budget, used, at, cmd, job, code>>
    BY <1>8 DEF Certifying, Read, Certify, Emit, EditSource, CertSame
  <2>2. UNCHANGED trouble \/ \E bad : Costs(bad)
    BY <1>8 DEF Certifying, Read, Certify, Emit, EditSource, CertSame
  <2> QED BY <1>0, <2>1, <2>2
<1>9. CASE KernelProgram \/ DriftProgram \/ UNCHANGED allVars
  <2>1. UNCHANGED <<branches, saved, budget, used, at, cmd, job, code, trouble>>
    BY <1>9 DEF KernelProgram, DriftProgram, Alone, allVars
  <2> QED BY <1>0, <2>1
<1> QED BY <1>1, <1>2, <1>3, <1>4, <1>5, <1>6, <1>7, <1>8, <1>9 DEF ComputerNext, Probing

LEMMA EnvStarts == ASSUME Init PROVE EnvGood
<1>1. GoodBranches(branches)
  BY GoodNew, GoodStart DEF Init, GoodBranches
<1>2. BranchesInv
  BY <1>1 DEF Init, NoFile, BranchesInv, GoodBranches
<1>3. PurseInv
  BY BudgetsAssumption DEF Init, NoFile, PurseInv
<1>4. JobInv
  BY NoJobIs DEF Init, JobInv, Places
<1>5. TroubleInv
  BY BoundsAssumption DEF Init, TroubleInv
<1> QED BY <1>2, <1>3, <1>4, <1>5 DEF EnvGood

LEMMA EnvTypes == EnvGood => CompilerTypeOK
  BY DEF EnvGood, BranchesInv, GoodBranches, GoodBranch, Policies, PurseInv, JobInv, Places, TroubleInv,
         CompilerTypeOK

-----------------------------------------------------------------------------
(* Types of the computer, the kernel and the drift manager.                *)

\* Who calls, which world is active, how much the calls may use.
DeskInv ==
  /\ active \in DOMAIN worlds /\ limit \in Limits \cup {NoUse}
  /\ caller \in {"cli", "library", "nobody"} /\ pipeline \in BOOLEAN
  /\ cases \in 0 .. MaxCases

LEMMA DeskStays == ASSUME DeskInv, UNCHANGED <<worlds, active, limit, caller, pipeline, cases>> PROVE DeskInv'
  BY DEF DeskInv

LEMMA WorldAdded ==
  ASSUME NEW name, NEW w, worlds' = WithWorld(name, w) PROVE DOMAIN worlds \subseteq DOMAIN worlds'
  BY DEF WithWorld

LEMMA BeginsDesk ==
  ASSUME DeskInv, NEW what, NEW inp, Begin(what, inp) PROVE pipeline' \in BOOLEAN /\ cases' \in 0 .. MaxCases
<1>1. pipeline' = (what = "pipeline")
  BY DEF Begin
<1>2. cases' = cases + 1 /\ cases' <= MaxCases /\ cases \in 0 .. MaxCases /\ MaxCases \in Nat
  BY ProbeAssumption DEF Begin, DeskInv
<1>3. pipeline' \in BOOLEAN
  BY <1>1, Zenon
<1>4. cases' \in 0 .. MaxCases
  BY <1>2
<1> QED BY <1>3, <1>4

LEMMA CallingDesk == ASSUME DeskInv, Calling PROVE DeskInv'
<1> USE DEF callVars
<1>0. MaxCases \in Nat /\ cases \in 0 .. MaxCases
  BY ProbeAssumption DEF DeskInv
<1>1. ASSUME NEW inp, NEW most \in Limits, CommandLine(inp, most) PROVE DeskInv'
  <2>1. /\ UNCHANGED active /\ limit' = most /\ caller' = "cli" /\ Begin("pipeline", inp)
        /\ worlds' = WithWorld("o3-tight", TightWorld)
    BY <1>1 DEF CommandLine, Computer
  <2>2. pipeline' \in BOOLEAN /\ cases' \in 0 .. MaxCases
    BY <2>1, BeginsDesk
  <2>3. active' \in DOMAIN worlds'
    BY <2>1, WorldAdded DEF DeskInv
  <2> QED BY <2>1, <2>2, <2>3 DEF DeskInv
<1>2. ASSUME NEW most \in Limits, Import(most) PROVE DeskInv'
  <2>1. UNCHANGED <<worlds, active, pipeline, cases>> /\ limit' = most /\ caller' = "library"
    BY <1>2 DEF Import, Computer
  <2> QED BY <2>1 DEF DeskInv
<1>3. ASSUME NEW what, NEW inp, LibraryCall(what, inp) PROVE DeskInv'
  <2>1. UNCHANGED <<worlds, active, limit, caller>> /\ Begin(what, inp)
    BY <1>3 DEF LibraryCall
  <2>2. pipeline' \in BOOLEAN /\ cases' \in 0 .. MaxCases
    BY <2>1, BeginsDesk
  <2> QED BY <2>1, <2>2 DEF DeskInv
<1>4. CASE Exit
  <2>1. UNCHANGED <<worlds, active, limit, pipeline, cases>> /\ caller' = "nobody"
    BY <1>4 DEF Exit
  <2> QED BY <2>1 DEF DeskInv
<1>5. ASSUME NEW n \in DOMAIN worlds, Fork("copy", n) PROVE DeskInv'
  <2>1. /\ UNCHANGED <<active, limit, caller, pipeline>> /\ cases < MaxCases /\ cases' = cases + 1
        /\ worlds' = WithWorld("copy", [worlds[n] EXCEPT !.flags = "O3"])
    BY <1>5 DEF Fork
  <2>2. active' \in DOMAIN worlds'
    BY <2>1, WorldAdded DEF DeskInv
  <2>3. cases' \in 0 .. MaxCases
    BY <1>0, <2>1
  <2> QED BY <2>1, <2>2, <2>3 DEF DeskInv
<1>6. ASSUME NEW n \in DOMAIN worlds, Switch(n) \/ Intervene(n, "tight") PROVE DeskInv'
  <2>1. /\ UNCHANGED <<limit, caller, pipeline>> /\ cases < MaxCases /\ cases' = cases + 1
        /\ DOMAIN worlds' = DOMAIN worlds /\ active' \in {active, n}
    BY <1>6 DEF Switch, Intervene
  <2>2. cases' \in 0 .. MaxCases
    BY <1>0, <2>1
  <2> QED BY <2>1, <2>2 DEF DeskInv
<1> QED BY <1>1, <1>2, <1>3, <1>4, <1>5, <1>6 DEF Calling

LEMMA DeskStep == ASSUME DeskInv, [ComputerNext]_allVars PROVE DeskInv'
<1> USE DEF callVars
<1>1. CASE Calling
  BY <1>1, CallingDesk
<1>2. CASE Probing \/ \E fails : ProbeKernel(fails)
  <2>1. UNCHANGED <<worlds, active, limit, caller, pipeline, cases>>
    BY <1>2 DEF Probing, ProbeMicro, ProbeCompiler, Search, EndSearch, ProbeKernel, ProbeSame, computerVars
  <2> QED BY <2>1, DeskStays
<1>3. CASE Slicing
  <2>1. UNCHANGED <<worlds, active, limit, caller, pipeline, cases>>
    BY <1>3 DEF Slicing, LowerAll, StubViews, InOrderLeg, OutOfOrderLeg, Rerun, LoadsLeg, Score, Fails,
                Charge, SliceSame
  <2> QED BY <2>1, DeskStays
<1>4. CASE Certifying
  <2>1. UNCHANGED <<worlds, active, limit, caller, pipeline, cases>>
    BY <1>4 DEF Certifying, Read, Certify, Emit, EditSource, CertSame
  <2> QED BY <2>1, DeskStays
<1>5. CASE UNCHANGED computerVars \/ KernelProgram \/ DriftProgram \/ UNCHANGED allVars
  <2>1. UNCHANGED <<worlds, active, limit, caller, pipeline, cases>>
    BY <1>5 DEF KernelProgram, DriftProgram, Alone, allVars, computerVars
  <2> QED BY <2>1, DeskStays
<1> QED BY <1>1, <1>2, <1>3, <1>4, <1>5 DEF ComputerNext

\* The exact calls are counted, one leg or probe at a time, or reset.
Exactly == exact \in [Counts -> Nat]
Counting == UNCHANGED exact \/ exact' = NoCalls \/ \E u \in UnitSet, n \in Nat : Ran(u, n)

LEMMA CountingKeeps == ASSUME Exactly, Counting PROVE Exactly'
<1>1. CASE exact' = NoCalls
  BY <1>1 DEF Exactly, NoCalls
<1>2. ASSUME NEW u \in UnitSet, NEW n \in Nat, Ran(u, n) PROVE Exactly'
  BY <1>2 DEF Ran, Exactly, Counts
<1> QED BY <1>1, <1>2 DEF Counting, Exactly

LEMMA ProbesCount == ASSUME ComputerInv, AnyProbe, ~EndSearch PROVE Counting
<1>0. {"compiler", "micro", "kernel"} \subseteq UnitSet
  BY UnitFacts
<1>1. ASSUME NEW fails, ProbeMicro(fails) PROVE Counting
  <2>1. CASE ~fails
    <3> DEFINE n == IF input.micro < Beam THEN input.micro ELSE Beam
    <3>1. step = "probe micro" /\ Ran("micro", 1 + n)
      BY <1>1, <2>1 DEF ProbeMicro
    <3>2. n \in Nat
      BY <3>1, ProbeAssumption DEF ComputerInv, ControlInv
    <3> HIDE DEF n
    <3>3. 1 + n \in Nat
      BY <3>2
    <3> QED BY <1>0, <3>1, <3>3 DEF Counting
  <2>2. CASE fails
    BY <1>1, <2>2 DEF ProbeMicro, Counting
  <2> QED BY <2>1, <2>2
<1>2. CASE Search \/ \E fails : ProbeCompiler(fails)
  BY <1>2 DEF Search, ProbeCompiler, computerVars, Counting
<1>3. ASSUME NEW fails, ProbeKernel(fails) PROVE Counting
  <2>1. UNCHANGED exact \/ Ran("kernel", 2 * ProbeSteps)
    BY <1>3 DEF ProbeKernel
  <2> QED BY <1>0, <2>1, ArmsCount DEF Counting
<1> QED BY <1>1, <1>2, <1>3 DEF AnyProbe, Probing

LEMMA SearchCounts == ASSUME PurseInv, Exactly, EndSearch PROVE Exactly'
<1> DEFINE m == IF input.compiler = 0 THEN 1 ELSE 0
<1>1. budget \in Nat /\ used \in 0 .. budget
  BY DEF PurseInv
<1>2. used \in Nat /\ m \in Nat
  BY <1>1
<1>3. exact' = [exact EXCEPT !["compiler"] = @ + used, !["unseen"] = @ + m]
  BY DEF EndSearch
<1> HIDE DEF m
<1>4. exact \in [Counts -> Nat]
  BY DEF Exactly
<1> QED BY <1>2, <1>3, <1>4, BothCount DEF Exactly

LEMMA LegsCount == ASSUME ComputerInv, Slicing PROVE Counting
<1>0. {"compiler", "micro", "vmarch", "kernel"} \subseteq UnitSet
  BY UnitFacts
<1>1. ASSUME NEW u \in UnitSet, NEW n \in Nat, NEW problems, NEW faults, Gather(u, n, problems, faults)
      PROVE  Counting
  BY <1>1 DEF Gather, Counting
<1>2. ASSUME NEW u \in UnitSet, NEW n \in Nat, NEW leg, NEW draw, NEW bad, CpuLeg(leg, u, n, draw, bad)
      PROVE  Counting
  BY <1>1, <1>2 DEF CpuLeg
<1>3. ASSUME NEW draw, NEW bad, InOrderLeg(draw, bad) PROVE Counting
  <2> DEFINE n == 2 * Cardinality(S.seeds) * Cardinality(S.ns) * Cardinality(S.controls)
  <2>1. step = "in order" /\ CpuLeg("vmicro", "micro", n, draw, bad)
    BY <1>3 DEF InOrderLeg
  <2>2. n \in Nat
    BY <2>1, Factorial, NatProducts
  <2> HIDE DEF n
  <2> QED BY <1>0, <1>2, <2>1, <2>2
<1>4. ASSUME NEW draw, NEW bad, OutOfOrderLeg(draw, bad) PROVE Counting
  <2> DEFINE n == 2 * Cardinality(S.seeds) * Cardinality(S.ns)
  <2>1. /\ step = "out of order" /\ 2 \in Nat
        /\ Ran("vmarch", 2) \/ CpuLeg("vmarch", "vmarch", n, draw, bad)
    BY <1>4 DEF OutOfOrderLeg
  <2>2. n \in Nat
    BY <2>1, Factorial, NatProducts
  <2> HIDE DEF n
  <2>3. CASE Ran("vmarch", 2)
    BY <1>0, <2>1, <2>3 DEF Counting
  <2> QED BY <1>0, <1>2, <2>1, <2>2, <2>3
<1>5. ASSUME NEW lat, NEW rate, LoadsLeg(lat, rate) PROVE Counting
  <2> DEFINE n == 4 * Cardinality(S.seeds) * Cardinality(S.ns) * Cardinality(S.gains) * S.steps
  <2>1. step = "loads" /\ \E problems, faults : Gather("kernel", n, problems, faults)
    BY <1>5 DEF LoadsLeg
  <2>2. n \in Nat
    BY <2>1, Factorial, NatProducts
  <2> HIDE DEF n
  <2> QED BY <1>0, <1>1, <2>1, <2>2
<1>6. CASE Score \/ (\E differs : Rerun(differs)) \/ StubViews
  <2>1. TrainSteps \in Nat /\ 4 \in Nat /\ 2 \in Nat
    BY ProbeAssumption
  <2> QED BY <1>0, <1>6, <2>1 DEF Score, Rerun, StubViews, Gather, Counting
<1>7. CASE LowerAll \/ Fails \/ Charge
  BY <1>7 DEF LowerAll, Fails, Charge, Counting
<1> QED BY <1>3, <1>4, <1>5, <1>6, <1>7 DEF Slicing

LEMMA ExactStep == ASSUME ComputerInv, PurseInv, Exactly, [ComputerNext]_allVars PROVE Exactly'
<1>1. CASE Calling
  <2>1. Counting
    BY <1>1 DEF Calling, CommandLine, Import, LibraryCall, Begin, Exit, Fork, Switch, Intervene, Counting
  <2> QED BY <2>1, CountingKeeps
<1>2. CASE AnyProbe \/ Slicing
  BY <1>2, ProbesCount, SearchCounts, LegsCount, CountingKeeps
<1>3. CASE Certifying
  <2>1. UNCHANGED exact
    BY <1>3 DEF Certifying, Read, Certify, Emit, EditSource, CertSame
  <2> QED BY <2>1 DEF Exactly
<1>4. CASE UNCHANGED computerVars \/ KernelProgram \/ DriftProgram \/ UNCHANGED allVars
  <2>1. UNCHANGED exact
    BY <1>4 DEF KernelProgram, DriftProgram, Alone, allVars, computerVars
  <2> QED BY <2>1 DEF Exactly
<1> QED BY <1>1, <1>2, <1>3, <1>4 DEF ComputerNext, AnyProbe

\* Where a procedure stands, and how many there were.
ProcedureInv ==
  /\ procedures \in 0 .. MaxProcedures
  /\ stage \in {"off", "idle", "exact", "beam", "tree", "told", "ground", "debate", "rank", "probe"}

LEMMA ProcedureStep == ASSUME ProcedureInv, [ComputerNext]_allVars PROVE ProcedureInv'
<1>0. MaxProcedures \in Nat /\ procedures \in 0 .. MaxProcedures
  BY KernelAssumption DEF ProcedureInv
<1>1. ASSUME Procedure PROVE procedures' \in 0 .. MaxProcedures
  BY <1>0, <1>1 DEF Procedure
<1>2. ASSUME UNCHANGED procedures PROVE procedures' \in 0 .. MaxProcedures
  BY <1>0, <1>2
<1>3. CASE Futures \/ Assessing \/ (\E s \in Sequences(Horizon) : Evaluate(futures[focus].kir, s))
           \/ (\E seed \in OracleSeeds, n \in DOMAIN futures : ValidateFuture(seed, n))
  <2>1. Procedure /\ UNCHANGED stage
    BY <1>3 DEF Futures, ForkFuture, SwitchFuture, InterveneFuture, ResetFuture, Assessing, CertifyLevels,
                Evaluate, ValidateFuture
  <2> QED BY <1>1, <2>1 DEF ProcedureInv
<1>4. CASE Laddering
  <2>1. Procedure \/ UNCHANGED procedures
    BY <1>4 DEF Laddering, Ladder, ExactNext, EndExact, EndLadder, BeamRung, TreeRung
  <2>2. stage' \in {"exact", "beam", "tree", "told", "idle"}
    BY <1>4 DEF Laddering, Ladder, ExactNext, EndExact, EndLadder, BeamRung, TreeRung
  <2> QED BY <1>1, <1>2, <2>1, <2>2 DEF ProcedureInv
<1>5. CASE Debating
  <2>1. Procedure \/ UNCHANGED procedures
    BY <1>5 DEF Debating, Lab, GroundNext, EndGround, EndLab, Challenge
  <2>2. stage' \in {"debate", "ground", "idle"}
    BY <1>5 DEF Debating, Lab, GroundNext, EndGround, EndLab, Challenge
  <2> QED BY <1>1, <1>2, <2>1, <2>2 DEF ProcedureInv
<1>6. CASE Learning
  <2>1. Procedure \/ UNCHANGED procedures
    BY <1>6 DEF Learning, Active, Probe, EndActive, RankProbes, Retrain
  <2>2. stage' \in {"rank", "probe", "idle"}
    BY <1>6 DEF Learning, Active, Probe, EndActive, RankProbes, Retrain
  <2> QED BY <1>1, <1>2, <2>1, <2>2 DEF ProcedureInv
<1>7. ASSUME NEW seed, NEW kir, Boot(seed, kir) PROVE ProcedureInv'
  <2>1. UNCHANGED procedures /\ stage' = "idle"
    BY <1>7 DEF Boot
  <2> QED BY <1>2, <2>1 DEF ProcedureInv
<1>8. CASE UNCHANGED kernelVars \/ \E fails : ProbeKernel(fails)
  <2>1. UNCHANGED <<procedures, stage>>
    BY <1>8 DEF kernelVars, ProbeKernel
  <2> QED BY <2>1 DEF ProcedureInv
<1> QED BY <1>3, <1>4, <1>5, <1>6, <1>7, <1>8
        DEF ComputerNext, KernelSame, KernelProgram, KernelWork, DriftProgram, allVars

\* Of a slice, at most its four units were charged.
ChargedInv == slice.charged \in 0 .. 4

LEMMA ChargedStep == ASSUME ComputerInv, ChargedInv, [ComputerNext]_allVars PROVE ChargedInv'
<1>1. CASE Idles \/ Probes \/ Legs \/ Grades \/ Leaves
  BY <1>1 DEF Idles, Probes, Legs, Grades, Leaves, ChargedInv
<1>2. CASE Calls
  BY <1>2 DEF Calls, NoSlice, ChargedInv
<1>3. CASE Charge
  <2> DEFINE u == Units[slice.charged + 1]
  <2>1. slice.charged \in 0 .. 3 /\ u \in UnitSet
    BY <1>3, UnitFacts DEF Charge, ComputerInv, ChargeInv
  <2>2. CASE CanSpend(u, slice.runs[u])
    <3> HIDE DEF u
    <3>1. slice'.charged = slice.charged + 1
      BY <1>3, <2>1, <2>2, ChargePays DEF u
    <3> QED BY <2>1, <3>1 DEF ChargedInv
  <2>3. CASE ~CanSpend(u, slice.runs[u])
    BY <1>3, <2>3 DEF Charge, ChargedInv
  <2> QED BY <2>2, <2>3
<1> QED BY <1>1, <1>2, <1>3, StepKinds
-----------------------------------------------------------------------------
(* The exact oracle.  Demand is bounded (Demands); a state has natural     *)
(* times and counters; an oracle of this shape is, after a reset, the one  *)
(* its seed gives.                                                         *)

Demands == \A s \in Seq(Int), k \in Nat \ {0} : Demand(s, k) \in 1 .. MaxDemand

Kirs == [t : Nat, sw : Nat, lat : Int \cup Guesses, util : Int]

OracleAt(base, kir, seed, drawn, n) ==
  [base |-> base, kir |-> kir, seed |-> seed, drawn |-> drawn, calls |-> n]
OracleOK(o) ==
  /\ o = OracleAt(o.base, o.kir, o.seed, o.drawn, o.calls)
  /\ o.base \in Int /\ o.kir \in Kirs /\ o.seed \in Seq(Int) /\ o.drawn \in Nat /\ o.calls \in Nat

SimOK(s) ==
  /\ s = [kir |-> s.kir, seed |-> s.seed, drawn |-> s.drawn]
  /\ s.kir \in Kirs /\ s.seed \in Seq(Int) /\ s.drawn \in Nat

\* What an exact step makes of a state.
Follows(prev, next) ==
  /\ next \in Kirs /\ next.t = prev.t + 1
  /\ next.sw - prev.sw \in 0 .. MaxRate
  /\ next.lat \in MinLat .. MaxLat /\ next.util \in 0 .. MaxDemand

LEMMA QuotientIn == ASSUME NEW x \in Int, NEW y \in Nat \ {0} PROVE x \div y \in Int
  OBVIOUS

LEMMA TargetIs == ASSUME NEW a \in Nat PROVE Target(a) \in Nat \ {0}
  BY DEF Target, NoTarget, TRef

LEMMA RatesIn ==
  ASSUME NEW d \in 1 .. MaxDemand, NEW x \in Nat \ {0}
  PROVE  /\ EffectiveLatency(d, x) \in MinLat .. MaxLat
         /\ SwitchRate(d, x) \in 0 .. MaxRate
         /\ Util(d, x) \in 0 .. MaxDemand
<1>1. d \in Int /\ x \in Nat \ {0} /\ x \in Int
  BY DEF MaxDemand
<1>2. Overhead(d, x) \in Int
  <2>1. 2 * (2 + d) \in Int
    BY <1>1
  <2> QED BY <1>1, <2>1, QuotientIn DEF Overhead
<1>3. EffectiveLatency(d, x) \in MinLat .. MaxLat
  <2>1. 4 * d * x \in Int
    BY <1>1
  <2>2. (4 * d * x) \div 9 \in Int
    BY <2>1, QuotientIn
  <2>3. Queueing(d, x) + Overhead(d, x) \in Int
    BY <1>2, <2>2 DEF Queueing
  <2> QED BY <2>3 DEF EffectiveLatency, Clamp, MinLat, MaxLat
<1>4. SwitchRate(d, x) \in 0 .. MaxRate
  <2>1. 12 * d \in Int
    BY <1>1
  <2>2. (12 * d) \div x \in Int
    BY <1>1, <2>1, QuotientIn
  <2> QED BY <2>2 DEF SwitchRate, Clamp, MaxRate
<1>5. Util(d, x) \in 0 .. MaxDemand
  <2>1. 2 * EffectiveLatency(d, x) \in Nat \ {0}
    BY <1>3 DEF MinLat, MaxLat
  <2>2. Overhead(d, x) \div (2 * EffectiveLatency(d, x)) \in Int
    BY <1>2, <2>1, QuotientIn
  <2>3. d + Overhead(d, x) \div (2 * EffectiveLatency(d, x)) \in Int
    BY <1>1, <2>2
  <2> QED BY <2>3 DEF Util, Clamp, MaxDemand
<1> QED BY <1>3, <1>4, <1>5

LEMMA KirsAre ==
  /\ \A t, sw, lat, util : LET k == Kir(t, sw, lat, util)
                           IN  k.t = t /\ k.sw = sw /\ k.lat = lat /\ k.util = util
  /\ \A t \in Nat, sw \in Nat, lat \in Int \cup Guesses, util \in Int : Kir(t, sw, lat, util) \in Kirs
  BY DEF Kir, Kirs

\* A tick of a simulator or an oracle.
LEMMA TickFollows ==
  ASSUME NEW kir \in Kirs, NEW d \in 1 .. MaxDemand, NEW x \in Nat \ {0}
  PROVE  Follows(kir, Kir(kir.t + 1, kir.sw + SwitchRate(d, x), EffectiveLatency(d, x), Util(d, x)))
<1> DEFINE k == Kir(kir.t + 1, kir.sw + SwitchRate(d, x), EffectiveLatency(d, x), Util(d, x))
<1>1. kir.t \in Nat /\ kir.sw \in Nat
  BY DEF Kirs
<1>2. /\ EffectiveLatency(d, x) \in MinLat .. MaxLat
      /\ SwitchRate(d, x) \in 0 .. MaxRate
      /\ Util(d, x) \in 0 .. MaxDemand
  BY RatesIn
<1>3. /\ k.t = kir.t + 1 /\ k.sw = kir.sw + SwitchRate(d, x)
      /\ k.lat = EffectiveLatency(d, x) /\ k.util = Util(d, x)
  BY KirsAre
<1>4. k \in Kirs
  <2>1. kir.t + 1 \in Nat /\ kir.sw + SwitchRate(d, x) \in Nat
    BY <1>1, <1>2 DEF MaxRate
  <2>2. EffectiveLatency(d, x) \in Int \cup Guesses /\ Util(d, x) \in Int
    BY <1>2 DEF MinLat, MaxLat, MaxDemand
  <2> QED BY <2>1, <2>2, KirsAre
<1> HIDE DEF k
<1>5. k.sw - kir.sw \in 0 .. MaxRate
  BY <1>1, <1>2, <1>3 DEF MaxRate
<1>6. Follows(kir, k)
  BY <1>2, <1>3, <1>4, <1>5 DEF Follows
<1> QED BY <1>6 DEF k

LEMMA TickKir ==
  ASSUME Demands, NEW sim, {"kir", "seed", "drawn"} \subseteq DOMAIN sim,
         sim.kir \in Kirs, sim.seed \in Seq(Int), sim.drawn \in Nat, NEW a \in Nat
  PROVE  Follows(sim.kir, Tick(sim, a).kir)
<1> DEFINE d == NextDemand(sim)
           x == Target(a)
<1>1. d \in 1 .. MaxDemand
  <2>1. sim.drawn + 1 \in Nat \ {0}
    OBVIOUS
  <2> QED BY <2>1 DEF Demands, NextDemand
<1>2. Tick(sim, a).kir
        = Kir(sim.kir.t + 1, sim.kir.sw + SwitchRate(d, x), EffectiveLatency(d, x), Util(d, x))
  BY DEF Tick
<1>3. x \in Nat \ {0}
  BY TargetIs
<1> HIDE DEF d, x
<1> QED BY <1>1, <1>2, <1>3, TickFollows

\* A reset and a step of an oracle.
LEMMA ResetAt ==
  ASSUME NEW b, NEW k, NEW s, NEW d, NEW c, NEW kir
  PROVE  Reset(OracleAt(b, k, s, d, c), kir) = OracleAt(b, Restored(kir), WorkloadSeed(b, kir), 0, 0)
<1> DEFINE z == OracleAt(b, k, s, d, c)
           K == Restored(kir)
           W == WorkloadSeed(b, kir)
<1> HIDE DEF K, W
<1>1. Reset(z, kir) = [[[[z EXCEPT !.kir = K] EXCEPT !.calls = 0] EXCEPT !.drawn = 0] EXCEPT !.seed = W]
  <2>1. z.base = b
    BY DEF OracleAt
  <2> HIDE DEF z
  <2> QED BY <2>1 DEF Reset, K, W
<1>2. [z EXCEPT !.kir = K] = OracleAt(b, K, s, d, c)
  BY DEF OracleAt
<1>3. [OracleAt(b, K, s, d, c) EXCEPT !.calls = 0] = OracleAt(b, K, s, d, 0)
  BY DEF OracleAt
<1>4. [OracleAt(b, K, s, d, 0) EXCEPT !.drawn = 0] = OracleAt(b, K, s, 0, 0)
  BY DEF OracleAt
<1>5. [OracleAt(b, K, s, 0, 0) EXCEPT !.seed = W] = OracleAt(b, K, W, 0, 0)
  BY DEF OracleAt
<1> HIDE DEF z
<1>6. Reset(z, kir) = OracleAt(b, K, W, 0, 0)
  BY <1>1, <1>2, <1>3, <1>4, <1>5
<1> QED BY <1>6 DEF z, K, W

NextKir(o, a) ==
  Kir(o.kir.t + 1, o.kir.sw + SwitchRate(NextDemand(o), Target(a)),
      EffectiveLatency(NextDemand(o), Target(a)), Util(NextDemand(o), Target(a)))

LEMMA StepAt ==
  ASSUME NEW b, NEW k, NEW s, NEW d, NEW c, NEW a
  PROVE  Step(OracleAt(b, k, s, d, c), a)
           = OracleAt(b, NextKir(OracleAt(b, k, s, d, c), a), s, d + 1, c + 1)
<1> DEFINE z == OracleAt(b, k, s, d, c)
           K == NextKir(z, a)
<1>1. {"base", "kir", "seed", "drawn", "calls"} = DOMAIN z /\ z.drawn = d
  BY DEF OracleAt
<1>2. Tick(z, a) = [[z EXCEPT !.drawn = d + 1] EXCEPT !.kir = K]
  <2> HIDE DEF z
  <2> QED BY <1>1 DEF Tick, NextKir
<1> HIDE DEF K
<1>3. [z EXCEPT !.drawn = d + 1] = OracleAt(b, k, s, d + 1, c)
  BY DEF OracleAt
<1>4. [OracleAt(b, k, s, d + 1, c) EXCEPT !.kir = K] = OracleAt(b, K, s, d + 1, c)
  BY DEF OracleAt
<1>5. [OracleAt(b, K, s, d + 1, c) EXCEPT !.calls = @ + 1] = OracleAt(b, K, s, d + 1, c + 1)
  BY DEF OracleAt
<1> HIDE DEF z
<1>6. Tick(z, a) = OracleAt(b, K, s, d + 1, c)
  BY <1>2, <1>3, <1>4
<1>7. Step(z, a) = OracleAt(b, K, s, d + 1, c + 1)
  BY <1>5, <1>6 DEF Step
<1> QED BY <1>7 DEF z, K

LEMMA FreshOracle ==
  ASSUME NEW seed \in Int
  PROVE  OracleOK(NewOracle(seed)) /\ NewOracle(seed).base = seed
<1>1. Booted \in Kirs
  BY KirsAre DEF Booted, Epoch
<1> QED BY <1>1 DEF NewOracle, OracleOK, OracleAt

\* A reset forgets all but the seed.
LEMMA ResetIs ==
  ASSUME NEW o, OracleOK(o), NEW kir \in Kirs
  PROVE  /\ OracleOK(Reset(o, kir)) /\ Reset(o, kir) = Reset(NewOracle(o.base), kir)
         /\ Reset(o, kir).base = o.base /\ Reset(o, kir).calls = 0
         /\ Reset(o, kir).kir.t = Epoch /\ Reset(o, kir).kir.sw = kir.sw
<1>1. Restored(kir) \in Kirs /\ Restored(kir).t = Epoch /\ Restored(kir).sw = kir.sw
  BY DEF Restored, Kirs, Epoch
<1>2. ASSUME NEW x, OracleOK(x)
      PROVE  Reset(x, kir) = OracleAt(x.base, Restored(kir), WorkloadSeed(x.base, kir), 0, 0)
  <2>1. x = OracleAt(x.base, x.kir, x.seed, x.drawn, x.calls)
    BY <1>2 DEF OracleOK
  <2> QED BY <2>1, ResetAt
<1>3. Reset(o, kir) = Reset(NewOracle(o.base), kir)
  <2>1. o.base \in Int
    BY DEF OracleOK
  <2> QED BY <1>2, <2>1, FreshOracle
<1>4. OracleOK(Reset(o, kir))
  <2>1. kir.t \in Int /\ kir.sw \in Int /\ o.base \in Int
    BY DEF Kirs, OracleOK
  <2>2. WorkloadSeed(o.base, kir) \in Seq(Int)
    BY <2>1 DEF WorkloadSeed
  <2> DEFINE b == o.base
             k == Restored(kir)
             w == WorkloadSeed(b, kir)
             z == OracleAt(b, k, w, 0, 0)
  <2>3. Reset(o, kir) = z
    BY <1>2
  <2>4. b \in Int /\ k \in Kirs /\ w \in Seq(Int)
    BY <1>1, <2>1, <2>2
  <2> HIDE DEF b, k, w
  <2>5. z.base = b /\ z.kir = k /\ z.seed = w /\ z.drawn = 0 /\ z.calls = 0
    BY DEF OracleAt
  <2> HIDE DEF z
  <2>6. z = OracleAt(z.base, z.kir, z.seed, z.drawn, z.calls)
    BY <2>5 DEF z
  <2>7. OracleOK(z)
    BY <2>4, <2>5, <2>6 DEF OracleOK
  <2> QED BY <2>3, <2>7
<1> QED BY <1>1, <1>2, <1>3, <1>4 DEF OracleAt

LEMMA StepIs ==
  ASSUME Demands, NEW o, OracleOK(o), NEW a \in Nat
  PROVE  /\ OracleOK(Step(o, a)) /\ Step(o, a).base = o.base
         /\ Step(o, a).calls = o.calls + 1 /\ Follows(o.kir, Step(o, a).kir)
<1> DEFINE n == NextKir(o, a)
<1>1. DOMAIN o = {"base", "kir", "seed", "drawn", "calls"}
  BY DEF OracleOK, OracleAt
<1>2. Follows(o.kir, n)
  <2>1. Follows(o.kir, Tick(o, a).kir)
    BY <1>1, TickKir DEF OracleOK
  <2>2. Tick(o, a).kir = n
    BY <1>1 DEF Tick, NextKir
  <2> QED BY <2>1, <2>2
<1>3. Step(o, a) = OracleAt(o.base, n, o.seed, o.drawn + 1, o.calls + 1)
  BY StepAt DEF OracleOK
<1> HIDE DEF n
<1>4. n \in Kirs
  BY <1>2 DEF Follows
<1>5. o.drawn + 1 \in Nat /\ o.calls + 1 \in Nat
  BY DEF OracleOK
<1> QED BY <1>2, <1>3, <1>4, <1>5 DEF OracleOK, OracleAt
-----------------------------------------------------------------------------
(* The two lowerings compute the dot product.                              *)

LEMMA Least ==
  ASSUME NEW A \in SUBSET Nat, A # {}
  PROVE  \E n \in A : \A m \in A : n <= m
<1>1. PICK n \in A : \A m \in A : ~(<<m, n>> \in OpToRel(<, Nat))
  BY NatLessThanWellFounded, WFMin
<1>2. \A m \in A : ~(m < n)
  BY <1>1 DEF OpToRel
<1> QED BY <1>2

\* Where an instruction of a flattened program comes from.
Flat(s, l, i) == [k \in 1 .. i * l |-> s[((k - 1) \div l) + 1][((k - 1) % l) + 1]]

Blocks(T, l, m, s) ==
  s = [j \in 1 .. m |-> s[j]] /\ \A j \in 1 .. m : s[j] \in Seq(T) /\ Len(s[j]) = l

Joins(T, s, t, g) ==
  /\ g \in Seq(T) /\ Len(g) = Len(s) + Len(t)
  /\ \A k \in 1 .. Len(s) : g[k] = s[k]
  /\ \A k \in 1 .. Len(t) : g[Len(s) + k] = t[k]

LEMMA Joined ==
  ASSUME NEW T, NEW s \in Seq(T), NEW t \in Seq(T)
  PROVE  Joins(T, s, t, s \o t)
  BY DEF Joins

LEMMA SameItems ==
  ASSUME NEW T, NEW n, NEW s \in Seq(T), NEW t \in Seq(T), Len(s) = n, Len(t) = n,
         \A k \in 1 .. n : s[k] = t[k]
  PROVE  s = t
  OBVIOUS

Grows(T, s, l, i) ==
  /\ Flat(s, l, i) \in Seq(T)
  /\ Flat(s, l, i) = IF i = 1 THEN s[i] ELSE Flat(s, l, i - 1) \o s[i]

LEMMA FlatGrows ==
  ASSUME NEW T, NEW l \in {6, 8}, NEW m \in Nat, NEW s, NEW i \in 1 .. m, Blocks(T, l, m, s)
  PROVE  Grows(T, s, l, i)
<1>6. \A j \in 1 .. m : s[j] \in Seq(T) /\ Len(s[j]) = l
  BY DEF Blocks
<1>1. \A j \in 1 .. m : s[j] = [r \in 1 .. l |-> s[j][r]] /\ \A r \in 1 .. l : s[j][r] \in T
  BY <1>6
<1>2. ASSUME NEW k \in 1 .. i * l
      PROVE  ((k - 1) \div l) + 1 \in 1 .. i /\ ((k - 1) % l) + 1 \in 1 .. l
  <2>1. CASE l = 6
    BY <1>2, <2>1
  <2>2. CASE l = 8
    BY <1>2, <2>2
  <2> QED BY <2>1, <2>2
<1>3. Flat(s, l, i) \in Seq(T)
  <2>1. \A k \in 1 .. i * l : s[((k - 1) \div l) + 1][((k - 1) % l) + 1] \in T
    BY <1>1, <1>2, <1>6
  <2> DEFINE f == Flat(s, l, i)
             n == i * l
  <2>2. n \in Nat /\ f = [k \in 1 .. n |-> f[k]] /\ \A k \in 1 .. n : f[k] \in T
    BY <2>1 DEF Flat
  <2> HIDE DEF f, n
  <2>3. f \in Seq(T)
    BY <2>2
  <2> QED BY <2>3 DEF f
<1>4. ASSUME i = 1 PROVE Flat(s, l, i) = s[i]
  <2>1. ASSUME NEW k \in 1 .. l PROVE (k - 1) \div l = 0 /\ (k - 1) % l = k - 1
    <3>1. CASE l = 6
      BY <2>1, <3>1
    <3>2. CASE l = 8
      BY <2>1, <3>2
    <3> QED BY <3>1, <3>2
  <2>2. i * l = l
    BY <1>4
  <2>3. Flat(s, l, i) = [k \in 1 .. l |-> s[1][k]]
    BY <2>1, <2>2 DEF Flat
  <2>4. 1 \in 1 .. m
    BY <1>4
  <2> QED BY <1>1, <1>4, <2>3, <2>4
<1>5. ASSUME i # 1 PROVE Flat(s, l, i) = Flat(s, l, i - 1) \o s[i]
  <2> DEFINE h == i - 1
             f == Flat(s, l, h)
             g == Flat(s, l, i)
  <2>1. h \in 1 .. m /\ h \in Nat /\ i = h + 1 /\ i * l = h * l + l /\ h * l \in Nat
    BY <1>5
  <2>2. ASSUME NEW k \in 1 .. h * l
        PROVE  ((k - 1) \div l) + 1 \in 1 .. h /\ ((k - 1) % l) + 1 \in 1 .. l
    <3>1. CASE l = 6
      BY <2>1, <2>2, <3>1
    <3>2. CASE l = 8
      BY <2>1, <2>2, <3>2
    <3> QED BY <3>1, <3>2
  <2>3. f \in Seq(T) /\ Len(f) = h * l
    <3>1. \A k \in 1 .. h * l : s[((k - 1) \div l) + 1][((k - 1) % l) + 1] \in T
      BY <1>1, <1>6, <2>1, <2>2
    <3> QED BY <2>1, <3>1 DEF Flat
  <2>4. g \in Seq(T) /\ Len(g) = h * l + l
    <3> DEFINE n == i * l
    <3>1. n \in Nat /\ n = h * l + l
      BY <2>1
    <3>2. DOMAIN g = 1 .. n
      BY DEF Flat
    <3> HIDE DEF n, g, h
    <3>3. g \in Seq(T) /\ Len(g) = n
      BY <1>3, <3>1, <3>2 DEF g
    <3> QED BY <3>1, <3>3
  <2>5. ASSUME NEW k \in 1 .. h * l + l
        PROVE  g[k] = (f \o s[i])[k]
    <3>1. g[k] = s[((k - 1) \div l) + 1][((k - 1) % l) + 1]
      BY <2>1 DEF Flat
    <3>2. CASE k <= h * l
      <4>1. k \in 1 .. h * l
        BY <2>1, <3>2
      <4>2. f[k] = s[((k - 1) \div l) + 1][((k - 1) % l) + 1]
        BY <4>1 DEF Flat
      <4> HIDE DEF f, g, h
      <4>3. (f \o s[i])[k] = f[k]
        BY <1>1, <1>6, <2>3, <4>1
      <4> QED BY <3>1, <4>2, <4>3
    <3>3. CASE ~(k <= h * l)
      <4>1. (k - 1) \div l = h /\ ((k - 1) % l) + 1 = k - h * l /\ k - h * l \in 1 .. l
        <5>1. CASE l = 6
          BY <2>1, <3>3, <5>1
        <5>2. CASE l = 8
          BY <2>1, <3>3, <5>2
        <5> QED BY <5>1, <5>2
      <4> HIDE DEF f, g, h
      <4>2. (f \o s[i])[k] = s[i][k - h * l]
        BY <1>1, <1>6, <2>1, <2>3, <3>3, <4>1
      <4> QED BY <2>1, <3>1, <4>1, <4>2
    <3> QED BY <3>2, <3>3
  <2> HIDE DEF f, g, h
  <2>6. f \o s[i] \in Seq(T) /\ Len(f \o s[i]) = h * l + l
    <3>1. s[i] \in Seq(T) /\ Len(s[i]) = l
      BY <1>6
    <3>2. Joins(T, f, s[i], f \o s[i])
      BY <2>3, <3>1, Joined
    <3>3. f \o s[i] \in Seq(T) /\ Len(f \o s[i]) = Len(f) + Len(s[i])
      BY <3>2, Zenon DEF Joins
    <3> QED BY <2>3, <3>1, <3>3
  <2>7. g = f \o s[i]
    <3> DEFINE n == h * l + l
               c == f \o s[i]
    <3>1. g \in Seq(T) /\ Len(g) = n /\ c \in Seq(T) /\ Len(c) = n /\ \A k \in 1 .. n : g[k] = c[k]
      BY <2>4, <2>5, <2>6, Zenon
    <3> HIDE DEF n, c
    <3>2. g = c
      BY <3>1, SameItems
    <3> QED BY <3>2 DEF c
  <2> QED BY <1>5, <2>7, Zenon DEF f, g, h
<1> QED BY <1>3, <1>4, <1>5 DEF Grows

LEMMA FlattenIs ==
  ASSUME NEW T, NEW l \in {6, 8}, NEW m \in Nat, m # 0, NEW s, Blocks(T, l, m, s)
  PROVE  FlattenSeq(s) = Flat(s, l, m)
<1>0. ASSUME NEW i \in 1 .. m
      PROVE  Flat(s, l, i) = IF i = 1 THEN s[i] ELSE Flat(s, l, i - 1) \o s[i]
  <2>1. Grows(T, s, l, i)
    BY <1>0, FlatGrows
  <2> QED BY <2>1, Zenon DEF Grows
<1> DEFINE Equation(f) == f = [i \in 1 .. m |-> IF i = 1 THEN s[i] ELSE f[i - 1] \o s[i]]
           G == CHOOSE f : Equation(f)
           F == [i \in 1 .. m |-> Flat(s, l, i)]
<1>1. Len(s) = m
  <2>1. s \in Seq(Seq(T)) /\ DOMAIN s = 1 .. m
    BY DEF Blocks
  <2> QED BY <2>1
<1>2. FlattenSeq(s) = G[m]
  BY <1>1, Zenon DEF FlattenSeq
<1>3. \A i \in 1 .. m : F[i] = IF i = 1 THEN s[i] ELSE F[i - 1] \o s[i]
  <2> SUFFICES ASSUME NEW i \in 1 .. m PROVE F[i] = IF i = 1 THEN s[i] ELSE F[i - 1] \o s[i]
    OBVIOUS
  <2>1. Flat(s, l, i) = IF i = 1 THEN s[i] ELSE Flat(s, l, i - 1) \o s[i]
    BY <1>0
  <2>2. i # 1 => i - 1 \in 1 .. m
    OBVIOUS
  <2> QED BY <2>1, <2>2
<1>4. Equation(F)
  <2>1. F = [i \in 1 .. m |-> F[i]]
    OBVIOUS
  <2> HIDE DEF F
  <2> QED BY <1>3, <2>1
<1>5. Equation(G)
  BY <1>4, Zenon
<1> DEFINE Separate == {i \in Nat : i \in 1 .. m /\ G[i] # F[i]}
<1>6. Separate = {}
  <2>1. SUFFICES ASSUME Separate # {} PROVE FALSE
    OBVIOUS
  <2>2. PICK i \in Separate : \A j \in Separate : i <= j
    BY <2>1, Least
  <2>3. i \in 1 .. m /\ G[i] # F[i]
    BY <2>2
  <2>4. G[i] = IF i = 1 THEN s[i] ELSE G[i - 1] \o s[i]
    <3> HIDE DEF G
    <3> QED BY <1>5, <2>3
  <2>5. F[i] = IF i = 1 THEN s[i] ELSE F[i - 1] \o s[i]
    BY <1>3, <2>3
  <2>6. i # 1 => G[i - 1] = F[i - 1]
    <3>1. i # 1 => i - 1 \in Nat /\ i - 1 \in 1 .. m /\ ~(i <= i - 1)
      BY <2>3
    <3> HIDE DEF G, F
    <3> QED BY <2>2, <3>1
  <2> HIDE DEF G, F
  <2> QED BY <2>3, <2>4, <2>5, <2>6
<1>7. G[m] = F[m]
  <2> HIDE DEF G, F
  <2> QED BY <1>6
<1> HIDE DEF G
<1> QED BY <1>2, <1>7

\* An instruction of a program that is made of blocks.
Mnemonics == {"LOAD", "STORE", "ADDI", "MUL", "ADD", "VMUL", "VADD", "HALT"}
Instrs == [op : Mnemonics, rd : Int, rs1 : Int, rs2 : Int, imm : Int]

LEMMA InsIs ==
  ASSUME NEW op \in Mnemonics, NEW rd \in Int, NEW rs1 \in Int, NEW rs2 \in Int, NEW imm \in Int
  PROVE  Ins(op, rd, rs1, rs2, imm) \in Instrs
  BY DEF Ins, Instrs

Around(s) == ClearAcc \o FlattenSeq(s) \o StoreAcc

Framed(l, m, s, p) ==
  /\ Len(p) = l * m + 3 /\ p[1] = Ins("ADDI", 3, 0, 0, 0)
  /\ \A j \in 0 .. m - 1, r \in 1 .. l : p[j * l + r + 1] = s[j + 1][r]
  /\ p[l * m + 2] = StoreReg(3, OutAddr) /\ p[l * m + 3] = Ins("HALT", 0, 0, 0, 0)

LEMMA AroundIs ==
  ASSUME NEW l \in {6, 8}, NEW m \in Nat, m # 0, NEW s, Blocks(Instrs, l, m, s)
  PROVE  Around(s) \in Seq(Instrs) /\ Framed(l, m, s, Around(s))
<1> DEFINE f == Flat(s, l, m)
<1>1. FlattenSeq(s) = f
  BY FlattenIs, Zenon
<1>2. f \in Seq(Instrs)
  <2>1. m \in 1 .. m
    OBVIOUS
  <2>2. Grows(Instrs, s, l, m)
    BY <2>1, FlatGrows
  <2> QED BY <2>2, Zenon DEF Grows
<1>3. Len(f) = l * m /\ l * m \in Nat
  <2>1. l * m \in Nat /\ m * l = l * m
    OBVIOUS
  <2> QED BY <2>1 DEF Flat
<1>4. ASSUME NEW j \in 0 .. m - 1, NEW r \in 1 .. l
      PROVE  j * l + r \in 1 .. l * m /\ f[j * l + r] = s[j + 1][r]
  <2> DEFINE k == j * l + r
  <2>1. k \in 1 .. l * m /\ k \in 1 .. m * l /\ (k - 1) \div l = j /\ ((k - 1) % l) + 1 = r
    <3>1. CASE l = 6
      BY <1>4, <3>1
    <3>2. CASE l = 8
      BY <1>4, <3>2
    <3> QED BY <3>1, <3>2
  <2> HIDE DEF k
  <2>2. f[k] = s[j + 1][r]
    BY <2>1 DEF Flat
  <2> QED BY <2>1, <2>2 DEF k
<1>5. /\ ClearAcc \in Seq(Instrs) /\ Len(ClearAcc) = 1 /\ ClearAcc[1] = Ins("ADDI", 3, 0, 0, 0)
      /\ StoreAcc \in Seq(Instrs) /\ Len(StoreAcc) = 2 /\ StoreAcc[1] = StoreReg(3, OutAddr)
      /\ StoreAcc[2] = Ins("HALT", 0, 0, 0, 0)
  <2>1. /\ Ins("ADDI", 3, 0, 0, 0) \in Instrs /\ StoreReg(3, OutAddr) \in Instrs
        /\ Ins("HALT", 0, 0, 0, 0) \in Instrs
    BY InsIs DEF Mnemonics, StoreReg, OutAddr
  <2> QED BY <2>1 DEF ClearAcc, StoreAcc
<1> DEFINE g == ClearAcc \o f
           n == l * m
<1> HIDE DEF f, n
<1>6. /\ g \in Seq(Instrs) /\ Len(g) = n + 1 /\ g[1] = ClearAcc[1]
      /\ \A k \in 1 .. n : g[k + 1] = f[k]
  <2>3. ClearAcc \in Seq(Instrs) /\ Len(ClearAcc) = 1
    BY <1>5
  <2>1. Joins(Instrs, ClearAcc, f, g)
    BY <1>2, <2>3, Joined
  <2>2. Len(f) = n /\ n \in Nat
    BY <1>3 DEF n
  <2> HIDE DEF g
  <2> QED BY <2>1, <2>2, <2>3 DEF Joins
<1> HIDE DEF g
<1> DEFINE p == g \o StoreAcc
<1>8. n \in Nat
  BY <1>3 DEF n
<1>9. /\ p \in Seq(Instrs) /\ Len(p) = n + 3 /\ \A k \in 1 .. n + 1 : p[k] = g[k]
      /\ p[n + 2] = StoreAcc[1] /\ p[n + 3] = StoreAcc[2]
  <2>4. StoreAcc \in Seq(Instrs) /\ g \in Seq(Instrs)
    BY <1>5, <1>6
  <2>1. Joins(Instrs, g, StoreAcc, p)
    BY <2>4, Joined
  <2> HIDE DEF p
  <2> QED BY <1>5, <1>6, <1>8, <2>1 DEF Joins
<1>10. Around(s) = p
  BY <1>1 DEF Around, g
<1> HIDE DEF p
<1>11. ASSUME NEW j \in 0 .. m - 1, NEW r \in 1 .. l PROVE p[j * l + r + 1] = s[j + 1][r]
  <2> DEFINE k == j * l + r
  <2>1. k \in 1 .. n /\ f[k] = s[j + 1][r]
    BY <1>4 DEF n
  <2> HIDE DEF k
  <2>2. k + 1 \in 1 .. n + 1
    BY <1>8, <2>1
  <2>3. p[k + 1] = s[j + 1][r]
    BY <1>6, <1>9, <2>1, <2>2
  <2> QED BY <2>3 DEF k
<1>12. 1 \in 1 .. n + 1
  BY <1>8
<1> QED BY <1>5, <1>6, <1>9, <1>10, <1>11, <1>12 DEF n, Framed

LEMMA ElementsAre ==
  ASSUME NEW n \in Nat
  PROVE  Blocks(Instrs, 6, n, [k \in 1 .. n |-> Element(k - 1)])
<1>1. ASSUME NEW i \in Nat PROVE Element(i) \in Seq(Instrs) /\ Len(Element(i)) = 6
  <2>1. /\ LoadReg(5, ABase + i) \in Instrs /\ LoadReg(6, BBase + i) \in Instrs
        /\ Ins("MUL", 7, 5, 6, 0) \in Instrs /\ Ins("ADD", 3, 3, 7, 0) \in Instrs
        /\ StoreReg(3, SpillAddr) \in Instrs /\ LoadReg(3, SpillAddr) \in Instrs
    BY InsIs DEF Mnemonics, LoadReg, StoreReg, ABase, BBase, SpillAddr
  <2> QED BY <2>1 DEF Element
<1>2. \A k \in 1 .. n : k - 1 \in Nat
  OBVIOUS
<1> QED BY <1>1, <1>2 DEF Blocks

LEMMA BlocksAre ==
  ASSUME NEW n \in Nat
  PROVE  Blocks(Instrs, 8, n, [k \in 1 .. n |-> Block(2 * k - 2)])
<1>1. ASSUME NEW i \in Nat PROVE Block(i) \in Seq(Instrs) /\ Len(Block(i)) = 8
  <2>1. /\ LoadReg(5, ABase + i) \in Instrs /\ LoadReg(6, BBase + i) \in Instrs
        /\ LoadReg(8, ABase + i + 1) \in Instrs /\ LoadReg(9, BBase + i + 1) \in Instrs
    BY InsIs DEF Mnemonics, LoadReg, ABase, BBase
  <2>2. /\ Ins("VMUL", 7, 5, 6, 0) \in Instrs /\ Ins("VMUL", 10, 8, 9, 0) \in Instrs
        /\ Ins("VADD", 11, 7, 10, 0) \in Instrs /\ Ins("ADD", 3, 3, 11, 0) \in Instrs
    BY InsIs DEF Mnemonics
  <2> QED BY <2>1, <2>2 DEF Block
<1>2. \A k \in 1 .. n : 2 * k - 2 \in Nat
  OBVIOUS
<1> QED BY <1>1, <1>2 DEF Blocks

\* A walk: its oracle keeps its seed and counts the steps, its total is a number,
\* and it breaks nothing but, from a later start, the time.
Waived(start) == IF start.t > Epoch THEN {"I2 time"} ELSE {}

WalkFact(p, n, w) ==
  /\ OracleOK(w.oracle) /\ w.oracle.base = p.base /\ w.oracle.calls = n
  /\ w.total \in Int /\ w.kir \in Kirs /\ w.broken \subseteq Waived(p.start)
  /\ n = 0 => w.kir = p.start /\ w.oracle.kir.t = Epoch /\ w.oracle.kir.sw = p.start.sw
  /\ n # 0 => w.kir = w.oracle.kir

Walking == INSTANCE Folding WITH Next <- WalkStep, Fact <- WalkFact

LEMMA WalkFold ==
  ASSUME NEW b, NEW s
  PROVE  FoldLeft(WalkStep, b, s) = Walking!Folded(b, s)
  BY Zenon DEF FoldLeft, Walking!Folded, MapThenFoldSet, Walking!MapThenFoldSet, Max, Walking!Max

LEMMA RewardIsNumber ==
  ASSUME NEW prev \in Kirs, NEW next \in Kirs, next.lat \in Int
  PROVE  StepReward(prev, next) \in Int
<1>1. /\ prev.t \in Nat /\ prev.sw \in Nat /\ next.t \in Nat /\ next.sw \in Nat
      /\ next.lat \in Int /\ next.util \in Int
  BY DEF Kirs
<1>2. Advance(prev, next) \in Nat
  BY <1>1 DEF Advance
<1>3. Throughput(prev, next) \in Int
  <2> DEFINE x == IF next.t > prev.t THEN Advance(prev, next) \div (next.t - prev.t)
                  ELSE 500 * Advance(prev, next)
  <2>1. x \in Int
    <3>1. CASE next.t > prev.t
      <4>1. next.t - prev.t \in Nat \ {0}
        BY <1>1, <3>1
      <4>2. Advance(prev, next) \div (next.t - prev.t) \in Int
        BY <1>2, <4>1, QuotientIn
      <4> QED BY <3>1, <4>2
    <3>2. CASE ~(next.t > prev.t)
      BY <1>2, <3>2
    <3> QED BY <3>1, <3>2
  <2>2. Throughput(prev, next) = Clamp(0, x, NormThroughput)
    BY DEF Throughput
  <2> HIDE DEF x
  <2> QED BY <2>1, <2>2 DEF Clamp, NormThroughput
<1>4. Thrash(Throughput(prev, next)) \in Int
  BY <1>3 DEF Thrash, Tau
<1>5. Clamp(0, next.lat, NormLat) \in Int
  BY <1>1 DEF Clamp, NormLat
<1> QED BY <1>1, <1>3, <1>4, <1>5 DEF StepReward

LEMMA NothingBroken ==
  ASSUME NEW prev \in Kirs, NEW next, Follows(prev, next)
  PROVE  Violations(prev, next) = {}
<1>1. prev.t \in Nat /\ prev.sw \in Nat /\ next.t \in Nat /\ next.sw \in Nat
  BY DEF Kirs, Follows
<1>2. /\ ~(next.sw < prev.sw) /\ next.t - prev.t = 1
      /\ next.util \in 0 .. MaxDemand /\ ~(next.lat <= 0) /\ ~(next.lat > MaxLat)
      /\ ~(next.sw - prev.sw > MaxRate * (next.t - prev.t))
  BY <1>1 DEF Follows, MaxDemand, MinLat, MaxLat, MaxRate
<1>3. next.t - prev.t \in 1 .. 2
  BY <1>2
<1> QED BY <1>2, <1>3 DEF Violations

LEMMA FirstBroken ==
  ASSUME NEW start \in Kirs, NEW from \in Kirs, from.t = Epoch, from.sw = start.sw,
         NEW next, Follows(from, next)
  PROVE  Violations(start, next) \subseteq Waived(start)
<1>1. start.t \in Nat /\ start.sw \in Nat /\ next.t = 1 /\ next.sw \in Nat
  BY DEF Kirs, Follows, Epoch
<1>2. /\ ~(next.sw < start.sw)
      /\ next.util \in 0 .. MaxDemand /\ ~(next.lat <= 0) /\ ~(next.lat > MaxLat)
      /\ next.sw - start.sw <= MaxRate
  BY <1>1 DEF Follows, MaxDemand, MinLat, MaxLat, MaxRate
<1>3. ~(next.t > start.t /\ next.sw - start.sw > MaxRate * (next.t - start.t))
  BY <1>1, <1>2 DEF MaxRate
<1>4. start.t = Epoch => next.t - start.t \in 1 .. 2
  BY <1>1 DEF Epoch
<1>5. start.t # Epoch => start.t > Epoch
  BY <1>1 DEF Epoch
<1> QED BY <1>2, <1>3, <1>4, <1>5 DEF Violations, Waived

LEMMA WalkGoesOn ==
  ASSUME Demands, NEW p, p.start \in Kirs, NEW n \in Nat, NEW w, WalkFact(p, n, w), NEW a \in Nat
  PROVE  WalkFact(p, n + 1, WalkStep(w, a))
<1> DEFINE o == Step(w.oracle, a)
           v == WalkStep(w, a)
<1>1. /\ OracleOK(w.oracle) /\ w.oracle.base = p.base /\ w.oracle.calls = n
      /\ w.total \in Int /\ w.kir \in Kirs /\ w.broken \subseteq Waived(p.start)
  BY DEF WalkFact
<1>2. OracleOK(o) /\ o.base = p.base /\ o.calls = n + 1 /\ Follows(w.oracle.kir, o.kir)
  BY <1>1, StepIs
<1>3. /\ v.oracle = o /\ v.kir = o.kir /\ v.total = w.total + StepReward(w.kir, o.kir)
      /\ v.broken = w.broken \cup Violations(w.kir, o.kir)
  BY DEF WalkStep
<1>4. o.kir \in Kirs /\ o.kir.lat \in Int /\ w.oracle.kir \in Kirs
  <2>1. o.kir \in Kirs /\ o.kir.lat \in MinLat .. MaxLat
    BY <1>2 DEF Follows
  <2>2. w.oracle.kir \in Kirs
    BY <1>1 DEF OracleOK
  <2>3. MinLat .. MaxLat \subseteq Int
    BY DEF MinLat, MaxLat
  <2> QED BY <2>1, <2>2, <2>3, Zenon
<1> HIDE DEF o, v
<1>5. v.total \in Int
  <2>1. StepReward(w.kir, o.kir) \in Int
    BY <1>1, <1>4, RewardIsNumber
  <2> QED BY <1>1, <1>3, <2>1
<1>6. Violations(w.kir, o.kir) \subseteq Waived(p.start)
  <2>1. CASE n = 0
    <3>1. w.kir = p.start /\ w.oracle.kir.t = Epoch /\ w.oracle.kir.sw = p.start.sw
      BY <2>1 DEF WalkFact
    <3> QED BY <1>2, <1>4, <3>1, FirstBroken
  <2>2. CASE n # 0
    <3>1. w.kir = w.oracle.kir
      BY <2>2 DEF WalkFact
    <3> QED BY <1>2, <1>4, <3>1, NothingBroken
  <2> QED BY <2>1, <2>2
<1>7. n + 1 # 0
  OBVIOUS
<1>8. WalkFact(p, n + 1, v)
  BY <1>1, <1>2, <1>3, <1>4, <1>5, <1>6, <1>7 DEF WalkFact
<1> QED BY <1>8 DEF v

\* What a walk says depends on nothing that the oracle was used for before.
LEMMA WalkIs ==
  ASSUME Demands, NEW o, OracleOK(o), NEW start \in Kirs, NEW acts \in Seq(Nat)
  PROVE  /\ OracleOK(Walk(o, start, acts).oracle)
         /\ Walk(o, start, acts).oracle.base = o.base
         /\ Walk(o, start, acts).oracle.calls = Len(acts)
         /\ Walk(o, start, acts).total = ExactReward(o.base, start, acts)
         /\ ExactReward(o.base, start, acts) \in Int
         /\ Walk(o, start, acts).broken \subseteq Waived(start)
<1> DEFINE b == [oracle |-> Reset(o, start), kir |-> start, total |-> 0, broken |-> {}]
           p == [base |-> o.base, start |-> start]
<1>1. p.base = o.base /\ p.start = start
  OBVIOUS
<1>2. b.oracle = Reset(o, start) /\ b.kir = start /\ b.total = 0 /\ b.broken = {}
  OBVIOUS
<1>3. Walk(o, start, acts) = FoldLeft(WalkStep, b, acts)
  BY DEF Walk
<1>4. Walk(NewOracle(o.base), start, acts) = FoldLeft(WalkStep, b, acts)
  <2>1. Reset(NewOracle(o.base), start) = Reset(o, start)
    BY ResetIs
  <2>2. Walk(NewOracle(o.base), start, acts)
          = FoldLeft(WalkStep, [oracle |-> Reset(NewOracle(o.base), start), kir |-> start,
                                total |-> 0, broken |-> {}], acts)
    BY DEF Walk
  <2> QED BY <2>1, <2>2
<1> HIDE DEF b, p
<1>5. WalkFact(p, 0, b)
  BY <1>1, <1>2, ResetIs DEF WalkFact
<1>6. \A n \in 0 .. Len(acts) - 1 : \A w : WalkFact(p, n, w) => WalkFact(p, n + 1, WalkStep(w, acts[n + 1]))
  <2> SUFFICES ASSUME NEW n \in 0 .. Len(acts) - 1, NEW w, WalkFact(p, n, w)
               PROVE  WalkFact(p, n + 1, WalkStep(w, acts[n + 1]))
    OBVIOUS
  <2>1. n \in Nat /\ acts[n + 1] \in Nat
    OBVIOUS
  <2> QED BY <1>1, <2>1, WalkGoesOn
<1>7. WalkFact(p, Len(acts), FoldLeft(WalkStep, b, acts))
  BY <1>5, <1>6, WalkFold, Walking!FoldLeftKeeps
<1> QED BY <1>1, <1>3, <1>4, <1>7 DEF WalkFact, ExactReward

\* The heuristic policy acts on an oracle as any caller does.
HeuristicFact(p, n, w) == OracleOK(w.oracle) /\ w.oracle.base = p

Acting == INSTANCE Folding WITH Next <- HeuristicStep, Fact <- HeuristicFact

LEMMA HeuristicFold ==
  ASSUME NEW b, NEW s
  PROVE  FoldLeft(HeuristicStep, b, s) = Acting!Folded(b, s)
  BY Zenon DEF FoldLeft, Acting!Folded, MapThenFoldSet, Acting!MapThenFoldSet, Max, Acting!Max

LEMMA HeuristicIs ==
  ASSUME Demands, NEW o, OracleOK(o), NEW start \in Kirs, NEW h \in Nat
  PROVE  OracleOK(HeuristicReward(o, start, h).oracle) /\ HeuristicReward(o, start, h).oracle.base = o.base
<1> DEFINE b == [oracle |-> Reset(o, start), kir |-> start, total |-> 0,
                 policy |-> [tight |-> FALSE, last |-> NoTarget, act |-> NoTarget]]
           s == [i \in 1 .. h |-> i]
<1>1. s \in Seq(Nat)
  OBVIOUS
<1>2. b.oracle = Reset(o, start)
  OBVIOUS
<1>3. HeuristicReward(o, start, h) = FoldLeft(HeuristicStep, b, s)
  BY DEF HeuristicReward
<1> HIDE DEF b, s
<1>4. HeuristicFact(o.base, 0, b)
  BY <1>2, ResetIs DEF HeuristicFact
<1>5. \A n \in 0 .. Len(s) - 1 : \A w :
        HeuristicFact(o.base, n, w) => HeuristicFact(o.base, n + 1, HeuristicStep(w, s[n + 1]))
  <2> SUFFICES ASSUME NEW n \in 0 .. Len(s) - 1, NEW w, HeuristicFact(o.base, n, w)
               PROVE  HeuristicFact(o.base, n + 1, HeuristicStep(w, s[n + 1]))
    OBVIOUS
  <2> DEFINE q == Heuristic(w.policy, w.kir.util)
             v == HeuristicStep(w, s[n + 1])
  <2>1. q.act \in Nat
    BY DEF Heuristic, NoTarget
  <2>2. v.oracle = Step(w.oracle, q.act)
    BY DEF HeuristicStep
  <2> HIDE DEF q, v
  <2>3. OracleOK(v.oracle) /\ v.oracle.base = o.base
    BY <2>1, <2>2, StepIs DEF HeuristicFact
  <2>4. HeuristicFact(o.base, n + 1, v)
    BY <2>3 DEF HeuristicFact
  <2> QED BY <2>4 DEF v
<1>6. HeuristicFact(o.base, Len(s), FoldLeft(HeuristicStep, b, s))
  BY <1>1, <1>4, <1>5, HeuristicFold, Acting!FoldLeftKeeps
<1> QED BY <1>3, <1>6 DEF HeuristicFact

\* The states of a trace follow one another.
DriveFact(p, n, s) ==
  /\ SimOK(s.sim) /\ s.kirs \in Seq(Kirs) /\ Len(s.kirs) = n + 1 /\ s.kirs[n + 1] = s.sim.kir
  /\ \A i \in 2 .. n + 1 : Follows(s.kirs[i - 1], s.kirs[i])

Driving == INSTANCE Folding WITH Next <- DriveStep, Fact <- DriveFact

LEMMA DriveFold ==
  ASSUME NEW b, NEW s
  PROVE  FoldLeft(DriveStep, b, s) = Driving!Folded(b, s)
  BY Zenon DEF FoldLeft, Driving!Folded, MapThenFoldSet, Driving!MapThenFoldSet, Max, Driving!Max

LEMMA TickIs ==
  ASSUME Demands, NEW s, SimOK(s), NEW a \in Nat
  PROVE  SimOK(Tick(s, a)) /\ Follows(s.kir, Tick(s, a).kir)
<1>1. DOMAIN s = {"kir", "seed", "drawn"} /\ s.drawn \in Nat
  BY DEF SimOK
<1>2. Follows(s.kir, Tick(s, a).kir)
  BY <1>1, TickKir DEF SimOK
<1>3. Tick(s, a).kir \in Kirs
  BY <1>2 DEF Follows
<1>4. Tick(s, a) = [[s EXCEPT !.drawn = s.drawn + 1] EXCEPT !.kir = NextKir(s, a)]
  BY <1>1 DEF Tick, NextKir
<1> DEFINE t == [s EXCEPT !.drawn = s.drawn + 1]
           K == NextKir(s, a)
<1>5. t = [kir |-> s.kir, seed |-> s.seed, drawn |-> s.drawn + 1]
  BY <1>1 DEF SimOK
<1> HIDE DEF K, t
<1>6. [t EXCEPT !.kir = K] = [kir |-> K, seed |-> s.seed, drawn |-> s.drawn + 1]
  BY <1>5, [[kir |-> s.kir, seed |-> s.seed, drawn |-> s.drawn + 1] EXCEPT !.kir = K]
             = [kir |-> K, seed |-> s.seed, drawn |-> s.drawn + 1]
<1>7. Tick(s, a) = [kir |-> K, seed |-> s.seed, drawn |-> s.drawn + 1]
  BY <1>4, <1>6 DEF t, K
<1> QED BY <1>1, <1>2, <1>3, <1>7 DEF SimOK

LEMMA DriveGoesOn ==
  ASSUME Demands, NEW p, NEW n \in Nat, NEW s, DriveFact(p, n, s), NEW a \in Nat
  PROVE  DriveFact(p, n + 1, DriveStep(s, a))
<1> DEFINE t == Tick(s.sim, a)
           v == DriveStep(s, a)
           ks == Append(s.kirs, t.kir)
<1>1. /\ SimOK(s.sim) /\ s.kirs \in Seq(Kirs) /\ Len(s.kirs) = n + 1 /\ s.kirs[n + 1] = s.sim.kir
      /\ \A i \in 2 .. n + 1 : Follows(s.kirs[i - 1], s.kirs[i])
  BY DEF DriveFact
<1>2. SimOK(t) /\ Follows(s.sim.kir, t.kir) /\ t.kir \in Kirs
  BY <1>1, TickIs DEF Follows
<1>3. v.sim = t /\ v.kirs = ks
  BY DEF DriveStep
<1> HIDE DEF t, v
<1>4. ks \in Seq(Kirs) /\ Len(ks) = n + 2 /\ ks[n + 2] = t.kir /\ \A i \in 1 .. n + 1 : ks[i] = s.kirs[i]
  BY <1>1, <1>2
<1> HIDE DEF ks
<1>5. ASSUME NEW i \in 2 .. n + 2 PROVE Follows(ks[i - 1], ks[i])
  <2>1. CASE i = n + 2
    <3>1. i - 1 = n + 1 /\ i - 1 \in 1 .. n + 1
      BY <2>1
    <3> QED BY <1>1, <1>2, <1>4, <2>1, <3>1
  <2>2. CASE i # n + 2
    <3>1. i \in 2 .. n + 1 /\ i \in 1 .. n + 1 /\ i - 1 \in 1 .. n + 1
      BY <2>2
    <3> QED BY <1>1, <1>4, <3>1
  <2> QED BY <2>1, <2>2
<1>6. (n + 1) + 1 = n + 2
  OBVIOUS
<1>7. DriveFact(p, n + 1, v)
  BY <1>2, <1>3, <1>4, <1>5, <1>6 DEF DriveFact
<1> QED BY <1>7 DEF v

LEMMA DrivenIs ==
  ASSUME Demands, NEW sim, SimOK(sim), NEW acts \in Seq(Nat)
  PROVE  /\ Driven(sim, acts) \in Seq(Kirs) /\ Len(Driven(sim, acts)) = Len(acts) + 1
         /\ Scored(Driven(sim, acts)) = {}
<1> DEFINE b == [sim |-> sim, kirs |-> <<sim.kir>>]
           f == FoldLeft(DriveStep, b, acts)
           n == Len(acts)
<1>1. b.sim = sim /\ b.kirs = <<sim.kir>> /\ n \in Nat
  OBVIOUS
<1>2. Driven(sim, acts) = f.kirs
  BY DEF Driven
<1> HIDE DEF b, n
<1>3. DriveFact(0, 0, b)
  <2>1. sim.kir \in Kirs
    BY DEF SimOK
  <2>2. b.kirs \in Seq(Kirs) /\ Len(b.kirs) = 0 + 1 /\ b.kirs[0 + 1] = sim.kir
    BY <1>1, <2>1
  <2>3. 2 .. 0 + 1 = {}
    OBVIOUS
  <2> QED BY <1>1, <2>2, <2>3 DEF DriveFact
<1>4. \A k \in 0 .. Len(acts) - 1 : \A w : DriveFact(0, k, w) => DriveFact(0, k + 1, DriveStep(w, acts[k + 1]))
  <2> SUFFICES ASSUME NEW k \in 0 .. Len(acts) - 1, NEW w, DriveFact(0, k, w)
               PROVE  DriveFact(0, k + 1, DriveStep(w, acts[k + 1]))
    OBVIOUS
  <2>1. k \in Nat /\ acts[k + 1] \in Nat
    OBVIOUS
  <2> QED BY <2>1, DriveGoesOn
<1>5. DriveFact(0, n, f)
  BY <1>3, <1>4, DriveFold, Driving!FoldLeftKeeps DEF n
<1> HIDE DEF f
<1>6. /\ f.kirs \in Seq(Kirs) /\ Len(f.kirs) = n + 1
      /\ \A i \in 2 .. n + 1 : Follows(f.kirs[i - 1], f.kirs[i])
  BY <1>5 DEF DriveFact
<1>7. ASSUME NEW i \in 2 .. n + 1 PROVE Violations(f.kirs[i - 1], f.kirs[i]) = {}
  <2>1. i - 1 \in 1 .. Len(f.kirs)
    BY <1>1, <1>6
  <2>2. f.kirs[i - 1] \in Kirs
    BY <1>6, <2>1
  <2> QED BY <1>6, <2>2, NothingBroken
<1>8. Scored(f.kirs) = {}
  BY <1>6, <1>7 DEF Scored
<1> QED BY <1>2, <1>6, <1>8 DEF n

-----------------------------------------------------------------------------
(* The exact search tries every sequence once.                             *)

LEMMA Dividing ==
  ASSUME NEW n \in Nat \ {0}, NEW i \in Nat
  PROVE  i = n * (i \div n) + (i % n) /\ i % n \in 0 .. n - 1 /\ i \div n \in Nat
  OBVIOUS

LEMMA DividingBack ==
  ASSUME NEW n \in Nat \ {0}, NEW q \in Nat, NEW r \in 0 .. n - 1
  PROVE  (q * n + r) \div n = q /\ (q * n + r) % n = r
  OBVIOUS

LEMMA DividingBelow ==
  ASSUME NEW n \in Nat \ {0}, NEW m \in Nat, NEW i \in Nat, i < n * m
  PROVE  i \div n < m
  OBVIOUS

LEMMA DividedBelow ==
  ASSUME NEW n \in Nat \ {0}, NEW m \in Nat, NEW q \in Nat, q < m, NEW r \in 0 .. n - 1
  PROVE  q * n + r < n * m
  OBVIOUS

LEMMA ArmsAre ==
  /\ Len(ArmOrder) \in Nat \ {0} /\ DOMAIN ArmOrder = 1 .. Len(ArmOrder)
  /\ Arms \subseteq Nat \ {0} /\ \A i \in 1 .. Len(ArmOrder) : ArmOrder[i] \in Arms
  /\ \A a \in Arms : \E i \in 1 .. Len(ArmOrder) : ArmOrder[i] = a
  /\ \A i, j \in 1 .. Len(ArmOrder) : ArmOrder[i] = ArmOrder[j] => i = j
  BY ArmsAssumption DEF Arms, Range, IsInjective

\* A list of sequences that has each of them once.
Complete(k, seqs) ==
  /\ seqs \in Seq(Sequences(k))
  /\ \A s \in Sequences(k) : \E i \in 1 .. Len(seqs) : seqs[i] = s
  /\ \A i, j \in 1 .. Len(seqs) : seqs[i] = seqs[j] => i = j

LEMMA LongerSequences ==
  ASSUME NEW k \in Nat
  PROVE  /\ \A s \in Sequences(k), a \in Arms :
              /\ Append(s, a) \in Sequences(k + 1)
              /\ Append(s, a)[k + 1] = a /\ \A j \in 1 .. k : Append(s, a)[j] = s[j]
         /\ \A s \in Sequences(k + 1) :
              \E r \in Sequences(k), a \in Arms : s = Append(r, a)
<1>1. \A s \in Sequences(k) : s \in Seq(Arms) /\ Len(s) = k
  BY DEF Sequences
<1>2. ASSUME NEW s \in Sequences(k), NEW a \in Arms
      PROVE  /\ Append(s, a) \in Sequences(k + 1)
             /\ Append(s, a)[k + 1] = a /\ \A j \in 1 .. k : Append(s, a)[j] = s[j]
  <2>1. Append(s, a) \in Seq(Arms) /\ Len(Append(s, a)) = k + 1
    BY <1>1
  <2>2. Append(s, a) \in [1 .. k + 1 -> Arms]
    <3>1. \A q \in Seq(Arms) : q \in [1 .. Len(q) -> Arms]
      OBVIOUS
    <3> QED BY <2>1, <3>1, Zenon
  <2> QED BY <1>1, <2>2 DEF Sequences
<1>3. ASSUME NEW s \in Sequences(k + 1)
      PROVE  \E r \in Sequences(k), a \in Arms : s = Append(r, a)
  <2> DEFINE r == [i \in 1 .. k |-> s[i]]
  <2>1. r \in Sequences(k) /\ s[k + 1] \in Arms /\ s \in [1 .. k + 1 -> Arms]
    BY DEF Sequences
  <2>2. \A j \in 1 .. k : r[j] = s[j]
    OBVIOUS
  <2> HIDE DEF r
  <2>3. Append(r, s[k + 1]) \in [1 .. k + 1 -> Arms]
    BY <1>2, <2>1 DEF Sequences
  <2>4. ASSUME NEW j \in 1 .. k + 1 PROVE Append(r, s[k + 1])[j] = s[j]
    <3>1. CASE j = k + 1
      BY <1>2, <2>1, <3>1
    <3>2. CASE j # k + 1
      <4>1. j \in 1 .. k
        BY <3>2
      <4> QED BY <1>2, <2>1, <2>2, <4>1
    <3> QED BY <3>1, <3>2
  <2>5. Append(r, s[k + 1]) = s
    BY <2>1, <2>3, <2>4
  <2> QED BY <2>1, <2>5
<1> QED BY <1>2, <1>3

LEMMA AppendedOnce ==
  ASSUME NEW k \in Nat, NEW s \in Sequences(k), NEW r \in Sequences(k), NEW a \in Arms, NEW b \in Arms,
         Append(s, a) = Append(r, b)
  PROVE  s = r /\ a = b
<1>1. /\ Append(s, a)[k + 1] = a /\ \A j \in 1 .. k : Append(s, a)[j] = s[j]
      /\ Append(r, b)[k + 1] = b /\ \A j \in 1 .. k : Append(r, b)[j] = r[j]
  <2>1. \A q \in Sequences(k), c \in Arms :
           Append(q, c)[k + 1] = c /\ \A j \in 1 .. k : Append(q, c)[j] = q[j]
    BY LongerSequences, Zenon
  <2> QED BY <2>1, Zenon
<1>2. a = b /\ \A j \in 1 .. k : s[j] = r[j]
  BY <1>1, Zenon
<1>3. s \in [1 .. k -> Arms] /\ r \in [1 .. k -> Arms]
  BY DEF Sequences
<1> QED BY <1>2, <1>3

LEMMA AllContinued ==
  ASSUME NEW k \in Nat, NEW seqs, Complete(k, seqs)
  PROVE  Complete(k + 1, Continuations(seqs))
<1> DEFINE n == Len(ArmOrder)
           m == Len(seqs)
           c == Continuations(seqs)
           seqAt(i) == seqs[((i - 1) \div n) + 1]
           arm(i) == ArmOrder[((i - 1) % n) + 1]
<1>1. c = [i \in 1 .. n * m |-> Append(seqAt(i), arm(i))]
  BY DEF Continuations
<1>2. n \in Nat \ {0} /\ m \in Nat /\ n * m \in Nat
  BY ArmsAre DEF Complete
<1> HIDE DEF n, m, c
<1>3. ASSUME NEW i \in 1 .. n * m
      PROVE  /\ ((i - 1) \div n) + 1 \in 1 .. m /\ ((i - 1) % n) + 1 \in 1 .. n
             /\ i = n * ((i - 1) \div n) + ((i - 1) % n) + 1
  <2>1. i - 1 \in Nat /\ i - 1 < n * m
    BY <1>2
  <2>2. (i - 1) \div n < m
    BY <1>2, <2>1, DividingBelow
  <2>3. i - 1 = n * ((i - 1) \div n) + ((i - 1) % n) /\ (i - 1) % n \in 0 .. n - 1 /\ (i - 1) \div n \in Nat
    BY <1>2, <2>1, Dividing
  <2>4. i = (i - 1) + 1
    BY <1>2
  <2> QED BY <1>2, <2>2, <2>3, <2>4
<1>4. \A i \in 1 .. n * m : seqAt(i) \in Sequences(k) /\ arm(i) \in Arms
  BY <1>3, ArmsAre DEF Complete, n, m
<1>5. \A i \in 1 .. n * m : c[i] = Append(seqAt(i), arm(i)) /\ c[i] \in Sequences(k + 1)
  BY <1>1, <1>4, LongerSequences
<1>6. c \in Seq(Sequences(k + 1)) /\ Len(c) = n * m
  <2>1. DOMAIN c = 1 .. n * m /\ c = [i \in 1 .. n * m |-> c[i]]
    BY <1>1
  <2>2. c \in [1 .. n * m -> Sequences(k + 1)]
    BY <1>5, <2>1
  <2> QED BY <1>2, <2>2
<1>7. ASSUME NEW s \in Sequences(k + 1) PROVE \E i \in 1 .. n * m : c[i] = s
  <2>1. PICK r \in Sequences(k), a \in Arms : s = Append(r, a)
    BY LongerSequences
  <2>2. PICK q \in 1 .. m : seqs[q] = r
    BY DEF Complete, m
  <2>3. PICK x \in 1 .. n : ArmOrder[x] = a
    BY ArmsAre DEF n
  <2> DEFINE y == (q - 1) * n + (x - 1)
  <2>4. q - 1 \in Nat /\ q - 1 < m /\ x - 1 \in 0 .. n - 1
    BY <1>2
  <2>5. y \div n = q - 1 /\ y % n = x - 1
    BY <1>2, <2>4, DividingBack
  <2>6. y < n * m
    BY <1>2, <2>4, DividedBelow
  <2>7. y \in Nat
    <3>1. (q - 1) * n \in Nat
      BY <1>2, <2>4
    <3> QED BY <1>2, <2>4, <3>1
  <2> HIDE DEF y
  <2>8. y + 1 \in 1 .. n * m /\ (y + 1) - 1 = y /\ (q - 1) + 1 = q /\ (x - 1) + 1 = x
    BY <1>2, <2>6, <2>7
  <2>9. seqAt(y + 1) = r /\ arm(y + 1) = a
    BY <2>2, <2>3, <2>5, <2>8
  <2>10. c[y + 1] = s
    BY <1>5, <2>1, <2>8, <2>9
  <2> QED BY <2>8, <2>10
<1>8. ASSUME NEW i \in 1 .. n * m, NEW j \in 1 .. n * m, c[i] = c[j] PROVE i = j
  <2>1. seqAt(i) = seqAt(j) /\ arm(i) = arm(j)
    <3> DEFINE s == seqAt(i)
               r == seqAt(j)
               a == arm(i)
               b == arm(j)
    <3>1. Append(s, a) = Append(r, b)
      BY <1>5, <1>8
    <3>2. s \in Sequences(k) /\ r \in Sequences(k) /\ a \in Arms /\ b \in Arms
      BY <1>4
    <3> HIDE DEF s, r, a, b
    <3>3. s = r /\ a = b
      BY <3>1, <3>2, AppendedOnce
    <3> QED BY <3>3 DEF s, r, a, b
  <2>2. ((i - 1) \div n) + 1 = ((j - 1) \div n) + 1
    BY <1>3, <2>1 DEF Complete, m
  <2>3. ((i - 1) % n) + 1 = ((j - 1) % n) + 1
    BY <1>3, <2>1, ArmsAre DEF n
  <2>4. \A x, y, u, v \in Int : x + 1 = y + 1 /\ u + 1 = v + 1 => x = y /\ u = v
    OBVIOUS
  <2>5. /\ (i - 1) \div n \in Int /\ (j - 1) \div n \in Int /\ (i - 1) % n \in Int /\ (j - 1) % n \in Int
    <3>1. i - 1 \in Nat /\ j - 1 \in Nat
      BY <1>2
    <3> QED BY <1>2, <3>1, Dividing
  <2>6. (i - 1) \div n = (j - 1) \div n /\ (i - 1) % n = (j - 1) % n
    BY <2>2, <2>3, <2>4, <2>5
  <2> QED BY <1>3, <2>6
<1>9. Complete(k + 1, c)
  BY <1>6, <1>7, <1>8 DEF Complete
<1> QED BY <1>9 DEF c

\* The lists of ever longer sequences.
Lists(g, h) == g = [k \in 0 .. h |-> IF k = 0 THEN << <<>> >> ELSE Continuations(g[k - 1])]

LEMMA ListsExist == ASSUME NEW h \in Nat PROVE \E g : Lists(g, h)
<1> DEFINE Missing == {k \in Nat : ~ \E g : Lists(g, k)}
<1>1. SUFFICES ASSUME Missing # {} PROVE FALSE
  OBVIOUS
<1>2. PICK k \in Missing : \A m \in Missing : k <= m
  BY <1>1, Walking!LeastOne
<1>3. k # 0
  <2> DEFINE g == [i \in 0 .. 0 |-> << <<>> >>]
  <2>1. 0 .. 0 = {0}
    OBVIOUS
  <2>2. Lists(g, 0)
    BY <2>1 DEF Lists
  <2> QED BY <1>2, <2>2
<1>4. PICK j \in Nat : k = j + 1
  <2>1. k - 1 \in Nat /\ k = (k - 1) + 1
    BY <1>2, <1>3
  <2> QED BY <2>1
<1>5. j \notin Missing
  BY <1>2, <1>4
<1>6. PICK f : Lists(f, j)
  BY <1>5
<1> DEFINE F(i) == IF i = k THEN Continuations(f[j]) ELSE f[i]
           g == [i \in 0 .. k |-> F(i)]
           G(i) == IF i = 0 THEN << <<>> >> ELSE Continuations(g[i - 1])
<1>7. \A i \in 0 .. j : i \in 0 .. k /\ i # k /\ g[i] = f[i]
  BY <1>4
<1>8. ASSUME NEW i \in 0 .. k PROVE g[i] = G(i)
  <2>1. CASE i = k
    <3>1. i # 0 /\ i - 1 = j /\ j \in 0 .. j
      BY <1>4, <2>1
    <3>2. g[i] = Continuations(f[j])
      BY <2>1
    <3> HIDE DEF g
    <3> QED BY <1>7, <3>1, <3>2
  <2>2. CASE i # k
    <3>1. i \in 0 .. j /\ (i # 0 => i - 1 \in 0 .. j)
      BY <1>4, <2>2
    <3>2. f[i] = IF i = 0 THEN << <<>> >> ELSE Continuations(f[i - 1])
      BY <1>6, <3>1 DEF Lists
    <3> HIDE DEF g
    <3> QED BY <1>7, <3>1, <3>2
  <2> QED BY <2>1, <2>2
<1>9. g = [i \in 0 .. k |-> G(i)]
  <2>1. g = [i \in 0 .. k |-> g[i]]
    OBVIOUS
  <2> HIDE DEF g
  <2> QED BY <1>8, <2>1
<1>10. Lists(g, k)
  <2> HIDE DEF g
  <2> QED BY <1>9 DEF Lists
<1> QED BY <1>2, <1>10

LEMMA ProductsAre == ASSUME NEW h \in Nat PROVE Complete(h, Products(h))
<1>1. PICK g : Lists(g, h) /\ Products(h) = g[h]
  <2> DEFINE g == CHOOSE f : Lists(f, h)
  <2>1. Lists(g, h)
    BY ListsExist
  <2>2. Products(h) = g[h]
    BY DEF Products, Lists
  <2> QED BY <2>1, <2>2
<1> DEFINE Wrong == {k \in 0 .. h : ~Complete(k, g[k])}
<1>2. SUFFICES ASSUME Wrong # {} PROVE FALSE
  BY <1>1
<1>3. PICK k \in Wrong : \A m \in Wrong : k <= m
  <2>1. Wrong \in SUBSET Nat
    OBVIOUS
  <2> QED BY <1>2, <2>1, Walking!LeastOne
<1>4. g[k] = IF k = 0 THEN << <<>> >> ELSE Continuations(g[k - 1])
  BY <1>1, <1>3 DEF Lists
<1>5. CASE k = 0
  <2>1. <<>> \in Sequences(0) /\ \A s \in Sequences(0) : s = <<>>
    <3>1. <<>> \in [1 .. 0 -> Arms]
      OBVIOUS
    <3>2. ASSUME NEW s \in [1 .. 0 -> Arms] PROVE s = <<>>
      <4>1. s \in Seq(Arms) /\ Len(s) = 0
        OBVIOUS
      <4> QED BY <4>1
    <3> QED BY <3>1, <3>2 DEF Sequences
  <2> DEFINE one == << <<>> >>
  <2>2. one \in Seq(Sequences(0)) /\ Len(one) = 1 /\ one[1] = <<>>
    BY <2>1
  <2> HIDE DEF one
  <2>3. \A i \in 1 .. Len(one) : i = 1
    BY <2>2
  <2>4. \A s \in Sequences(0) : one[1] = s
    BY <2>1, <2>2
  <2>5. 1 \in 1 .. Len(one)
    BY <2>2
  <2>6. Complete(0, one)
    BY <2>2, <2>3, <2>4, <2>5 DEF Complete
  <2> QED BY <1>3, <1>4, <1>5, <2>6 DEF one
<1>6. CASE k # 0
  <2>1. k - 1 \in 0 .. h /\ k - 1 \in Nat /\ k = (k - 1) + 1 /\ ~(k <= k - 1)
    BY <1>3, <1>6
  <2>2. Complete(k - 1, g[k - 1])
    BY <1>3, <2>1
  <2>3. Complete((k - 1) + 1, Continuations(g[k - 1]))
    BY <2>1, <2>2, AllContinued
  <2> QED BY <1>3, <1>4, <1>6, <2>1, <2>3
<1> QED BY <1>5, <1>6

\* There are as many sequences as the exact search tries.
LEMMA SequencesCounted ==
  ASSUME NEW h \in Nat
  PROVE  /\ IsFiniteSet(Sequences(h)) /\ Cardinality(Sequences(h)) = Len(Products(h))
         /\ Len(Products(h)) \in Nat
<1> DEFINE f == Products(h)
           n == Len(Products(h))
           Dom == 1 .. n
           T == Sequences(h)
<1>1. Complete(h, f)
  BY ProductsAre
<1>2. f \in [Dom -> T] /\ n \in Nat
  BY <1>1 DEF Complete
<1>3. \A t \in T : \E i \in Dom : f[i] = t
  BY <1>1 DEF Complete
<1>4. \A i, j \in Dom : f[i] = f[j] => i = j
  BY <1>1 DEF Complete
<1> HIDE DEF f, n, T
<1>5. f \in Surjection(Dom, T) /\ f \in Injection(Dom, T)
  BY <1>2, <1>3, <1>4 DEF Surjection, Injection, IsInjective
<1>6. IsFiniteSet(Dom) /\ Cardinality(Dom) = n
  <2>1. 1 \in Int /\ n \in Int /\ (1 > n => n = 0)
    BY <1>2
  <2> QED BY <1>2, <2>1, FS_Interval
<1>7. IsFiniteSet(T) /\ Cardinality(T) = Cardinality(Dom)
  BY <1>5, <1>6, FS_Surjection
<1> QED BY <1>2, <1>6, <1>7 DEF n, T

\* What the recorded episodes offer to begin at.
LEMMA SequencesOfArms ==
  ASSUME NEW h \in Nat, NEW s \in Sequences(h)
  PROVE  s \in Seq(Nat) /\ Len(s) = h
<1>1. s \in [1 .. h -> Nat]
  BY ArmsAre DEF Sequences
<1> QED BY <1>1

LEMMA EpisodeIs ==
  ASSUME Demands, NEW e \in Episodes
  PROVE  /\ e.kirs \in Seq(Kirs) /\ Len(e.kirs) = EpisodeSteps + 1 /\ e.seed \in TestSeeds
<1>1. PICK s \in TestSeeds, acts \in Sequences(EpisodeSteps) : e = [seed |-> s, kirs |-> Trace(s, acts)]
  BY DEF Episodes, Sequences
<1>2. EpisodeSteps \in Nat
  BY KernelAssumption
<1>3. acts \in Seq(Nat) /\ Len(acts) = EpisodeSteps
  BY <1>2, SequencesOfArms
<1>4. SimOK(Simulator(s))
  <2>1. s \in Int
    BY SeedsAssumption
  <2> QED BY <2>1, FreshOracle DEF Simulator, SimOK, NewOracle, OracleOK, OracleAt
<1>5. e.kirs = Driven(Simulator(s), acts) /\ e.seed = s
  BY <1>1 DEF Trace
<1> QED BY <1>3, <1>4, <1>5, DrivenIs

LEMMA StartsAre == ASSUME Demands PROVE Starts \subseteq Kirs
<1> SUFFICES ASSUME NEW e \in Episodes PROVE Range(Front(e.kirs)) \subseteq Kirs
  BY DEF Starts
<1>1. e.kirs \in Seq(Kirs) /\ Len(e.kirs) = EpisodeSteps + 1 /\ EpisodeSteps \in Nat
  BY EpisodeIs, KernelAssumption
<1>2. \A i \in 1 .. EpisodeSteps : e.kirs[i] \in Kirs
  BY <1>1
<1>3. Front(e.kirs) = [i \in 1 .. EpisodeSteps |-> e.kirs[i]]
  <2>1. Len(e.kirs) - 1 = EpisodeSteps
    BY <1>1
  <2>2. Front(e.kirs) = [i \in 1 .. Len(e.kirs) - 1 |-> e.kirs[i]]
    BY DEF Front
  <2> QED BY <2>1, <2>2
<1> QED BY <1>2, <1>3 DEF Range

LEMMA MiddlesAre == ASSUME Demands PROVE Middles \subseteq Kirs /\ IsFiniteSet(Middles)
<1> DEFINE m == EpisodeSteps \div 2 + 1
           Dom == TestSeeds \X Sequences(EpisodeSteps)
           f == [x \in Dom |-> Trace(x[1], x[2])[m]]
<1>1. EpisodeSteps \in Nat /\ m \in 1 .. EpisodeSteps + 1
  BY KernelAssumption
<1> HIDE DEF m
<1>2. Middles = {e.kirs[m] : e \in Episodes}
  BY DEF Middles, m
<1>3. Middles \subseteq Kirs
  <2> SUFFICES ASSUME NEW e \in Episodes PROVE e.kirs[m] \in Kirs
    BY <1>2
  <2>1. e.kirs \in Seq(Kirs) /\ Len(e.kirs) = EpisodeSteps + 1
    BY EpisodeIs
  <2> QED BY <1>1, <2>1
<1>4. ASSUME NEW x \in Dom PROVE f[x] \in Middles
  <2>1. x[1] \in TestSeeds /\ x[2] \in [1 .. EpisodeSteps -> Arms]
    BY DEF Sequences
  <2> DEFINE e == [seed |-> x[1], kirs |-> Trace(x[1], x[2])]
  <2>2. e \in Episodes /\ e.kirs[m] = f[x]
    BY <2>1 DEF Episodes
  <2> QED BY <1>2, <2>2
<1>5. ASSUME NEW k \in Middles PROVE \E x \in Dom : f[x] = k
  <2>1. PICK e \in Episodes : k = e.kirs[m]
    BY <1>2
  <2>2. PICK s \in TestSeeds, acts \in Sequences(EpisodeSteps) : e = [seed |-> s, kirs |-> Trace(s, acts)]
    BY DEF Episodes, Sequences
  <2>3. <<s, acts>> \in Dom /\ f[<<s, acts>>] = k
    BY <2>1, <2>2
  <2> QED BY <2>3
<1>6. IsFiniteSet(Dom)
  BY <1>1, SeedsAssumption, SequencesCounted, FS_Product
<1>7. f \in [Dom -> Middles]
  <2>1. f = [x \in Dom |-> f[x]]
    OBVIOUS
  <2> HIDE DEF f, Dom
  <2> QED BY <1>4, <2>1
<1> HIDE DEF f, Dom
<1>8. f \in Surjection(Dom, Middles)
  BY <1>5, <1>7 DEF Surjection
<1> QED BY <1>3, <1>6, <1>8, FS_Surjection

LEMMA PanelIs == Panel \subseteq Sequences(Horizon) /\ Horizon \in Nat
<1>1. Horizon \in Nat
  BY KernelAssumption
<1> DEFINE n == Len(ArmOrder)
<1>2. 1 \in 1 .. n /\ n \div 2 + 1 \in 1 .. n /\ n \in 1 .. n
  BY ArmsAre
<1> QED BY <1>1, <1>2, ArmsAre DEF Panel, Sequences

-----------------------------------------------------------------------------
(* The walks that a call reports.                                          *)

WalkOK(w) == w.total = ExactReward(w.seed, w.start, w.seq) /\ w.broken \subseteq Waived(w.start)

LEMMA WalkedIs ==
  ASSUME Demands, NEW o, OracleOK(o), NEW start \in Kirs, NEW seq \in Seq(Nat)
  PROVE  LET w == WalkedBy(o, start, seq)
         IN  /\ WalkOK(w) /\ OracleOK(w.oracle) /\ w.oracle.base = o.base
             /\ w.oracle.calls = Len(seq) /\ w.seq = seq
             /\ w.total = ExactReward(o.base, start, seq) /\ w.total \in Int
<1> DEFINE w == WalkedBy(o, start, seq)
           v == Walk(o, start, seq)
<1>1. /\ w.seed = o.base /\ w.start = start /\ w.seq = seq /\ w.total = v.total
      /\ w.broken = v.broken /\ w.oracle = v.oracle
  BY DEF WalkedBy
<1> HIDE DEF w
<1>2. /\ OracleOK(v.oracle) /\ v.oracle.base = o.base /\ v.oracle.calls = Len(seq)
      /\ v.total = ExactReward(o.base, start, seq) /\ v.total \in Int
      /\ v.broken \subseteq Waived(start)
  BY WalkIs
<1> HIDE DEF v
<1>3. /\ WalkOK(w) /\ OracleOK(w.oracle) /\ w.oracle.base = o.base
      /\ w.oracle.calls = Len(seq) /\ w.seq = seq
      /\ w.total = ExactReward(o.base, start, seq) /\ w.total \in Int
  BY <1>1, <1>2 DEF WalkOK
<1> QED BY <1>3 DEF w

RankedFact(p, s, r) == OracleOK(r.oracle) /\ \A w \in r.walks : WalkOK(w)

Ranking == INSTANCE Folding WITH Next <- RankedStep, Fact <- RankedFact

LEMMA RankedFold ==
  ASSUME NEW b, NEW s
  PROVE  FoldSet(RankedStep, b, s) = Ranking!FoldSet(RankedStep, b, s)
  BY Zenon DEF FoldSet, Ranking!FoldSet, MapThenFoldSet, Ranking!MapThenFoldSet

LEMMA RankedFinite == ASSUME NEW s, IsFiniteSet(s) PROVE Ranking!IsFiniteSet(s)
  BY DEF IsFiniteSet, Ranking!IsFiniteSet, ExistsBijection, Ranking!ExistsBijection,
         Bijection, Ranking!Bijection, Injection, Ranking!Injection, Surjection, Ranking!Surjection

LEMMA RankedAre == ASSUME Demands, NEW seed \in Int PROVE \A w \in RankedWalks(seed) : WalkOK(w)
<1> DEFINE b == [oracle |-> NewOracle(seed), walks |-> {}]
           Dom == Panel \X Middles
<1>1. b.oracle = NewOracle(seed) /\ b.walks = {}
  OBVIOUS
<1>2. RankedWalks(seed) = FoldSet(RankedStep, b, Dom).walks
  BY DEF RankedWalks
<1> HIDE DEF b
<1>3. IsFiniteSet(Dom)
  <2>1. IsFiniteSet(Panel)
    BY PanelIs, SequencesCounted, FS_Subset
  <2> QED BY <2>1, MiddlesAre, FS_Product
<1>4. RankedFact(0, {}, b)
  BY <1>1, FreshOracle DEF RankedFact
<1>5. \A s \in SUBSET Dom : \A x \in Dom \ s : \A r :
        RankedFact(0, s, r) => RankedFact(0, s \cup {x}, RankedStep(x, r))
  <2> SUFFICES ASSUME NEW s \in SUBSET Dom, NEW x \in Dom \ s, NEW r, RankedFact(0, s, r)
               PROVE  RankedFact(0, s \cup {x}, RankedStep(x, r))
    OBVIOUS
  <2> DEFINE w == WalkedBy(r.oracle, x[2], x[1])
             v == RankedStep(x, r)
  <2>1. x[1] \in Sequences(Horizon) /\ x[2] \in Kirs
    BY PanelIs, MiddlesAre
  <2>2. x[1] \in Seq(Nat)
    BY <2>1, PanelIs, SequencesOfArms
  <2>3. v.oracle = w.oracle /\ v.walks = r.walks \cup {w}
    BY DEF RankedStep
  <2> HIDE DEF v
  <2>4. WalkOK(w) /\ OracleOK(w.oracle)
    BY <2>1, <2>2, WalkedIs DEF RankedFact
  <2> HIDE DEF w
  <2>5. RankedFact(0, s \cup {x}, v)
    BY <2>3, <2>4 DEF RankedFact
  <2> QED BY <2>5 DEF v
<1> HIDE DEF Dom
<1>6. RankedFact(0, Dom, FoldSet(RankedStep, b, Dom))
  BY <1>3, <1>4, <1>5, RankedFold, RankedFinite, Ranking!FoldSetKeeps
<1> QED BY <1>2, <1>6 DEF RankedFact

LEMMA DrivenAre == ASSUME Demands PROVE \A k \in DrivenWalks : Scored(k) = {}
<1> SUFFICES ASSUME NEW e \in Episodes
             PROVE  Scored(Driven([Simulator(e.seed) EXCEPT !.kir = Restored(Head(e.kirs))], ArmOrder)) = {}
  BY DEF DrivenWalks
<1> DEFINE k == Restored(Head(e.kirs))
           s == [Simulator(e.seed) EXCEPT !.kir = k]
<1>1. k \in Kirs
  <2>1. Head(e.kirs) \in Kirs
    <3>1. e.kirs \in Seq(Kirs) /\ Len(e.kirs) = EpisodeSteps + 1 /\ EpisodeSteps \in Nat
      BY EpisodeIs, KernelAssumption
    <3>2. e.kirs # <<>> /\ e.kirs \in Seq(Kirs)
      BY <3>1
    <3> QED BY <3>2
  <2> QED BY <2>1 DEF Restored, Kirs, Epoch
<1> HIDE DEF k
<1>2. s = [kir |-> k, seed |-> <<e.seed>>, drawn |-> 0]
  BY DEF Simulator
<1> HIDE DEF s
<1>3. SimOK(s)
  <2>1. e.seed \in Int
    BY EpisodeIs, SeedsAssumption
  <2>2. <<e.seed>> \in Seq(Int)
    BY <2>1
  <2> QED BY <1>1, <1>2, <2>2 DEF SimOK
<1>4. ArmOrder \in Seq(Nat)
  BY ArmsAssumption
<1>5. Scored(Driven(s, ArmOrder)) = {}
  BY <1>3, <1>4, DrivenIs
<1> QED BY <1>5 DEF s, k

-----------------------------------------------------------------------------
(* What the procedures keep true of the oracle's rewards.                  *)

WorkFields == {"start", "results", "rungs", "next", "spent", "budget", "best", "reward", "round",
               "probes", "new", "checked", "revised"}

PoolOK(p) == p.act \in Arms /\ p.next = Step(Reset(NewOracle(p.seed), p.kir), p.act).kir

\* An oracle of the right shape, states with times and counters, walks and
\* transitions that are those of a fresh oracle.
SoundInv ==
  /\ OracleOK(oracle) /\ \A n \in DOMAIN futures : futures[n].kir \in Kirs
  /\ \A w \in walks : WalkOK(w)
  /\ \A p \in pool : PoolOK(p)
  /\ DOMAIN work = WorkFields /\ work.start \in Kirs /\ \A p \in work.new : PoolOK(p)

\* The exact search has paid for and is not beaten by what it has tried.
ExactInv ==
  stage = "exact" =>
    /\ AList(work.rungs) /\ Len(work.rungs) = 1
    /\ work.next \in Nat \ {0} /\ work.spent = Horizon * (work.next - 1)
    /\ work.budget \in Nat /\ work.reward \in Int
    /\ \A k \in 1 .. work.next - 1 :
         work.reward >= ExactReward(oracle.base, work.start, Products(Horizon)[k])
    /\ work.best # <<>> => work.reward = ExactReward(oracle.base, work.start, work.best)

\* What the rungs say, and that a second one which could afford everything dominates.
RungsOK(base, start, most, rungs) ==
  /\ \A i \in 2 .. Len(rungs) :
       rungs[i].seq # <<>> => rungs[i].reward = ExactReward(base, start, rungs[i].seq)
  /\ \A i \in 3 .. Len(rungs) : rungs[i].seq \in TreeSequences
  /\ most >= Horizon * Cardinality(Sequences(Horizon)) =>
       \A s \in Sequences(Horizon) : rungs[2].reward >= ExactReward(base, start, s)

LadderInv ==
  stage \in {"beam", "tree", "told"} =>
    /\ AList(work.rungs)
    /\ Len(work.rungs) = IF stage = "beam" THEN 2 ELSE IF stage = "tree" THEN 3 ELSE 4
    /\ RungsOK(oracle.base, work.start, work.budget, work.rungs)

\* The lab's reward is that of its leader until the leader is replaced.
LabInv ==
  /\ stage = "ground" =>
       /\ work.results \in Screens /\ ~work.revised /\ work.next \in Nat \ {0}
       /\ work.next = 1 => work.checked = {}
       /\ work.next # 1 => work.reward = ExactReward(oracle.base, work.start, work.results[1])
  /\ stage = "debate" /\ ~work.revised /\ work.checked # {} =>
       work.reward = ExactReward(oracle.base, work.start, work.results[1])

ProbeInv == stage = "probe" => work.probes \in Seq(Arms)

SaidInv ==
  /\ said.kind # "nothing" => stage = "idle"
  /\ said.kind = "ladder" => /\ Len(said.rungs) = 4
                             /\ RungsOK(oracle.base, said.start, said.budget, said.rungs)
  /\ said.kind = "lab" /\ ~said.revised /\ said.best \in said.checked =>
       said.reward = ExactReward(oracle.base, said.start, said.best)
  /\ said.kind = "levels" => said.broken = {}

TruthInv == SoundInv /\ ExactInv /\ LadderInv /\ LabInv /\ ProbeInv /\ SaidInv

LEMMA NoWorkIs ==
  /\ DOMAIN NoWork = WorkFields /\ NoWork.start \in Kirs /\ NoWork.new = {}
  /\ NoWork.next = 1 /\ NoWork.spent = 0 /\ NoWork.best = <<>> /\ ~NoWork.revised /\ NoWork.checked = {}
<1>1. Booted \in Kirs
  BY KirsAre DEF Booted, Epoch
<1> QED BY <1>1 DEF NoWork, WorkFields

\* Outside the procedures with stages, what has to be kept is what is sound.
LEMMA IdleKeeps ==
  ASSUME SoundInv', stage' \notin {"exact", "beam", "tree", "told", "ground", "debate", "probe"}, said' = Nothing
  PROVE  TruthInv'
  BY DEF TruthInv, ExactInv, LadderInv, LabInv, ProbeInv, SaidInv, Nothing

LEMMA NextKirs == ASSUME NEW k \in Kirs PROVE Predicted(k) \subseteq Kirs
<1> SUFFICES ASSUME NEW lat \in Guesses PROVE Kir(k.t + 1, k.sw + 1, lat, 1) \in Kirs
  BY DEF Predicted
<1>1. k.t + 1 \in Nat /\ k.sw + 1 \in Nat /\ lat \in Int \cup Guesses /\ 1 \in Int
  BY DEF Kirs
<1> QED BY <1>1, KirsAre

\* The futures of a program.
LEMMA FuturesTrue ==
  ASSUME Demands, FutureInv, TruthInv, Futures
  PROVE  TruthInv'
<1>1. stage' = stage /\ stage = "idle" /\ walks' = {} /\ said' = Nothing /\ work' = NoWork
      /\ oracle' = oracle /\ pool' = pool
  BY DEF Futures, ForkFuture, SwitchFuture, InterveneFuture, ResetFuture, Procedure, Quiet
<1>2. SUFFICES \A n \in DOMAIN futures' : futures'[n].kir \in Kirs
  BY <1>1, NoWorkIs, IdleKeeps DEF TruthInv, SoundInv
<1>3. \A n \in DOMAIN futures : futures[n].kir \in Kirs
  BY DEF TruthInv, SoundInv
<1>4. ASSUME NEW n, NEW m \in DOMAIN futures, ForkFuture(n, m)
      PROVE  \A i \in DOMAIN futures' : futures'[i].kir \in Kirs
  BY <1>3, <1>4 DEF ForkFuture, WithFuture
<1>5. ASSUME NEW n \in DOMAIN futures, SwitchFuture(n)
      PROVE  \A i \in DOMAIN futures' : futures'[i].kir \in Kirs
  BY <1>3, <1>5 DEF SwitchFuture
<1>6. ASSUME NEW n \in DOMAIN futures, NEW a, NEW k \in Predicted(futures[n].kir), InterveneFuture(n, a, k)
      PROVE  \A i \in DOMAIN futures' : futures'[i].kir \in Kirs
  <2>1. /\ DOMAIN futures' = DOMAIN futures
        /\ \A m \in DOMAIN futures :
             futures'[m] = IF m = n THEN [Continued(futures[n], a, k) EXCEPT !.kir = k] ELSE futures[m]
    BY <1>6 DEF InterveneFuture, Intervened, Touched
  <2>2. "kir" \in DOMAIN Continued(futures[n], a, k)
    BY DEF FutureInv, OwnStory, Continued
  <2>3. [Continued(futures[n], a, k) EXCEPT !.kir = k].kir = k
    BY <2>2
  <2>4. k \in Kirs
    BY <1>3, NextKirs
  <2> QED BY <1>3, <2>1, <2>3, <2>4
<1>7. ASSUME NEW n \in DOMAIN futures, NEW k \in Starts, ResetFuture(n, k)
      PROVE  \A i \in DOMAIN futures' : futures'[i].kir \in Kirs
  <2>1. k \in Kirs /\ NewFuture(k).kir = k
    BY StartsAre DEF NewFuture
  <2> QED BY <1>3, <1>7, <2>1 DEF ResetFuture
<1> QED BY <1>4, <1>5, <1>6, <1>7 DEF Futures

\* The calls that are over in one step.
LEMMA EvaluatesTruly ==
  ASSUME Demands, FutureInv, TruthInv, NEW s \in Sequences(Horizon), Evaluate(futures[focus].kir, s)
  PROVE  TruthInv'
<1> DEFINE start == futures[focus].kir
           first == Walked(start, s)
           second == WalkedBy(first.oracle, start, s)
<1>1. start \in Kirs /\ s \in Seq(Nat) /\ OracleOK(oracle)
  BY PanelIs, SequencesOfArms DEF TruthInv, SoundInv, FutureInv
<1>2. /\ oracle' = second.oracle /\ walks' = {first, second} /\ stage = "idle" /\ stage' = stage
      /\ said' = Nothing /\ work' = NoWork /\ futures' = futures /\ pool' = pool
  BY DEF Evaluate, Procedure, EnvironmentSame
<1> HIDE DEF start
<1>3. WalkOK(first) /\ OracleOK(first.oracle)
  BY <1>1, WalkedIs DEF Walked
<1> HIDE DEF first
<1>4. WalkOK(second) /\ OracleOK(second.oracle)
  BY <1>1, <1>3, WalkedIs
<1> HIDE DEF second
<1>5. SoundInv'
  BY <1>2, <1>3, <1>4, NoWorkIs DEF TruthInv, SoundInv
<1> QED BY <1>2, <1>5, IdleKeeps

LEMMA ValidatesTruly ==
  ASSUME Demands, FutureInv, TruthInv, NEW seed \in Int, NEW n \in DOMAIN futures, ValidateFuture(seed, n)
  PROVE  TruthInv'
<1> DEFINE seq == [i \in 1 .. Horizon |-> TRef]
           w == WalkedBy(NewOracle(seed), futures[n].kir, seq)
<1>1. seq \in Seq(Nat) /\ futures[n].kir \in Kirs
  BY PanelIs DEF TRef, TruthInv, SoundInv
<1>2. /\ oracle' = oracle /\ walks' = {w} /\ stage = "idle" /\ stage' = stage
      /\ said' = Nothing /\ work' = NoWork /\ futures' = futures /\ pool' = pool
  BY DEF ValidateFuture, Procedure, EnvironmentSame
<1> HIDE DEF seq
<1>3. WalkOK(w)
  BY <1>1, FreshOracle, WalkedIs
<1> HIDE DEF w
<1>4. SoundInv'
  BY <1>2, <1>3, NoWorkIs DEF TruthInv, SoundInv
<1> QED BY <1>2, <1>4, IdleKeeps

LEMMA CertifiesTruly ==
  ASSUME Demands, TruthInv, NEW seed \in Int, NEW levels, NEW passed, CertifyLevels(seed, levels, passed)
  PROVE  TruthInv'
<1>1. /\ oracle' = NewOracle(seed) /\ stage = "idle" /\ stage' = stage
      /\ walks' = IF 3 \in levels THEN RankedWalks(seed) ELSE {}
      /\ work' = NoWork /\ futures' = futures /\ pool' = pool
  BY DEF CertifyLevels, Procedure, EnvironmentSame
<1>2. said'.kind = "levels"
      /\ said'.broken = IF 4 \in levels THEN UNION {Scored(k) : k \in DrivenWalks} ELSE {}
  BY DEF CertifyLevels
<1>3. said'.broken = {}
  BY <1>2, DrivenAre
<1>4. \A w \in walks' : WalkOK(w)
  BY <1>1, RankedAre
<1>5. SoundInv'
  BY <1>1, <1>4, FreshOracle, NoWorkIs DEF TruthInv, SoundInv
<1> QED BY <1>1, <1>2, <1>3, <1>5 DEF TruthInv, ExactInv, LadderInv, LabInv, ProbeInv, SaidInv

-----------------------------------------------------------------------------
(* The ladder.                                                             *)

LEMMA LaddersTruly ==
  ASSUME Demands, FutureInv, TruthInv, NEW seed \in Int, NEW b \in ExactBudgets,
         Ladder(seed, futures[focus].kir, b)
  PROVE  TruthInv'
<1> DEFINE start == futures[focus].kir
           w == HeuristicReward(NewOracle(seed), start, Horizon)
           r == Rung("heuristic", <<>>, w.total, Horizon)
<1>1. start \in Kirs /\ b \in Nat /\ Horizon \in Nat
  BY KernelAssumption DEF TruthInv, SoundInv, FutureInv
<1>2. /\ oracle' = w.oracle /\ stage' = "exact" /\ walks' = {} /\ said' = Nothing
      /\ futures' = futures /\ pool' = pool
  BY DEF Ladder, EnvironmentSame
<1>3. work' = [NoWork EXCEPT !.start = start, !.budget = b, !.reward = Low, !.rungs = <<r>>]
  BY DEF Ladder
<1> HIDE DEF start
<1>4. OracleOK(w.oracle)
  BY <1>1, FreshOracle, HeuristicIs
<1> HIDE DEF w, r
<1>5. /\ DOMAIN work' = WorkFields /\ work'.start \in Kirs /\ work'.new = {} /\ work'.next = 1
      /\ work'.spent = 0 /\ work'.best = <<>> /\ work'.budget = b /\ work'.reward = Low
      /\ work'.rungs = <<r>>
  BY <1>1, <1>3, NoWorkIs DEF WorkFields
<1>6. SoundInv'
  BY <1>2, <1>4, <1>5 DEF TruthInv, SoundInv
<1>7. AList(<<r>>) /\ Len(<<r>>) = 1
  <2>1. <<r>> \in Seq({r})
    OBVIOUS
  <2> QED BY <2>1 DEF AList
<1>8. Horizon * (1 - 1) = 0 /\ 1 .. 1 - 1 = {} /\ 1 \in Nat \ {0}
  BY <1>1
<1>9. ExactInv'
  BY <1>1, <1>5, <1>7, <1>8 DEF ExactInv, Low
<1> QED BY <1>2, <1>6, <1>9 DEF TruthInv, LadderInv, LabInv, ProbeInv, SaidInv, Nothing

LEMMA SpentMore == \A h, n \in Nat : h * (n - 1) + h = h * ((n + 1) - 1)
  OBVIOUS

LEMMA ExactKeeps == ASSUME Demands, TruthInv, ExactNext PROVE TruthInv'
<1> DEFINE n == work.next
           s == Products(Horizon)[n]
           w == Walked(work.start, s)
           er(q) == ExactReward(oracle.base, work.start, q)
<1>1. /\ AList(work.rungs) /\ Len(work.rungs) = 1 /\ n \in Nat \ {0}
      /\ work.spent = Horizon * (n - 1) /\ work.budget \in Nat /\ work.reward \in Int
      /\ \A k \in 1 .. n - 1 : work.reward >= er(Products(Horizon)[k])
      /\ work.best # <<>> => work.reward = er(work.best)
  BY DEF TruthInv, ExactInv, ExactNext
<1>2. /\ OracleOK(oracle) /\ work.start \in Kirs /\ DOMAIN work = WorkFields
      /\ Horizon \in Nat
  BY KernelAssumption DEF TruthInv, SoundInv
<1>3. s \in Seq(Nat)
  <2>1. Complete(Horizon, Products(Horizon)) /\ n <= Len(Products(Horizon))
    BY <1>2, ProductsAre DEF ExactNext
  <2>2. s \in Sequences(Horizon)
    BY <1>1, <2>1 DEF Complete
  <2> QED BY <1>2, <2>2, SequencesOfArms
<1>4. /\ oracle' = w.oracle /\ walks' = {w} /\ stage = "exact" /\ stage' = stage /\ said' = said
      /\ futures' = futures /\ pool' = pool
      /\ work' = [work EXCEPT !.next = @ + 1, !.spent = @ + Horizon,
                    !.best = IF w.total > work.reward THEN w.seq ELSE @,
                    !.reward = IF w.total > @ THEN w.total ELSE @]
  BY DEF ExactNext, EnvironmentSame
<1> HIDE DEF n, s
<1>5. /\ WalkOK(w) /\ OracleOK(w.oracle) /\ w.oracle.base = oracle.base /\ w.seq = s
      /\ w.total = er(s) /\ w.total \in Int
  BY <1>2, <1>3, WalkedIs DEF Walked
<1> HIDE DEF w
<1>6. /\ DOMAIN work' = WorkFields /\ work'.start = work.start /\ work'.new = work.new
      /\ work'.next = n + 1 /\ work'.spent = work.spent + Horizon
      /\ work'.best = IF w.total > work.reward THEN w.seq ELSE work.best
      /\ work'.reward = IF w.total > work.reward THEN w.total ELSE work.reward
      /\ work'.rungs = work.rungs /\ work'.budget = work.budget
  BY <1>2, <1>4 DEF WorkFields, n
<1>7. SoundInv'
  BY <1>4, <1>5, <1>6 DEF TruthInv, SoundInv
<1>8. oracle'.base = oracle.base
  BY <1>4, <1>5
<1>9. ASSUME NEW k \in 1 .. (n + 1) - 1 PROVE work'.reward >= er(Products(Horizon)[k])
  <2>1. CASE k = n
    <3>1. er(Products(Horizon)[k]) = w.total
      BY <1>5, <2>1 DEF s
    <3> HIDE DEF er
    <3> QED BY <1>1, <1>5, <1>6, <3>1
  <2>2. CASE k # n
    <3>1. k \in 1 .. n - 1
      BY <1>1, <2>2
    <3>2. work.reward >= er(Products(Horizon)[k])
      BY <1>1, <3>1
    <3>3. Products(Horizon)[k] \in Seq(Nat)
      <4>1. Complete(Horizon, Products(Horizon)) /\ n <= Len(Products(Horizon))
        BY <1>2, ProductsAre DEF ExactNext, n
      <4>2. Products(Horizon)[k] \in Sequences(Horizon)
        BY <1>1, <3>1, <4>1 DEF Complete
      <4> QED BY <1>2, <4>2, SequencesOfArms
    <3>4. er(Products(Horizon)[k]) \in Int
      BY <1>2, <3>3, WalkIs
    <3> HIDE DEF er
    <3> QED BY <1>1, <1>5, <1>6, <3>2, <3>4
  <2> QED BY <2>1, <2>2
<1>10. work'.best # <<>> => work'.reward = er(work'.best)
  <2> HIDE DEF er
  <2> QED BY <1>1, <1>5, <1>6
<1>11. work'.spent = Horizon * (work'.next - 1)
  BY <1>1, <1>2, <1>6, SpentMore
<1>12. ExactInv'
  <2>1. work'.next \in Nat \ {0} /\ work'.reward \in Int
    BY <1>1, <1>5, <1>6
  <2> QED BY <1>1, <1>6, <1>8, <1>9, <1>10, <1>11, <2>1 DEF ExactInv
<1> QED BY <1>4, <1>7, <1>12 DEF TruthInv, LadderInv, LabInv, ProbeInv, SaidInv

LEMMA SearchedAll ==
  ASSUME NEW h \in Nat \ {0}, NEW n \in Nat, NEW c \in Nat, NEW b \in Nat, b >= h * c,
         n > c \/ h * (n - 1) + h > b
  PROVE  n > c
<1>1. h * (n - 1) + h = h * n
  OBVIOUS
<1>2. n <= c => h * n <= h * c
  OBVIOUS
<1>3. h * n \in Int /\ h * c \in Int
  OBVIOUS
<1> QED BY <1>1, <1>2, <1>3

LEMMA ExactEnds == ASSUME Demands, TruthInv, EndExact PROVE TruthInv'
<1> DEFINE r == Rung("exact", work.best, work.reward, work.spent)
           er(q) == ExactReward(oracle.base, work.start, q)
<1>1. /\ AList(work.rungs) /\ Len(work.rungs) = 1 /\ work.next \in Nat \ {0}
      /\ work.spent = Horizon * (work.next - 1) /\ work.budget \in Nat /\ work.reward \in Int
      /\ \A k \in 1 .. work.next - 1 : work.reward >= er(Products(Horizon)[k])
      /\ work.best # <<>> => work.reward = er(work.best)
  BY DEF TruthInv, ExactInv, EndExact
<1>2. DOMAIN work = WorkFields /\ Horizon \in Nat \ {0}
  BY KernelAssumption, SearchesAssumption DEF TruthInv, SoundInv
<1>3. /\ oracle' = oracle /\ walks' = walks /\ stage = "exact" /\ stage' = "beam" /\ said' = said
      /\ futures' = futures /\ pool' = pool
      /\ work' = [work EXCEPT !.rungs = Append(@, r)]
      /\ work.next > Len(Products(Horizon)) \/ ~Within(work.spent, work.budget)
  BY DEF EndExact, EnvironmentSame
<1>4. r.seq = work.best /\ r.reward = work.reward
  BY DEF Rung
<1> HIDE DEF r
<1>5. /\ DOMAIN work' = WorkFields /\ work'.start = work.start /\ work'.new = work.new
      /\ work'.budget = work.budget /\ work'.rungs = Append(work.rungs, r)
  BY <1>2, <1>3 DEF WorkFields
<1>6. SoundInv'
  BY <1>3, <1>5 DEF TruthInv, SoundInv
<1>7. AList(work'.rungs) /\ Len(work'.rungs) = 2 /\ work'.rungs[2] = r
  <2> DEFINE l == work.rungs
  <2>1. AList(l) /\ Len(l) = 1
    BY <1>1
  <2> HIDE DEF l
  <2>2. AList(Append(l, r)) /\ Len(Append(l, r)) = Len(l) + 1 /\ Append(l, r)[Len(l) + 1] = r
    BY <2>1, Lengthened
  <2>3. Len(l) + 1 = 2
    BY <2>1
  <2> QED BY <1>5, <2>2, <2>3 DEF l
<1>8. ASSUME work.budget >= Horizon * Cardinality(Sequences(Horizon)), NEW s \in Sequences(Horizon)
      PROVE  r.reward >= er(s)
  <2>1. Complete(Horizon, Products(Horizon)) /\ Len(Products(Horizon)) = Cardinality(Sequences(Horizon))
        /\ Len(Products(Horizon)) \in Nat
    BY <1>2, ProductsAre, SequencesCounted
  <2>2. work.next > Len(Products(Horizon)) \/ Horizon * (work.next - 1) + Horizon > work.budget
    <3>1. Horizon * (work.next - 1) \in Int /\ Horizon \in Int /\ work.budget \in Int
      BY <1>1, <1>2
    <3> QED BY <1>1, <1>3, <3>1 DEF Within
  <2>3. work.next > Len(Products(Horizon))
    BY <1>1, <1>2, <1>8, <2>1, <2>2, SearchedAll
  <2>4. PICK k \in 1 .. Len(Products(Horizon)) : Products(Horizon)[k] = s
    BY <2>1 DEF Complete
  <2>5. k \in 1 .. work.next - 1
    BY <1>1, <2>1, <2>3
  <2> QED BY <1>1, <1>4, <2>4, <2>5
<1>9. RungsOK(oracle.base, work.start, work.budget, work'.rungs)
  <2>1. \A i \in 2 .. 2 : i = 2
    OBVIOUS
  <2>2. 3 .. 2 = {}
    OBVIOUS
  <2> QED BY <1>1, <1>4, <1>7, <1>8, <2>1, <2>2 DEF RungsOK
<1>10. LadderInv'
  BY <1>3, <1>5, <1>7, <1>9 DEF LadderInv
<1> QED BY <1>3, <1>6, <1>10 DEF TruthInv, ExactInv, LabInv, ProbeInv, SaidInv

\* A rung of the surrogate is grounded by one walk.
LEMMA RungsGrow ==
  ASSUME NEW base, NEW start, NEW most, NEW rungs, AList(rungs), Len(rungs) \in 2 .. 3,
         RungsOK(base, start, most, rungs),
         NEW r, r.seq \in TreeSequences, r.reward = ExactReward(base, start, r.seq)
  PROVE  /\ AList(Append(rungs, r)) /\ Len(Append(rungs, r)) = Len(rungs) + 1
         /\ RungsOK(base, start, most, Append(rungs, r))
<1> DEFINE n == Len(rungs)
           l == Append(rungs, r)
<1>1. /\ AList(l) /\ n \in Nat /\ Len(l) = n + 1 /\ l[n + 1] = r
      /\ \A i \in 1 .. n : l[i] = rungs[i]
  BY Lengthened
<1> HIDE DEF n, l
<1>2. n \in 2 .. 3
  BY DEF n
<1>3. ASSUME NEW i \in 2 .. n + 1
      PROVE  l[i].seq # <<>> => l[i].reward = ExactReward(base, start, l[i].seq)
  <2>1. CASE i = n + 1
    BY <1>1, <2>1
  <2>2. CASE i # n + 1
    <3>1. i \in 1 .. n /\ i \in 2 .. n
      BY <1>1, <2>2
    <3> QED BY <1>1, <3>1 DEF RungsOK, n
  <2> QED BY <2>1, <2>2
<1>4. ASSUME NEW i \in 3 .. n + 1 PROVE l[i].seq \in TreeSequences
  <2>1. CASE i = n + 1
    BY <1>1, <2>1
  <2>2. CASE i # n + 1
    <3>1. i \in 1 .. n /\ i \in 3 .. n
      BY <1>1, <2>2
    <3> QED BY <1>1, <3>1 DEF RungsOK, n
  <2> QED BY <2>1, <2>2
<1>5. l[2] = rungs[2]
  BY <1>1, <1>2
<1>6. RungsOK(base, start, most, l)
  BY <1>1, <1>3, <1>4, <1>5 DEF RungsOK
<1> QED BY <1>1, <1>6 DEF n, l

LEMMA GroundedKeeps ==
  ASSUME Demands, TruthInv, stage \in {"beam", "tree"}, NEW name, NEW seq \in TreeSequences,
         Grounded(name, seq), stage' = IF stage = "beam" THEN "tree" ELSE "told",
         UNCHANGED <<futures, focus, pool, said>>
  PROVE  TruthInv'
<1> DEFINE w == Walked(work.start, seq)
           r == Rung(name, seq, w.total, Horizon)
<1>1. /\ OracleOK(oracle) /\ work.start \in Kirs /\ DOMAIN work = WorkFields
      /\ AList(work.rungs) /\ Len(work.rungs) = IF stage = "beam" THEN 2 ELSE 3
      /\ RungsOK(oracle.base, work.start, work.budget, work.rungs)
  BY DEF TruthInv, SoundInv, LadderInv
<1>2. seq \in Seq(Nat)
  <2>1. PICK h \in 1 .. Horizon : seq \in Sequences(h)
    BY DEF TreeSequences
  <2>2. h \in Nat
    BY KernelAssumption
  <2> QED BY <2>1, <2>2, SequencesOfArms
<1>3. oracle' = w.oracle /\ walks' = {w} /\ work' = [work EXCEPT !.rungs = Append(@, r)]
  BY DEF Grounded
<1>4. /\ WalkOK(w) /\ OracleOK(w.oracle) /\ w.oracle.base = oracle.base
      /\ w.total = ExactReward(oracle.base, work.start, seq)
  BY <1>1, <1>2, WalkedIs DEF Walked
<1>5. r.seq = seq /\ r.reward = w.total
  BY DEF Rung
<1> HIDE DEF w, r
<1>6. /\ DOMAIN work' = WorkFields /\ work'.start = work.start /\ work'.new = work.new
      /\ work'.budget = work.budget /\ work'.rungs = Append(work.rungs, r)
  BY <1>1, <1>3 DEF WorkFields
<1>7. SoundInv'
  BY <1>3, <1>4, <1>6 DEF TruthInv, SoundInv
<1>8. /\ AList(work'.rungs) /\ Len(work'.rungs) = Len(work.rungs) + 1
      /\ RungsOK(oracle.base, work.start, work.budget, work'.rungs)
  <2>1. Len(work.rungs) \in 2 .. 3
    BY <1>1
  <2>2. r.seq \in TreeSequences /\ r.reward = ExactReward(oracle.base, work.start, r.seq)
    BY <1>4, <1>5
  <2> DEFINE l == work.rungs
             base == oracle.base
             start == work.start
             most == work.budget
  <2>3. AList(l) /\ Len(l) \in 2 .. 3 /\ RungsOK(base, start, most, l)
    BY <1>1, <2>1
  <2>4. r.seq \in TreeSequences /\ r.reward = ExactReward(base, start, r.seq)
    BY <2>2
  <2> HIDE DEF l, base, start, most
  <2>5. /\ AList(Append(l, r)) /\ Len(Append(l, r)) = Len(l) + 1
        /\ RungsOK(base, start, most, Append(l, r))
    BY <2>3, <2>4, RungsGrow
  <2> QED BY <1>6, <2>5 DEF l, base, start, most
<1>9. oracle'.base = oracle.base
  BY <1>3, <1>4
<1>10. LadderInv'
  BY <1>1, <1>6, <1>8, <1>9 DEF LadderInv
<1>11. stage' \in {"tree", "told"} /\ said.kind = "nothing" /\ said' = said
  BY DEF TruthInv, SaidInv
<1> QED BY <1>7, <1>10, <1>11 DEF TruthInv, ExactInv, LabInv, ProbeInv, SaidInv

LEMMA LadderEnds == ASSUME TruthInv, EndLadder PROVE TruthInv'
<1>1. /\ stage' = "idle" /\ walks' = {} /\ work' = NoWork /\ oracle' = oracle
      /\ futures' = futures /\ pool' = pool /\ stage = "told"
  BY DEF EndLadder, EnvironmentSame
<1>2. /\ said'.kind = "ladder" /\ said'.start = work.start /\ said'.budget = work.budget
      /\ said'.rungs = work.rungs
  BY DEF EndLadder
<1>3. SoundInv'
  BY <1>1, NoWorkIs DEF TruthInv, SoundInv
<1>4. Len(work.rungs) = 4 /\ RungsOK(oracle.base, work.start, work.budget, work.rungs)
  BY <1>1 DEF TruthInv, LadderInv
<1> QED BY <1>1, <1>2, <1>3, <1>4 DEF TruthInv, ExactInv, LadderInv, LabInv, ProbeInv, SaidInv

LEMMA LadderTrue == ASSUME Demands, FutureInv, TruthInv, Laddering PROVE TruthInv'
<1>1. \A s \in Sequences(Horizon) : s \in TreeSequences
  <2>1. Horizon \in 1 .. Horizon
    BY KernelAssumption, SearchesAssumption
  <2> QED BY <2>1 DEF TreeSequences
<1>2. ASSUME NEW s \in Screens, BeamRung(s) PROVE TruthInv'
  <2>1. s[1] \in TreeSequences
    <3>1. 1 \in 1 .. BeamWidth
      BY KernelAssumption, SearchesAssumption
    <3> QED BY <1>1, <3>1 DEF Screens
  <2> QED BY <1>2, <2>1, GroundedKeeps DEF BeamRung, EnvironmentSame
<1>3. ASSUME NEW s \in TreeSequences, TreeRung(s) PROVE TruthInv'
  BY <1>3, GroundedKeeps DEF TreeRung, EnvironmentSame
<1>4. OracleSeeds \subseteq Int
  BY SeedsAssumption
<1> QED BY <1>2, <1>3, <1>4, LaddersTruly, ExactKeeps, ExactEnds, LadderEnds DEF Laddering

-----------------------------------------------------------------------------
(* The lab and active learning.                                            *)

LEMMA BootedIs == Booted \in Kirs /\ NewFuture(Booted).kir = Booted
<1>1. Booted \in Kirs
  BY KirsAre DEF Booted, Epoch
<1> QED BY <1>1 DEF NewFuture

LEMMA LabsTruly ==
  ASSUME Demands, FutureInv, TruthInv, NEW s \in Screens, NEW v \in TopCandidates,
         NEW kirs \in [1 .. Horizon -> UNION {Predicted(Kir(futures[focus].kir.t + i - 1,
                                futures[focus].kir.sw + i - 1, 1, 1)) : i \in 1 .. Horizon}],
         Lab(s, kirs, v)
  PROVE  TruthInv'
<1> DEFINE start == futures[focus].kir
           f == [kir |-> kirs[Horizon], history |-> futures[focus].history \o kirs,
                 actions |-> futures[focus].actions \o s[1]]
<1>1. start \in Kirs /\ Horizon \in 1 .. Horizon /\ Horizon \in Nat
  <2>1. start \in Kirs
    BY DEF TruthInv, SoundInv, FutureInv
  <2>2. Horizon \in Nat /\ Horizon >= 1
    BY KernelAssumption, SearchesAssumption
  <2> QED BY <2>1, <2>2
<1>2. kirs[Horizon] \in Kirs
  <2>1. PICK i \in 1 .. Horizon : kirs[Horizon] \in Predicted(Kir(start.t + i - 1, start.sw + i - 1, 1, 1))
    BY <1>1
  <2> DEFINE t == start.t + i - 1
             sw == start.sw + i - 1
  <2>2. t \in Nat /\ sw \in Nat
    <3>1. start.t \in Nat /\ start.sw \in Nat
      BY <1>1 DEF Kirs
    <3> HIDE DEF start
    <3> QED BY <1>1, <3>1
  <2> HIDE DEF start, t, sw
  <2>3. Kir(t, sw, 1, 1) \in Kirs
    <3>1. 1 \in Int \cup Guesses /\ 1 \in Int
      OBVIOUS
    <3> QED BY <2>2, <3>1, KirsAre
  <2> USE DEF t, sw
  <2> QED BY <2>1, <2>3, NextKirs
<1>3. /\ futures' = WithFuture("analysis", f) /\ oracle' = oracle /\ pool' = pool /\ walks' = {}
      /\ said' = Nothing /\ stage' = IF v = 0 THEN "debate" ELSE "ground"
      /\ work' = [NoWork EXCEPT !.start = start, !.results = s,
                    !.next = IF v = 0 THEN 0 ELSE 1, !.budget = v]
  BY DEF Lab
<1>4. f.kir = kirs[Horizon]
  OBVIOUS
<1> HIDE DEF start, f
<1>5. \A n \in DOMAIN futures' : futures'[n].kir \in Kirs
  BY <1>2, <1>3, <1>4 DEF WithFuture, TruthInv, SoundInv
<1>6. /\ DOMAIN work' = WorkFields /\ work'.start = start /\ work'.new = {} /\ work'.results = s
      /\ work'.next = (IF v = 0 THEN 0 ELSE 1) /\ ~work'.revised /\ work'.checked = {}
  BY <1>3, NoWorkIs DEF WorkFields
<1>7. SoundInv'
  BY <1>1, <1>3, <1>5, <1>6 DEF TruthInv, SoundInv
<1>8. LabInv'
  BY <1>3, <1>6 DEF LabInv
<1> QED BY <1>3, <1>7, <1>8 DEF TruthInv, ExactInv, LadderInv, ProbeInv, SaidInv, Nothing

LEMMA GroundKeeps == ASSUME Demands, TruthInv, GroundNext PROVE TruthInv'
<1> DEFINE n == work.next
           s == work.results[n]
           w == Walked(work.start, s)
           er(q) == ExactReward(oracle.base, work.start, q)
<1>1. /\ work.results \in Screens /\ ~work.revised /\ n \in Nat \ {0}
      /\ n = 1 => work.checked = {}
      /\ n # 1 => work.reward = er(work.results[1])
  BY DEF TruthInv, LabInv, GroundNext
<1>2. OracleOK(oracle) /\ work.start \in Kirs /\ DOMAIN work = WorkFields
  BY DEF TruthInv, SoundInv
<1>3. s \in Seq(Nat)
  <2>1. work.results \in [1 .. BeamWidth -> Sequences(Horizon)] /\ BeamWidth \in Nat
    BY <1>1, KernelAssumption DEF Screens
  <2>2. n \in 1 .. BeamWidth
    <3>1. Len(work.results) = BeamWidth
      BY <2>1
    <3> QED BY <1>1, <2>1, <3>1 DEF GroundNext
  <2>3. s \in Sequences(Horizon)
    BY <2>1, <2>2
  <2> QED BY <2>3, PanelIs, SequencesOfArms
<1>4. /\ oracle' = [w.oracle EXCEPT !.calls = 0] /\ walks' = {w} /\ stage = "ground" /\ stage' = stage
      /\ said' = said /\ futures' = futures /\ pool' = pool
      /\ work' = [work EXCEPT !.next = @ + 1, !.spent = @ + w.oracle.calls,
                    !.reward = IF work.next = 1 THEN w.total ELSE @,
                    !.checked = @ \cup {w.seq}]
  BY DEF GroundNext, EnvironmentSame
<1>5. WalkOK(w) /\ OracleOK(w.oracle) /\ w.oracle.base = oracle.base /\ w.total = er(s)
  BY <1>2, <1>3, WalkedIs DEF Walked
<1> HIDE DEF w
<1>6. OracleOK(oracle') /\ oracle'.base = oracle.base
  <2>1. oracle' = OracleAt(w.oracle.base, w.oracle.kir, w.oracle.seed, w.oracle.drawn, 0)
    BY <1>4, <1>5 DEF OracleOK, OracleAt
  <2>2. w.oracle.kir \in Kirs /\ w.oracle.drawn \in Nat
    BY <1>5 DEF OracleOK
  <2> QED BY <1>5, <2>1, <2>2 DEF OracleOK, OracleAt
<1>7. /\ DOMAIN work' = WorkFields /\ work'.start = work.start /\ work'.new = work.new
      /\ work'.results = work.results /\ work'.next = n + 1 /\ work'.revised = work.revised
      /\ work'.reward = IF n = 1 THEN w.total ELSE work.reward
  BY <1>2, <1>4 DEF WorkFields
<1>8. SoundInv'
  BY <1>4, <1>5, <1>6, <1>7 DEF TruthInv, SoundInv
<1>9. work'.reward = er(work.results[1])
  <2>1. CASE n = 1
    BY <1>5, <1>7, <2>1
  <2>2. CASE n # 1
    <3> HIDE DEF er
    <3> QED BY <1>1, <1>7, <2>2
  <2> QED BY <2>1, <2>2
<1> HIDE DEF n
<1>10. n + 1 \in Nat \ {0} /\ n + 1 # 1
  BY <1>1
<1>11. LabInv'
  BY <1>1, <1>4, <1>6, <1>7, <1>9, <1>10 DEF LabInv
<1> QED BY <1>4, <1>8, <1>11 DEF TruthInv, ExactInv, LadderInv, ProbeInv, SaidInv

LEMMA GroundEnds == ASSUME TruthInv, EndGround PROVE TruthInv'
<1>1. /\ stage = "ground" /\ stage' = "debate" /\ walks' = {} /\ said' = said /\ oracle' = oracle
      /\ work' = work /\ futures' = futures /\ pool' = pool
  BY DEF EndGround, EnvironmentSame
<1>2. SoundInv'
  BY <1>1 DEF TruthInv, SoundInv
<1> QED BY <1>1, <1>2 DEF TruthInv, ExactInv, LadderInv, LabInv, ProbeInv, SaidInv

LEMMA ChallengeKeeps == ASSUME TruthInv, NEW veto \in BOOLEAN, Challenge(veto) PROVE TruthInv'
<1> DEFINE changes == veto /\ Others # <<>>
           r == IF changes THEN <<Others[1]>> \o work.results ELSE work.results
<1>1. /\ stage = "debate" /\ stage' = stage /\ walks' = walks /\ said' = said /\ oracle' = oracle
      /\ futures' = futures /\ pool' = pool
  BY DEF Challenge, EnvironmentSame
<1>2. work' = [work EXCEPT !.round = @ + 1, !.results = r, !.revised = @ \/ changes]
  BY DEF Challenge
<1>3. DOMAIN work = WorkFields
  BY DEF TruthInv, SoundInv
<1>4. ~changes => r = work.results
  OBVIOUS
<1> HIDE DEF changes, r
<1>5. /\ DOMAIN work' = WorkFields /\ work'.start = work.start /\ work'.new = work.new
      /\ work'.results = r /\ work'.checked = work.checked /\ work'.reward = work.reward
      /\ work'.revised = (work.revised \/ changes)
  BY <1>2, <1>3 DEF WorkFields
<1>6. SoundInv'
  BY <1>1, <1>5 DEF TruthInv, SoundInv
<1>7. LabInv'
  <2>1. ~work'.revised => ~work.revised /\ ~changes
    BY <1>5
  <2> QED BY <1>1, <1>4, <1>5, <2>1 DEF TruthInv, LabInv
<1> QED BY <1>1, <1>6, <1>7 DEF TruthInv, ExactInv, LadderInv, ProbeInv, SaidInv

LEMMA LabEnds == ASSUME TruthInv, EndLab PROVE TruthInv'
<1>1. /\ stage = "debate" /\ stage' = "idle" /\ walks' = {} /\ work' = NoWork /\ oracle' = oracle
      /\ futures' = futures /\ pool' = pool
  BY DEF EndLab, EnvironmentSame
<1>2. /\ said'.kind = "lab" /\ said'.start = work.start /\ said'.best = work.results[1]
      /\ said'.checked = work.checked /\ said'.reward = work.reward /\ said'.revised = work.revised
  BY DEF EndLab
<1>3. SoundInv'
  BY <1>1, NoWorkIs DEF TruthInv, SoundInv
<1>4. ~said'.revised /\ said'.best \in said'.checked =>
        said'.reward = ExactReward(oracle.base, said'.start, said'.best)
  BY <1>1, <1>2 DEF TruthInv, LabInv
<1> QED BY <1>1, <1>2, <1>3, <1>4 DEF TruthInv, ExactInv, LadderInv, LabInv, ProbeInv, SaidInv

LEMMA DebateTrue == ASSUME Demands, FutureInv, TruthInv, Debating PROVE TruthInv'
  BY LabsTruly, GroundKeeps, GroundEnds, ChallengeKeeps, LabEnds DEF Debating

LEMMA ActiveKeeps == ASSUME FutureInv, TruthInv, Active PROVE TruthInv'
<1>1. /\ stage' = "rank" /\ walks' = {} /\ said' = Nothing /\ oracle' = oracle
      /\ futures' = futures /\ pool' = pool
      /\ work' = [NoWork EXCEPT !.start = futures[focus].kir]
  BY DEF Active, EnvironmentSame
<1>2. futures[focus].kir \in Kirs
  BY DEF TruthInv, SoundInv, FutureInv
<1>3. DOMAIN work' = WorkFields /\ work'.start \in Kirs /\ work'.new = {}
  BY <1>1, <1>2, NoWorkIs DEF WorkFields
<1>4. SoundInv'
  BY <1>1, <1>3 DEF TruthInv, SoundInv
<1> QED BY <1>1, <1>4, IdleKeeps

LEMMA RankKeeps == ASSUME TruthInv, NEW s \in Orderings(ProbesPerRound), RankProbes(s) PROVE TruthInv'
<1>1. /\ stage = "rank" /\ stage' = "probe" /\ walks' = walks /\ said' = said /\ oracle' = oracle
      /\ futures' = futures /\ pool' = pool
      /\ work' = [work EXCEPT !.probes = s, !.round = @ + 1, !.new = {}]
  BY DEF RankProbes, EnvironmentSame
<1>2. DOMAIN work = WorkFields
  BY DEF TruthInv, SoundInv
<1>3. DOMAIN work' = WorkFields /\ work'.start = work.start /\ work'.new = {} /\ work'.probes = s
  BY <1>1, <1>2 DEF WorkFields
<1>4. s \in Seq(Arms)
  <2>1. s \in [1 .. ProbesPerRound -> Arms] /\ ProbesPerRound \in Nat
    BY KernelAssumption DEF Orderings
  <2> QED BY <2>1
<1>5. SoundInv'
  BY <1>1, <1>3 DEF TruthInv, SoundInv
<1> QED BY <1>1, <1>3, <1>4, <1>5 DEF TruthInv, ExactInv, LadderInv, LabInv, ProbeInv, SaidInv

LEMMA ProbeKeeps == ASSUME Demands, TruthInv, Probe PROVE TruthInv'
<1> DEFINE a == Head(work.probes)
           o == Step(Reset(oracle, work.start), a)
           p == [seed |-> oracle.base, kir |-> work.start, act |-> a, next |-> o.kir]
<1>1. /\ OracleOK(oracle) /\ work.start \in Kirs /\ DOMAIN work = WorkFields
      /\ work.probes \in Seq(Arms) /\ work.probes # <<>>
  BY DEF TruthInv, SoundInv, ProbeInv, Probe
<1>2. /\ stage = "probe" /\ stage' = stage /\ walks' = walks /\ said' = said /\ oracle' = o
      /\ futures' = futures /\ pool' = pool
      /\ work' = [work EXCEPT !.probes = Tail(@), !.start = o.kir, !.spent = @ + 1, !.new = @ \cup {p}]
  BY DEF Probe, EnvironmentSame
<1>3. a \in Arms /\ Tail(work.probes) \in Seq(Arms)
  BY <1>1
<1> HIDE DEF a
<1>4. a \in Nat
  BY <1>3, ArmsAre
<1>5. /\ OracleOK(Reset(oracle, work.start))
      /\ Reset(oracle, work.start) = Reset(NewOracle(oracle.base), work.start)
  BY <1>1, ResetIs
<1>6. OracleOK(o) /\ o.kir \in Kirs
  BY <1>4, <1>5, StepIs DEF OracleOK
<1>7. PoolOK(p)
  <2>1. p.act = a /\ p.seed = oracle.base /\ p.kir = work.start /\ p.next = o.kir
    OBVIOUS
  <2> HIDE DEF p
  <2> QED BY <1>3, <1>5, <2>1 DEF PoolOK
<1> HIDE DEF o, p
<1>8. /\ DOMAIN work' = WorkFields /\ work'.start = o.kir /\ work'.new = work.new \cup {p}
      /\ work'.probes = Tail(work.probes)
  BY <1>1, <1>2 DEF WorkFields
<1>9. SoundInv'
  BY <1>2, <1>6, <1>7, <1>8 DEF TruthInv, SoundInv
<1> QED BY <1>2, <1>3, <1>8, <1>9 DEF TruthInv, ExactInv, LadderInv, LabInv, ProbeInv, SaidInv

LEMMA RetrainKeeps == ASSUME TruthInv, NEW fails \in BOOLEAN, Retrain(fails) PROVE TruthInv'
<1>1. /\ stage = "probe" /\ walks' = walks /\ said' = said /\ oracle' = oracle /\ futures' = futures
      /\ pool' = IF fails THEN pool ELSE pool \cup work.new
  BY DEF Retrain
<1>2. CASE fails
  <2>1. stage' = "idle" /\ work' = NoWork
    BY <1>2 DEF Retrain
  <2>2. SoundInv'
    BY <1>1, <1>2, <2>1, NoWorkIs DEF TruthInv, SoundInv
  <2> QED BY <1>1, <2>1, <2>2 DEF TruthInv, ExactInv, LadderInv, LabInv, ProbeInv, SaidInv
<1>3. CASE ~fails
  <2>1. stage' = "rank" /\ work' = [work EXCEPT !.new = {}]
    BY <1>3 DEF Retrain
  <2>2. DOMAIN work' = WorkFields /\ work'.start = work.start /\ work'.new = {}
    BY <2>1 DEF WorkFields, TruthInv, SoundInv
  <2>3. SoundInv'
    BY <1>1, <1>3, <2>2 DEF TruthInv, SoundInv
  <2> QED BY <1>1, <2>1, <2>3 DEF TruthInv, ExactInv, LadderInv, LabInv, ProbeInv, SaidInv
<1> QED BY <1>2, <1>3

LEMMA ActiveEnds == ASSUME TruthInv, EndActive PROVE TruthInv'
<1>1. /\ stage = "rank" /\ stage' = "idle" /\ walks' = walks /\ work' = NoWork /\ oracle' = oracle
      /\ futures' = futures /\ pool' = pool /\ said'.kind = "active"
  BY DEF EndActive, EnvironmentSame
<1>2. SoundInv'
  BY <1>1, NoWorkIs DEF TruthInv, SoundInv
<1> QED BY <1>1, <1>2 DEF TruthInv, ExactInv, LadderInv, LabInv, ProbeInv, SaidInv

LEMMA LearningTrue == ASSUME Demands, FutureInv, TruthInv, Learning PROVE TruthInv'
  BY ActiveKeeps, RankKeeps, ProbeKeeps, RetrainKeeps, ActiveEnds DEF Learning

-----------------------------------------------------------------------------
(* A program, the computer that probes its environment, and the rest.      *)

LEMMA BootTrue == ASSUME Demands, TruthInv, NEW seed \in Int, NEW kir \in Starts, Boot(seed, kir) PROVE TruthInv'
<1>1. /\ stage = "off" /\ stage' = "idle" /\ oracle' = NewOracle(seed) /\ futures' = OnlyMain(kir)
      /\ UNCHANGED <<pool, work, walks, said>>
  BY DEF Boot
<1>2. \A n \in DOMAIN futures' : futures'[n].kir \in Kirs
  <2>1. kir \in Kirs /\ NewFuture(kir).kir = kir
    BY StartsAre DEF NewFuture
  <2> QED BY <1>1, <2>1 DEF OnlyMain
<1>3. SoundInv'
  BY <1>1, <1>2, FreshOracle DEF TruthInv, SoundInv
<1>4. said'.kind = "nothing"
  BY <1>1 DEF TruthInv, SaidInv
<1> QED BY <1>1, <1>3, <1>4 DEF TruthInv, ExactInv, LadderInv, LabInv, ProbeInv, SaidInv

LEMMA ProbedTrue == ASSUME TruthInv, NEW fails, ProbeKernel(fails) PROVE TruthInv'
<1>1. UNCHANGED <<oracle, pool, stage, work, walks, said, procedures>>
  BY DEF ProbeKernel
<1>2. \A n \in DOMAIN futures' : futures'[n].kir \in Kirs
  <2>2. futures' = [n \in {"main", "tight-world"} |-> NewFuture(Booted)] \/ futures' = futures
    BY DEF ProbeKernel
  <2> QED BY <2>2, BootedIs DEF TruthInv, SoundInv
<1>3. SoundInv'
  BY <1>1, <1>2 DEF TruthInv, SoundInv
<1> QED BY <1>1, <1>3 DEF TruthInv, ExactInv, LadderInv, LabInv, ProbeInv, SaidInv

LEMMA OthersTrue == ASSUME TruthInv, UNCHANGED kernelVars PROVE TruthInv'
<1>1. UNCHANGED <<futures, oracle, pool, stage, work, walks, said>>
  BY DEF kernelVars
<1>2. SoundInv'
  BY <1>1 DEF TruthInv, SoundInv
<1> QED BY <1>1, <1>2 DEF TruthInv, ExactInv, LadderInv, LabInv, ProbeInv, SaidInv

LEMMA TruthStep ==
  ASSUME Demands, FutureInv, TruthInv, [ComputerNext]_allVars
  PROVE  TruthInv'
<1>0. OracleSeeds \subseteq Int
  BY SeedsAssumption
<1>1. CASE KernelWork
  <2>1. CASE Futures
    BY <2>1, FuturesTrue
  <2>2. CASE Laddering
    BY <2>2, LadderTrue
  <2>3. CASE Debating
    BY <2>3, DebateTrue
  <2>4. CASE Learning
    BY <2>4, LearningTrue
  <2>5. CASE Assessing
    BY <1>0, <2>5, CertifiesTruly DEF Assessing
  <2>6. CASE \E s \in Sequences(Horizon) : Evaluate(futures[focus].kir, s)
    BY <2>6, EvaluatesTruly
  <2>7. CASE \E seed \in OracleSeeds, n \in DOMAIN futures : ValidateFuture(seed, n)
    BY <1>0, <2>7, ValidatesTruly
  <2> QED BY <1>1, <2>1, <2>2, <2>3, <2>4, <2>5, <2>6, <2>7 DEF KernelWork
<1>2. CASE \E seed \in OracleSeeds, kir \in Starts : Boot(seed, kir)
  BY <1>0, <1>2, BootTrue
<1>3. ASSUME NEW fails, ProbeKernel(fails) PROVE TruthInv'
  BY <1>3, ProbedTrue
<1>4. CASE KernelSame \/ UNCHANGED kernelVars \/ UNCHANGED allVars
  <2>1. UNCHANGED kernelVars
    BY <1>4 DEF KernelSame, allVars, kernelVars
  <2> QED BY <2>1, OthersTrue
<1> QED BY <1>1, <1>2, <1>3, <1>4 DEF ComputerNext, KernelProgram, DriftProgram

LEMMA TruthStarts == ASSUME Demands, ComputerInit PROVE TruthInv
<1>1. /\ futures = OnlyMain(Booted) /\ oracle = NewOracle(0) /\ pool = {} /\ stage = "off"
      /\ work = NoWork /\ walks = {} /\ said = Nothing
  BY DEF ComputerInit, KernelInit
<1>2. \A n \in DOMAIN futures : futures[n].kir \in Kirs
  BY <1>1, BootedIs DEF OnlyMain
<1>3. SoundInv
  BY <1>1, <1>2, NoWorkIs, FreshOracle DEF SoundInv
<1> QED BY <1>1, <1>3 DEF TruthInv, ExactInv, LadderInv, LabInv, ProbeInv, SaidInv, Nothing

LEMMA Dominates ==
  ASSUME Demands, TruthInv PROVE ExactSearchDominates
<1> SUFFICES ASSUME said.kind = "ladder", said.budget >= Horizon * Cardinality(Sequences(Horizon)),
                    NEW i \in 3 .. 4, Len(said.rungs[i].seq) = Horizon
             PROVE  said.rungs[2].reward >= said.rungs[i].reward
  BY DEF ExactSearchDominates
<1> DEFINE r == said.rungs[i]
<1>1. Len(said.rungs) = 4 /\ RungsOK(oracle.base, said.start, said.budget, said.rungs)
  BY DEF TruthInv, SaidInv
<1>2. i \in 2 .. 4 /\ Horizon \in Nat /\ Horizon >= 1
  BY KernelAssumption, SearchesAssumption
<1>3. r.seq \in TreeSequences
  BY <1>1 DEF RungsOK
<1>4. PICK h \in 1 .. Horizon : r.seq \in Sequences(h)
  BY <1>3 DEF TreeSequences
<1>5. h = Horizon /\ r.seq \in Seq(Nat)
  <2>1. h \in Nat
    BY <1>2
  <2> QED BY <1>4, <2>1, SequencesOfArms
<1>6. r.seq # <<>>
  BY <1>2, <1>5
<1>7. r.reward = ExactReward(oracle.base, said.start, r.seq)
  BY <1>1, <1>2, <1>6 DEF RungsOK
<1>8. said.rungs[2].reward >= ExactReward(oracle.base, said.start, r.seq)
  BY <1>1, <1>4, <1>5 DEF RungsOK
<1> QED BY <1>7, <1>8

\* "Results are order-independent" (oracle.py:54), and what the oracle says is what the
\* dynamics conserve and what a search that can afford it finds: for every workload of
\* bounded demand, and whatever the ensemble predicts, ranks and vetoes, the reward of a
\* walk, a rung, a leader the agents did not revise and a trained transition is the one a
\* fresh oracle gives, no walk breaks an invariant but the waived one, and an exact search
\* that can pay for every sequence is not beaten.
THEOREM OracleTellsTheTruth == ASSUME Demands PROVE ComputerSpec => []OracleIsTruth
<1>1. ComputerInit => TruthInv /\ FutureInv
  BY TruthStarts, NewStory DEF ComputerInit, KernelInit, OnlyMain, FutureInv
<1>2. TruthInv /\ FutureInv /\ [ComputerNext]_allVars => TruthInv' /\ FutureInv'
  BY TruthStep, FutureStep
<1>3. TruthInv => OracleIsTruth
  <2> SUFFICES ASSUME TruthInv PROVE OracleIsTruth
    OBVIOUS
  <2>1. /\ \A w \in walks : WalkOK(w)
        /\ \A p \in pool : PoolOK(p)
    BY DEF TruthInv, SoundInv
  <2>2. said.kind = "ladder" => Len(said.rungs) = 4
                                 /\ RungsOK(oracle.base, said.start, said.budget, said.rungs)
    BY DEF TruthInv, SaidInv
  <2>3. said.kind = "lab" /\ ~said.revised /\ said.best \in said.checked =>
          said.reward = ExactReward(oracle.base, said.start, said.best)
    BY DEF TruthInv, SaidInv
  <2>4. RewardsAreExact
    BY <2>1, <2>2, <2>3 DEF RewardsAreExact, WalkOK, PoolOK, RungsOK
  <2>5. StepsConserve
    BY <2>1 DEF StepsConserve, WalkOK, Waived, TruthInv, SaidInv
  <2> QED BY <2>4, <2>5, Dominates DEF OracleIsTruth
<1> QED BY <1>1, <1>2, <1>3, PTL DEF ComputerSpec

\* The sums of the first products; the dot product is the last one.
Sums(v, n, P) ==
  /\ P \in [0 .. n -> Int] /\ P[0] = 0
  /\ \A k \in 0 .. n - 1 : P[k + 1] = P[k] + v.a[k] * v.b[k]

LEMMA OperandsAre ==
  ASSUME NEW n \in Nat, NEW v \in Vectors(n), NEW k \in 0 .. n - 1
  PROVE  v.a[k] \in Int /\ v.b[k] \in Int /\ v.a[k] * v.b[k] \in Int
<1>1. v.a \in [0 .. n - 1 -> Operands] /\ v.b \in [0 .. n - 1 -> Operands]
  BY DEF Vectors
<1>2. v.a[k] \in Int /\ v.b[k] \in Int
  BY <1>1, OperandsAssumption
<1> QED BY <1>2

LEMMA SumsExist ==
  ASSUME NEW n \in Nat, NEW v \in Vectors(n)
  PROVE  \E P : Sums(v, n, P)
<1> DEFINE Missing == {k \in Nat : k <= n /\ ~ \E P : Sums(v, k, P)}
<1>1. SUFFICES ASSUME Missing # {} PROVE FALSE
  OBVIOUS
<1>2. PICK k \in Missing : \A m \in Missing : k <= m
  BY <1>1, Least
<1>3. k \in Nat /\ k <= n /\ ~ \E P : Sums(v, k, P)
  BY <1>2
<1>4. k # 0
  <2>1. SUFFICES ASSUME k = 0 PROVE FALSE
    OBVIOUS
  <2> DEFINE P == [i \in 0 .. 0 |-> 0]
  <2>2. P \in [0 .. k -> Int] /\ P[0] = 0 /\ 0 .. k - 1 = {}
    BY <2>1
  <2>3. Sums(v, k, P)
    BY <2>2 DEF Sums
  <2> QED BY <1>3, <2>3
<1>5. PICK j \in Nat : k = j + 1
  <2>1. k - 1 \in Nat /\ k = (k - 1) + 1
    BY <1>3, <1>4
  <2> QED BY <2>1
<1>6. PICK Q : Sums(v, j, Q)
  <2>1. j \notin Missing
    BY <1>2, <1>5
  <2>2. j <= n
    BY <1>3, <1>5
  <2> QED BY <2>1, <2>2
<1> DEFINE P == [i \in 0 .. k |-> IF i = k THEN Q[j] + v.a[j] * v.b[j] ELSE Q[i]]
<1>7. Q \in [0 .. j -> Int] /\ Q[0] = 0 /\ \A i \in 0 .. j - 1 : Q[i + 1] = Q[i] + v.a[i] * v.b[i]
  BY <1>6 DEF Sums
<1>8. v.a[j] * v.b[j] \in Int
  <2>1. j \in 0 .. n - 1
    BY <1>3, <1>5
  <2> QED BY <2>1, OperandsAre
<1>9. P \in [0 .. k -> Int]
  <2>1. \A i \in 0 .. k : i # k => i \in 0 .. j
    BY <1>5
  <2>2. j \in 0 .. j
    OBVIOUS
  <2>3. Q[j] + v.a[j] * v.b[j] \in Int
    BY <1>7, <1>8, <2>2
  <2> QED BY <1>7, <2>1, <2>3
<1>10. P[0] = 0
  BY <1>3, <1>4, <1>7
<1>11. ASSUME NEW i \in 0 .. k - 1 PROVE P[i + 1] = P[i] + v.a[i] * v.b[i]
  <2>1. P[i] = Q[i]
    BY <1>3
  <2>2. CASE i = j
    BY <1>5, <2>1, <2>2
  <2>3. CASE i # j
    <3>1. i \in 0 .. j - 1 /\ i + 1 # k /\ i + 1 \in 0 .. k
      BY <1>5, <2>3
    <3>2. P[i + 1] = Q[i + 1]
      BY <3>1
    <3> HIDE DEF P
    <3> QED BY <1>7, <2>1, <3>1, <3>2
  <2> QED BY <2>2, <2>3
<1>12. Sums(v, k, P)
  <2> HIDE DEF P
  <2> QED BY <1>9, <1>10, <1>11 DEF Sums
<1> QED BY <1>3, <1>12

SumFact(p, k, w) == w = p[k]

Summing == INSTANCE Folding WITH Next <- Plus, Fact <- SumFact

LEMMA SumFold ==
  ASSUME NEW b, NEW s
  PROVE  FoldLeft(Plus, b, s) = Summing!Folded(b, s)
  BY Zenon DEF FoldLeft, Summing!Folded, MapThenFoldSet, Summing!MapThenFoldSet, Max, Summing!Max

LEMMA ExpectedIs ==
  ASSUME NEW n \in Nat, NEW v \in Vectors(n)
  PROVE  \E P : Sums(v, n, P) /\ Expected(v, n) = P[n]
<1>1. PICK P : Sums(v, n, P)
  BY SumsExist
<1> DEFINE s == [i \in 1 .. n |-> v.a[i - 1] * v.b[i - 1]]
<1>2. s \in Seq(Int) /\ Len(s) = n
  <2>1. \A i \in 1 .. n : i - 1 \in 0 .. n - 1
    OBVIOUS
  <2>2. \A i \in 1 .. n : v.a[i - 1] * v.b[i - 1] \in Int
    BY <2>1, OperandsAre
  <2> QED BY <2>2
<1>3. SumFact(P, 0, 0)
  BY <1>1 DEF Sums, SumFact
<1>4. \A k \in 0 .. Len(s) - 1 : \A w : SumFact(P, k, w) => SumFact(P, k + 1, Plus(w, s[k + 1]))
  <2> SUFFICES ASSUME NEW k \in 0 .. n - 1, NEW w, SumFact(P, k, w)
               PROVE  SumFact(P, k + 1, Plus(w, s[k + 1]))
    BY <1>2
  <2>1. s[k + 1] = v.a[k] * v.b[k]
    OBVIOUS
  <2> HIDE DEF s
  <2>2. P[k + 1] = P[k] + v.a[k] * v.b[k] /\ w = P[k]
    BY <1>1 DEF Sums, SumFact
  <2> QED BY <2>1, <2>2 DEF SumFact, Plus
<1>5. Expected(v, n) = FoldLeft(Plus, 0, s)
  BY DEF Expected
<1> HIDE DEF s
<1>6. SumFact(P, Len(s), Summing!Folded(0, s))
  BY <1>2, <1>3, <1>4, Summing!FoldLeftKeeps
<1>7. SumFact(P, n, Expected(v, n))
  BY <1>2, <1>5, <1>6, SumFold
<1> QED BY <1>1, <1>7 DEF SumFact

\* What the instructions of the two programs do.
Regs == 0 .. 11

Gets(s, t, rd, value) ==
  t.mem = s.mem /\ \A x \in Regs : t.regs[x] = IF x = rd THEN value ELSE s.regs[x]

LEMMA LoadIs ==
  ASSUME NEW s, NEW rd \in 1 .. 11, NEW addr
  PROVE  Gets(s, Execute(s, LoadReg(rd, addr)), rd, s.mem[addr])
<1> DEFINE i == LoadReg(rd, addr)
<1>1. i.op = "LOAD" /\ i.rd = rd /\ i.imm = addr
  BY DEF LoadReg, Ins
<1> HIDE DEF i
<1>2. ISA!Writes(i) = {rd}
  BY <1>1 DEF ISA!Writes
<1>3. ISA!Reg = Regs
  BY DEF ISA!Reg, Regs
<1> QED BY <1>1, <1>2, <1>3 DEF Execute, ISA!WriteBack, Gets, i

LEMMA StoreIs ==
  ASSUME NEW s, NEW rs, NEW addr
  PROVE  /\ DOMAIN Execute(s, StoreReg(rs, addr)).mem = DOMAIN s.mem
         /\ \A y \in DOMAIN s.mem : Execute(s, StoreReg(rs, addr)).mem[y] =
                                       IF y = addr THEN s.regs[rs] ELSE s.mem[y]
         /\ \A x \in Regs : Execute(s, StoreReg(rs, addr)).regs[x] = s.regs[x]
<1> DEFINE i == StoreReg(rs, addr)
<1>1. i.op = "STORE" /\ i.rs2 = rs /\ i.imm = addr
  BY DEF StoreReg, Ins
<1> HIDE DEF i
<1>2. ISA!Writes(i) = {}
  BY <1>1 DEF ISA!Writes
<1>3. ISA!Reg = Regs
  BY DEF ISA!Reg, Regs
<1> QED BY <1>1, <1>2, <1>3 DEF Execute, ISA!WriteBack, i

LEMMA ComputeIs ==
  ASSUME NEW s, NEW op \in {"ADD", "VADD", "MUL", "VMUL", "ADDI"}, NEW rd \in 1 .. 11,
         NEW rs1, NEW rs2, NEW imm
  PROVE  Gets(s, Execute(s, Ins(op, rd, rs1, rs2, imm)), rd,
              IF op = "ADDI" THEN s.regs[rs1] + imm
              ELSE IF op \in {"ADD", "VADD"} THEN s.regs[rs1] + s.regs[rs2]
              ELSE s.regs[rs1] * s.regs[rs2])
<1> DEFINE i == Ins(op, rd, rs1, rs2, imm)
           a == s.regs[rs1]
           b == s.regs[rs2]
<1>1. i.op = op /\ i.rd = rd /\ i.rs1 = rs1 /\ i.rs2 = rs2 /\ i.imm = imm
  BY DEF Ins
<1> HIDE DEF i
<1>2. ISA!Writes(i) = {rd}
  BY <1>1 DEF ISA!Writes
<1>3. ISA!Reg = Regs
  BY DEF ISA!Reg, Regs
<1>4. ISA!AluValue(i, a, b) = IF op = "ADDI" THEN a + imm
                              ELSE IF op \in {"ADD", "VADD"} THEN a + b ELSE a * b
  <2> HIDE DEF a, b
  <2>1. CASE op = "ADDI"
    BY <1>1, <2>1 DEF ISA!AluValue
  <2>2. CASE op \in {"ADD", "VADD"}
    BY <1>1, <2>2 DEF ISA!AluValue
  <2>3. CASE op \in {"MUL", "VMUL"}
    BY <1>1, <2>3 DEF ISA!AluValue
  <2> QED BY <2>1, <2>2, <2>3
<1>5. op # "LOAD" /\ op # "STORE"
  OBVIOUS
<1> HIDE DEF a, b
<1>6. Execute(s, i).mem = s.mem
  BY <1>1, <1>5 DEF Execute
<1>7. ASSUME NEW x \in Regs
      PROVE  Execute(s, i).regs[x] = IF x # rd THEN s.regs[x] ELSE ISA!AluValue(i, a, b)
  BY <1>1, <1>2, <1>3, <1>5 DEF Execute, ISA!WriteBack, a, b
<1> QED BY <1>4, <1>6, <1>7 DEF Gets, i, a, b

LEMMA HaltIs ==
  ASSUME NEW s
  PROVE  /\ Execute(s, Ins("HALT", 0, 0, 0, 0)).mem = s.mem
         /\ \A x \in Regs : Execute(s, Ins("HALT", 0, 0, 0, 0)).regs[x] = s.regs[x]
<1> DEFINE i == Ins("HALT", 0, 0, 0, 0)
<1>1. i.op = "HALT"
  BY DEF Ins
<1> HIDE DEF i
<1>2. ISA!Writes(i) = {}
  BY <1>1 DEF ISA!Writes
<1>3. ISA!Reg = Regs
  BY DEF ISA!Reg, Regs
<1> QED BY <1>1, <1>2, <1>3 DEF Execute, ISA!WriteBack, i

\* The memory holds the operands, and the cells that are written.
Words(n) == {ABase + i : i \in 0 .. n - 1} \cup {BBase + i : i \in 0 .. n - 1} \cup {SpillAddr, OutAddr}
Data(p, s) ==
  /\ DOMAIN s.mem = Words(p.n)
  /\ \A x \in 0 .. p.n - 1 : s.mem[ABase + x] = p.v.a[x] /\ s.mem[BBase + x] = p.v.b[x]
Sound(p) == p.n \in 1 .. 100 /\ p.v \in Vectors(p.n) /\ Sums(p.v, p.n, p.sums)

\* What an element of the first program has done after r of its instructions.
ScalarAt(p, j, r, s) ==
  /\ s.regs[3] = IF r <= 3 THEN p.sums[j] ELSE p.sums[j + 1]
  /\ r >= 1 => s.regs[5] = p.v.a[j]
  /\ r >= 2 => s.regs[6] = p.v.b[j]
  /\ r >= 3 => s.regs[7] = p.v.a[j] * p.v.b[j]
  /\ r >= 5 => s.mem[SpillAddr] = p.sums[j + 1]

LEMMA ElementGoes ==
  ASSUME NEW p, Sound(p), NEW j \in 0 .. p.n - 1, NEW r \in 0 .. 5, NEW s, Data(p, s), ScalarAt(p, j, r, s)
  PROVE  LET t == Execute(s, Element(j)[r + 1])
         IN  /\ Data(p, t)
             /\ IF r = 5 THEN ScalarAt(p, j + 1, 0, t) ELSE ScalarAt(p, j, r + 1, t)
<1> DEFINE t == Execute(s, Element(j)[r + 1])
<1>1. /\ p.n \in Nat /\ j \in Nat
      /\ p.sums[j] \in Int /\ p.v.a[j] * p.v.b[j] \in Int /\ p.sums[j + 1] = p.sums[j] + p.v.a[j] * p.v.b[j]
  <2>1. p.v.a[j] * p.v.b[j] \in Int
    BY OperandsAre DEF Sound
  <2>2. p.n \in Nat
    BY DEF Sound
  <2>3. p.sums \in [0 .. p.n -> Int] /\ p.sums[j + 1] = p.sums[j] + p.v.a[j] * p.v.b[j]
    BY Zenon DEF Sound, Sums
  <2>4. j \in 0 .. p.n /\ j \in Nat
    BY <2>2
  <2> QED BY <2>1, <2>2, <2>3, <2>4
<1>2. {3, 5, 6, 7} \subseteq Regs
  BY DEF Regs
<1>3. CASE r = 0
  <2>1. Element(j)[r + 1] = LoadReg(5, ABase + j)
    BY <1>3 DEF Element
  <2>2. t.mem = s.mem /\ t.regs[5] = s.mem[ABase + j] /\ t.regs[3] = s.regs[3]
    <3>1. Gets(s, t, 5, s.mem[ABase + j])
      BY <2>1, LoadIs
    <3> HIDE DEF t
    <3> QED BY <1>2, <3>1 DEF Gets
  <2> HIDE DEF t
  <2> QED BY <1>1, <1>3, <2>2 DEF Data, ScalarAt, t
<1>4. CASE r = 1
  <2>1. Element(j)[r + 1] = LoadReg(6, BBase + j)
    BY <1>4 DEF Element
  <2>2. t.mem = s.mem /\ t.regs[6] = s.mem[BBase + j] /\ t.regs[3] = s.regs[3] /\ t.regs[5] = s.regs[5]
    <3>1. Gets(s, t, 6, s.mem[BBase + j])
      BY <2>1, LoadIs
    <3> HIDE DEF t
    <3> QED BY <1>2, <3>1 DEF Gets
  <2> HIDE DEF t
  <2> QED BY <1>1, <1>4, <2>2 DEF Data, ScalarAt, t
<1>5. CASE r = 2
  <2>1. Element(j)[r + 1] = Ins("MUL", 7, 5, 6, 0)
    BY <1>5 DEF Element
  <2>2. /\ t.mem = s.mem /\ t.regs[7] = s.regs[5] * s.regs[6] /\ t.regs[3] = s.regs[3]
        /\ t.regs[5] = s.regs[5] /\ t.regs[6] = s.regs[6]
    BY <1>2, <2>1, ComputeIs DEF Gets
  <2> HIDE DEF t
  <2> QED BY <1>1, <1>5, <2>2 DEF Data, ScalarAt, t
<1>6. CASE r = 3
  <2>1. Element(j)[r + 1] = Ins("ADD", 3, 3, 7, 0)
    BY <1>6 DEF Element
  <2>2. /\ t.mem = s.mem /\ t.regs[3] = s.regs[3] + s.regs[7]
        /\ t.regs[5] = s.regs[5] /\ t.regs[6] = s.regs[6] /\ t.regs[7] = s.regs[7]
    BY <1>2, <2>1, ComputeIs DEF Gets
  <2> HIDE DEF t
  <2> QED BY <1>1, <1>6, <2>2 DEF Data, ScalarAt, t
<1>7. CASE r = 4
  <2>1. Element(j)[r + 1] = StoreReg(3, SpillAddr)
    BY <1>7 DEF Element
  <2>2. /\ DOMAIN t.mem = DOMAIN s.mem
        /\ \A y \in DOMAIN s.mem : t.mem[y] = IF y = SpillAddr THEN s.regs[3] ELSE s.mem[y]
    BY <2>1, StoreIs
  <2>3. \A x \in Regs : t.regs[x] = s.regs[x]
    BY <2>1, StoreIs
  <2>4. /\ SpillAddr \in Words(p.n)
        /\ \A x \in 0 .. p.n - 1 : /\ ABase + x # SpillAddr /\ BBase + x # SpillAddr
                                   /\ ABase + x \in Words(p.n) /\ BBase + x \in Words(p.n)
    BY DEF ABase, BBase, SpillAddr, Sound, Words
  <2> HIDE DEF t
  <2>5. Data(p, t) /\ t.mem[SpillAddr] = s.regs[3]
    BY <2>2, <2>4 DEF Data
  <2>6. t.regs[3] = s.regs[3] /\ t.regs[5] = s.regs[5] /\ t.regs[6] = s.regs[6] /\ t.regs[7] = s.regs[7]
    BY <1>2, <2>3
  <2> QED BY <1>1, <1>7, <2>5, <2>6 DEF ScalarAt, t
<1>8. CASE r = 5
  <2>1. Element(j)[r + 1] = LoadReg(3, SpillAddr)
    BY <1>8 DEF Element
  <2>2. t.mem = s.mem /\ t.regs[3] = s.mem[SpillAddr]
    BY <1>2, <2>1, LoadIs DEF Gets
  <2> HIDE DEF t
  <2> QED BY <1>1, <1>8, <2>2 DEF Data, ScalarAt, t
<1> QED BY <1>3, <1>4, <1>5, <1>6, <1>7, <1>8

\* What a block of the second program has done after r of its instructions.
VectorAt(p, j, r, s) ==
  /\ s.regs[3] = p.sums[2 * j]
  /\ r >= 1 => s.regs[5] = p.v.a[2 * j]
  /\ r >= 2 => s.regs[6] = p.v.b[2 * j]
  /\ r >= 3 => s.regs[7] = p.v.a[2 * j] * p.v.b[2 * j]
  /\ r >= 4 => s.regs[8] = p.v.a[2 * j + 1]
  /\ r >= 5 => s.regs[9] = p.v.b[2 * j + 1]
  /\ r >= 6 => s.regs[10] = p.v.a[2 * j + 1] * p.v.b[2 * j + 1]
  /\ r >= 7 => s.regs[11] = p.v.a[2 * j] * p.v.b[2 * j] + p.v.a[2 * j + 1] * p.v.b[2 * j + 1]

LEMMA BlockGoes ==
  ASSUME NEW p, Sound(p), NEW m \in Nat, p.n = 2 * m, NEW j \in 0 .. m - 1, NEW r \in 0 .. 7, NEW s,
         Data(p, s), VectorAt(p, j, r, s)
  PROVE  LET t == Execute(s, Block(2 * j)[r + 1])
         IN  /\ Data(p, t)
             /\ IF r = 7 THEN VectorAt(p, j + 1, 0, t) ELSE VectorAt(p, j, r + 1, t)
<1> DEFINE t == Execute(s, Block(2 * j)[r + 1])
           i == 2 * j
           x == p.v.a[i] * p.v.b[i]
           y == p.v.a[i + 1] * p.v.b[i + 1]
<1>1. /\ i \in 0 .. p.n - 1 /\ i + 1 \in 0 .. p.n - 1 /\ i \in Nat /\ p.n \in Nat
      /\ 2 * (j + 1) = i + 2 /\ (i + 1) + 1 = i + 2
  OBVIOUS
<1>2. x \in Int /\ y \in Int
  BY <1>1, OperandsAre DEF Sound
<1>3. p.sums[i] \in Int /\ p.sums[i + 2] = p.sums[i] + (x + y)
  <2> HIDE DEF x, y, i
  <2>1. /\ p.sums \in [0 .. p.n -> Int] /\ p.sums[i + 1] = p.sums[i] + x
        /\ p.sums[(i + 1) + 1] = p.sums[i + 1] + y
    BY <1>1, Zenon DEF Sound, Sums, x, y
  <2>2. i \in 0 .. p.n
    BY <1>1
  <2>3. p.sums[i] \in Int
    BY <2>1, <2>2
  <2>4. p.sums[i + 2] = p.sums[i + 1] + y
    BY <1>1, <2>1
  <2> DEFINE a == p.sums[i]
             b == p.sums[i + 1]
             c == p.sums[i + 2]
  <2>5. a \in Int /\ b = a + x /\ c = b + y
    BY <2>1, <2>3, <2>4
  <2> HIDE DEF a, b, c
  <2>6. c = a + (x + y)
    BY <1>2, <2>5
  <2> QED BY <2>3, <2>6 DEF a, c
<1>4. {3, 5, 6, 7, 8, 9, 10, 11} \subseteq Regs
  BY DEF Regs
<1>5. /\ s.regs[3] = p.sums[i] /\ (r >= 1 => s.regs[5] = p.v.a[i]) /\ (r >= 2 => s.regs[6] = p.v.b[i])
      /\ (r >= 3 => s.regs[7] = x) /\ (r >= 4 => s.regs[8] = p.v.a[i + 1])
      /\ (r >= 5 => s.regs[9] = p.v.b[i + 1]) /\ (r >= 6 => s.regs[10] = y)
      /\ (r >= 7 => s.regs[11] = x + y)
  BY DEF VectorAt
<1>6. s.mem[ABase + i] = p.v.a[i] /\ s.mem[BBase + i] = p.v.b[i]
  BY <1>1 DEF Data
<1>7. s.mem[ABase + i + 1] = p.v.a[i + 1] /\ s.mem[BBase + i + 1] = p.v.b[i + 1]
  <2>1. ABase + (i + 1) = ABase + i + 1 /\ BBase + (i + 1) = BBase + i + 1
    BY <1>1 DEF ABase, BBase
  <2>2. s.mem[ABase + (i + 1)] = p.v.a[i + 1] /\ s.mem[BBase + (i + 1)] = p.v.b[i + 1]
    BY <1>1 DEF Data
  <2> QED BY <2>1, <2>2
<1>8. ASSUME t.mem = s.mem PROVE Data(p, t)
  <2> HIDE DEF t
  <2> QED BY <1>8 DEF Data
<1>9. ASSUME NEW z, r # 7, z = t.regs, z[3] = p.sums[i], z[5] = p.v.a[i],
             r >= 1 => z[6] = p.v.b[i], r >= 2 => z[7] = x, r >= 3 => z[8] = p.v.a[i + 1],
             r >= 4 => z[9] = p.v.b[i + 1], r >= 5 => z[10] = y, r >= 6 => z[11] = x + y
      PROVE  VectorAt(p, j, r + 1, t)
  <2> HIDE DEF t
  <2>1. (r + 1 >= 2 => r >= 1) /\ (r + 1 >= 3 => r >= 2) /\ (r + 1 >= 4 => r >= 3)
        /\ (r + 1 >= 5 => r >= 4) /\ (r + 1 >= 6 => r >= 5) /\ (r + 1 >= 7 => r >= 6)
    OBVIOUS
  <2> QED BY <1>9, <2>1 DEF VectorAt
<1> DEFINE Keeps(rd) == t.mem = s.mem /\ \A k \in {3, 5, 6, 7, 8, 9, 10, 11} \ {rd} : t.regs[k] = s.regs[k]
<1>10. CASE r = 0
  <2>1. Block(i)[r + 1] = LoadReg(5, ABase + i)
    BY <1>10 DEF Block
  <2> DEFINE addr == ABase + i
  <2>3. t = Execute(s, LoadReg(5, addr))
    BY <2>1
  <2>2. Keeps(5) /\ t.regs[5] = s.mem[ABase + i]
    <3> HIDE DEF t, addr
    <3>1. Gets(s, t, 5, s.mem[addr])
      BY <2>3, LoadIs
    <3>2. Keeps(5) /\ t.regs[5] = s.mem[addr]
      BY <1>4, <3>1 DEF Gets
    <3> QED BY <3>2 DEF addr
  <2> HIDE DEF t, x, y, i
  <2> QED BY <1>5, <1>6, <1>8, <1>9, <1>10, <2>2 DEF t, i
<1>11. CASE r = 1
  <2>1. Block(i)[r + 1] = LoadReg(6, BBase + i)
    BY <1>11 DEF Block
  <2> DEFINE addr == BBase + i
  <2>3. t = Execute(s, LoadReg(6, addr))
    BY <2>1
  <2>2. Keeps(6) /\ t.regs[6] = s.mem[BBase + i]
    <3> HIDE DEF t, addr
    <3>1. Gets(s, t, 6, s.mem[addr])
      BY <2>3, LoadIs
    <3>2. Keeps(6) /\ t.regs[6] = s.mem[addr]
      BY <1>4, <3>1 DEF Gets
    <3> QED BY <3>2 DEF addr
  <2> HIDE DEF t, x, y, i
  <2> QED BY <1>5, <1>6, <1>8, <1>9, <1>11, <2>2 DEF t, i
<1>12. CASE r = 2
  <2>1. Block(i)[r + 1] = Ins("VMUL", 7, 5, 6, 0)
    BY <1>12 DEF Block
  <2>2. Keeps(7) /\ t.regs[7] = s.regs[5] * s.regs[6]
    BY <1>4, <2>1, ComputeIs DEF Gets
  <2>3. t.regs[7] = x
    BY <1>5, <1>12, <2>2
  <2> HIDE DEF t, x, y, i
  <2> QED BY <1>5, <1>8, <1>9, <1>12, <2>2, <2>3 DEF t, i
<1>13. CASE r = 3
  <2>1. Block(i)[r + 1] = LoadReg(8, ABase + i + 1)
    BY <1>13 DEF Block
  <2> DEFINE addr == ABase + i + 1
  <2>3. t = Execute(s, LoadReg(8, addr))
    BY <2>1
  <2>2. Keeps(8) /\ t.regs[8] = s.mem[ABase + i + 1]
    <3> HIDE DEF t, addr
    <3>1. Gets(s, t, 8, s.mem[addr])
      BY <2>3, LoadIs
    <3>2. Keeps(8) /\ t.regs[8] = s.mem[addr]
      BY <1>4, <3>1 DEF Gets
    <3> QED BY <3>2 DEF addr
  <2> HIDE DEF t, x, y, i
  <2> QED BY <1>5, <1>7, <1>8, <1>9, <1>13, <2>2 DEF t, i
<1>14. CASE r = 4
  <2>1. Block(i)[r + 1] = LoadReg(9, BBase + i + 1)
    BY <1>14 DEF Block
  <2> DEFINE addr == BBase + i + 1
  <2>3. t = Execute(s, LoadReg(9, addr))
    BY <2>1
  <2>2. Keeps(9) /\ t.regs[9] = s.mem[BBase + i + 1]
    <3> HIDE DEF t, addr
    <3>1. Gets(s, t, 9, s.mem[addr])
      BY <2>3, LoadIs
    <3>2. Keeps(9) /\ t.regs[9] = s.mem[addr]
      BY <1>4, <3>1 DEF Gets
    <3> QED BY <3>2 DEF addr
  <2> HIDE DEF t, x, y, i
  <2> QED BY <1>5, <1>7, <1>8, <1>9, <1>14, <2>2 DEF t, i
<1>15. CASE r = 5
  <2>1. Block(i)[r + 1] = Ins("VMUL", 10, 8, 9, 0)
    BY <1>15 DEF Block
  <2>2. Keeps(10) /\ t.regs[10] = s.regs[8] * s.regs[9]
    BY <1>4, <2>1, ComputeIs DEF Gets
  <2>3. t.regs[10] = y
    BY <1>5, <1>15, <2>2
  <2> HIDE DEF t, x, y, i
  <2> QED BY <1>5, <1>8, <1>9, <1>15, <2>2, <2>3 DEF t, i
<1>16. CASE r = 6
  <2>1. Block(i)[r + 1] = Ins("VADD", 11, 7, 10, 0)
    BY <1>16 DEF Block
  <2>2. Keeps(11) /\ t.regs[11] = s.regs[7] + s.regs[10]
    BY <1>4, <2>1, ComputeIs DEF Gets
  <2> HIDE DEF t, x, y, i
  <2> QED BY <1>5, <1>8, <1>9, <1>16, <2>2 DEF t, i
<1>17. CASE r = 7
  <2>1. Block(i)[r + 1] = Ins("ADD", 3, 3, 11, 0)
    BY <1>17 DEF Block
  <2>2. t.mem = s.mem /\ t.regs[3] = s.regs[3] + s.regs[11]
    BY <1>4, <2>1, ComputeIs DEF Gets
  <2> HIDE DEF t, x, y, i
  <2>3. t.regs[3] = p.sums[2 * (j + 1)]
    <3>1. s.regs[3] = p.sums[i] /\ s.regs[11] = x + y
      BY <1>5, <1>17
    <3>2. t.regs[3] = p.sums[i + 2]
      BY <1>3, <2>2, <3>1
    <3> QED BY <1>1, <3>2
  <2>4. VectorAt(p, j + 1, 0, t)
    BY <2>3 DEF VectorAt
  <2> QED BY <1>8, <1>17, <2>2, <2>4 DEF t, i
<1> QED BY <1>10, <1>11, <1>12, <1>13, <1>14, <1>15, <1>16, <1>17

\* The programs are their blocks between two frames; what they have done after k
\* instructions.
ScalarFact(p, k, s) ==
  /\ Data(p, s)
  /\ k = 0 => s.regs[0] = 0
  /\ \A j \in 0 .. p.n : \A r \in 0 .. 5 :
       (j = p.n => r = 0) /\ k = j * 6 + r + 1 => ScalarAt(p, j, r, s)
  /\ k > 6 * p.n + 1 => s.regs[3] = p.sums[p.n] /\ s.mem[OutAddr] = p.sums[p.n]

VectorFact(p, k, s) ==
  /\ Data(p, s)
  /\ k = 0 => s.regs[0] = 0
  /\ \A j \in 0 .. p.m : \A r \in 0 .. 7 :
       (j = p.m => r = 0) /\ k = j * 8 + r + 1 => VectorAt(p, j, r, s)
  /\ k > 8 * p.m + 1 => s.regs[3] = p.sums[p.n] /\ s.mem[OutAddr] = p.sums[p.n]

LEMMA ClearsIs ==
  ASSUME NEW p, Sound(p), NEW s, Data(p, s), s.regs[0] = 0
  PROVE  LET t == Execute(s, Ins("ADDI", 3, 0, 0, 0))
         IN  Data(p, t) /\ t.regs[3] = p.sums[0]
<1> DEFINE t == Execute(s, Ins("ADDI", 3, 0, 0, 0))
<1>1. Gets(s, t, 3, s.regs[0] + 0)
  BY ComputeIs
<1> HIDE DEF t
<1>2. t.mem = s.mem /\ t.regs[3] = 0
  BY <1>1 DEF Gets, Regs
<1>3. p.sums[0] = 0
  BY DEF Sound, Sums
<1> QED BY <1>2, <1>3 DEF Data, t

LEMMA StoresIs ==
  ASSUME NEW p, Sound(p), NEW s, Data(p, s)
  PROVE  LET t == Execute(s, StoreReg(3, OutAddr))
         IN  Data(p, t) /\ t.regs[3] = s.regs[3] /\ t.mem[OutAddr] = s.regs[3]
<1> DEFINE t == Execute(s, StoreReg(3, OutAddr))
<1>1. /\ DOMAIN t.mem = DOMAIN s.mem
      /\ \A y \in DOMAIN s.mem : t.mem[y] = IF y = OutAddr THEN s.regs[3] ELSE s.mem[y]
  BY StoreIs
<1>2. \A x \in Regs : t.regs[x] = s.regs[x]
  BY StoreIs
<1>3. /\ OutAddr \in Words(p.n)
      /\ \A x \in 0 .. p.n - 1 : /\ ABase + x # OutAddr /\ BBase + x # OutAddr
                                 /\ ABase + x \in Words(p.n) /\ BBase + x \in Words(p.n)
  BY DEF ABase, BBase, OutAddr, Sound, Words
<1> HIDE DEF t
<1>4. Data(p, t) /\ t.mem[OutAddr] = s.regs[3]
  BY <1>1, <1>3 DEF Data
<1>5. t.regs[3] = s.regs[3]
  BY <1>2 DEF Regs
<1> QED BY <1>4, <1>5 DEF t

LEMMA HaltsIs ==
  ASSUME NEW p, NEW s, Data(p, s)
  PROVE  LET t == Execute(s, Ins("HALT", 0, 0, 0, 0))
         IN  Data(p, t) /\ t.regs[3] = s.regs[3] /\ t.mem = s.mem
<1> DEFINE t == Execute(s, Ins("HALT", 0, 0, 0, 0))
<1>1. t.mem = s.mem /\ \A x \in Regs : t.regs[x] = s.regs[x]
  BY HaltIs
<1> HIDE DEF t
<1> QED BY <1>1 DEF Data, Regs, t

LEMMA ScalarGoes ==
  ASSUME NEW p, Sound(p), NEW k \in 0 .. 6 * p.n + 2, NEW s, ScalarFact(p, k, s)
  PROVE  ScalarFact(p, k + 1, Execute(s, LowerO0(p.n)[k + 1]))
<1> DEFINE n == p.n
           b == [x \in 1 .. n |-> Element(x - 1)]
           prog == LowerO0(n)
           t == Execute(s, prog[k + 1])
<1>1. n \in Nat /\ n # 0 /\ Data(p, s)
  BY DEF Sound, ScalarFact
<1>2. prog = Around(b)
  BY DEF LowerO0, Around
<1>3. /\ prog[1] = Ins("ADDI", 3, 0, 0, 0) /\ prog[6 * n + 2] = StoreReg(3, OutAddr)
      /\ prog[6 * n + 3] = Ins("HALT", 0, 0, 0, 0)
      /\ \A j \in 0 .. n - 1, r \in 1 .. 6 : prog[j * 6 + r + 1] = b[j + 1][r]
  <2>1. Blocks(Instrs, 6, n, b)
    BY <1>1, ElementsAre
  <2> HIDE DEF b, n, prog
  <2>2. Framed(6, n, b, prog)
    BY <1>1, <1>2, <2>1, AroundIs
  <2> QED BY <2>2 DEF Framed
<1> HIDE DEF prog
<1>4. CASE k = 0
  <2>1. t = Execute(s, Ins("ADDI", 3, 0, 0, 0)) /\ s.regs[0] = 0
    BY <1>3, <1>4 DEF ScalarFact
  <2> HIDE DEF t
  <2>2. Data(p, t) /\ t.regs[3] = p.sums[0]
    BY <1>1, <2>1, ClearsIs
  <2>3. ScalarAt(p, 0, 0, t)
    BY <2>2 DEF ScalarAt
  <2>4. \A j \in 0 .. n, r \in 0 .. 5 : 1 = j * 6 + r + 1 => j = 0 /\ r = 0
    BY <1>1
  <2>5. ~(1 > 6 * n + 1)
    BY <1>1
  <2>6. ScalarFact(p, 1, t)
    BY <2>2, <2>3, <2>4, <2>5 DEF ScalarFact
  <2> QED BY <1>4, <2>6 DEF t, prog
<1>5. CASE k \in 1 .. 6 * n
  <2> DEFINE i == (k - 1) \div 6
             r == (k - 1) % 6
  <2>1. i \in 0 .. n - 1 /\ r \in 0 .. 5 /\ k = i * 6 + r + 1 /\ k + 1 = i * 6 + (r + 1) + 1 /\ r + 1 \in 1 .. 6
    BY <1>1, <1>5
  <2> HIDE DEF i, r, t
  <2>2. ScalarAt(p, i, r, s)
    <3>1. i \in 0 .. p.n /\ (i = p.n => r = 0)
      BY <1>1, <2>1
    <3> QED BY <2>1, <3>1 DEF ScalarFact
  <2>3. prog[k + 1] = Element(i)[r + 1]
    <3>1. prog[k + 1] = b[i + 1][r + 1]
      BY <1>3, <2>1
    <3>2. b[i + 1] = Element(i)
      <4>1. i + 1 \in 1 .. n /\ (i + 1) - 1 = i
        BY <1>1, <2>1
      <4> QED BY <4>1
    <3> QED BY <3>1, <3>2
  <2>4. /\ Data(p, t)
        /\ IF r = 5 THEN ScalarAt(p, i + 1, 0, t) ELSE ScalarAt(p, i, r + 1, t)
    BY <1>1, <2>1, <2>2, <2>3, ElementGoes DEF t
  <2>5. ASSUME NEW j \in 0 .. n, NEW q \in 0 .. 5, k + 1 = j * 6 + q + 1
        PROVE  ScalarAt(p, j, q, t)
    <3>1. IF r = 5 THEN j = i + 1 /\ q = 0 ELSE j = i /\ q = r + 1
      BY <1>1, <2>1, <2>5
    <3> QED BY <2>4, <3>1
  <2>6. ~(k + 1 > 6 * n + 1) /\ k + 1 # 0
    BY <1>1, <1>5
  <2>7. ScalarFact(p, k + 1, t)
    BY <2>4, <2>5, <2>6 DEF ScalarFact
  <2> QED BY <2>7 DEF t, prog
<1>6. CASE k = 6 * n + 1
  <2>1. t = Execute(s, StoreReg(3, OutAddr))
    <3>1. k + 1 = 6 * n + 2
      BY <1>1, <1>6
    <3>2. prog[k + 1] = StoreReg(3, OutAddr)
      BY <1>3, <3>1
    <3> QED BY <3>2
  <2>2. ScalarAt(p, n, 0, s)
    <3>1. n \in 0 .. p.n /\ 0 \in 0 .. 5 /\ k = n * 6 + 0 + 1
      BY <1>1, <1>6
    <3> QED BY <3>1 DEF ScalarFact
  <2>3. s.regs[3] = p.sums[n]
    BY <2>2 DEF ScalarAt
  <2> HIDE DEF t
  <2>4. Data(p, t) /\ t.regs[3] = p.sums[n] /\ t.mem[OutAddr] = p.sums[n]
    BY <1>1, <2>1, <2>3, StoresIs
  <2>5. /\ \A j \in 0 .. n, r \in 0 .. 5 : (j = n => r = 0) => k + 1 # j * 6 + r + 1
        /\ k + 1 # 0
    BY <1>1, <1>6
  <2>6. ScalarFact(p, k + 1, t)
    BY <2>4, <2>5 DEF ScalarFact
  <2> QED BY <2>6 DEF t, prog
<1>7. CASE k = 6 * n + 2
  <2>1. t = Execute(s, Ins("HALT", 0, 0, 0, 0))
    <3>1. k + 1 = 6 * n + 3
      BY <1>1, <1>7
    <3>2. prog[k + 1] = Ins("HALT", 0, 0, 0, 0)
      BY <1>3, <3>1
    <3> QED BY <3>2
  <2>2. k > 6 * n + 1
    BY <1>1, <1>7
  <2>3. s.regs[3] = p.sums[n] /\ s.mem[OutAddr] = p.sums[n]
    BY <2>2 DEF ScalarFact
  <2> HIDE DEF t
  <2>4. Data(p, t) /\ t.regs[3] = p.sums[n] /\ t.mem[OutAddr] = p.sums[n]
    BY <1>1, <2>1, <2>3, HaltsIs
  <2>5. /\ \A j \in 0 .. n, r \in 0 .. 5 : (j = n => r = 0) => k + 1 # j * 6 + r + 1
        /\ k + 1 # 0
    BY <1>1, <1>7
  <2>6. ScalarFact(p, k + 1, t)
    BY <2>4, <2>5 DEF ScalarFact
  <2> QED BY <2>6 DEF t, prog
<1>8. k = 0 \/ k \in 1 .. 6 * n \/ k = 6 * n + 1 \/ k = 6 * n + 2
  BY <1>1
<1> QED BY <1>4, <1>5, <1>6, <1>7, <1>8

LEMMA VectorGoes ==
  ASSUME NEW p, Sound(p), p.m \in Nat, p.n = 2 * p.m, NEW k \in 0 .. 8 * p.m + 2, NEW s, VectorFact(p, k, s)
  PROVE  VectorFact(p, k + 1, Execute(s, LowerO3(p.n)[k + 1]))
<1> DEFINE n == p.m
           b == [x \in 1 .. n |-> Block(2 * x - 2)]
           prog == LowerO3(p.n)
           t == Execute(s, prog[k + 1])
<1>1. n \in Nat /\ n # 0 /\ Data(p, s)
  <2>1. p.n \in 1 .. 100
    BY DEF Sound
  <2>2. p.m # 0
    <3>1. ASSUME p.m = 0 PROVE FALSE
      <4>1. p.n = 0
        BY <3>1
      <4> QED BY <2>1, <4>1
    <3> QED BY <3>1
  <2> QED BY <2>2 DEF VectorFact
<1>2. prog = Around(b)
  <2>1. p.n \div 2 = n
    BY <1>1
  <2> QED BY <2>1 DEF LowerO3, Around
<1>3. /\ prog[1] = Ins("ADDI", 3, 0, 0, 0) /\ prog[8 * n + 2] = StoreReg(3, OutAddr)
      /\ prog[8 * n + 3] = Ins("HALT", 0, 0, 0, 0)
      /\ \A j \in 0 .. n - 1, r \in 1 .. 8 : prog[j * 8 + r + 1] = b[j + 1][r]
  <2>1. Blocks(Instrs, 8, n, b)
    BY <1>1, BlocksAre
  <2> HIDE DEF b, n, prog
  <2>2. Framed(8, n, b, prog)
    BY <1>1, <1>2, <2>1, AroundIs
  <2> QED BY <2>2 DEF Framed
<1> HIDE DEF prog
<1>4. CASE k = 0
  <2>1. t = Execute(s, Ins("ADDI", 3, 0, 0, 0)) /\ s.regs[0] = 0
    BY <1>3, <1>4 DEF VectorFact
  <2> HIDE DEF t
  <2>2. Data(p, t) /\ t.regs[3] = p.sums[0]
    BY <1>1, <2>1, ClearsIs
  <2>3. VectorAt(p, 0, 0, t)
    BY <2>2 DEF VectorAt
  <2>4. \A j \in 0 .. n, r \in 0 .. 7 : 1 = j * 8 + r + 1 => j = 0 /\ r = 0
    BY <1>1
  <2>5. ~(1 > 8 * n + 1)
    BY <1>1
  <2>6. VectorFact(p, 1, t)
    BY <2>2, <2>3, <2>4, <2>5 DEF VectorFact
  <2> QED BY <1>4, <2>6 DEF t, prog
<1>5. CASE k \in 1 .. 8 * n
  <2> DEFINE i == (k - 1) \div 8
             r == (k - 1) % 8
  <2>1. i \in 0 .. n - 1 /\ r \in 0 .. 7 /\ k = i * 8 + r + 1 /\ k + 1 = i * 8 + (r + 1) + 1 /\ r + 1 \in 1 .. 8
    BY <1>1, <1>5
  <2> HIDE DEF i, r, t
  <2>2. VectorAt(p, i, r, s)
    <3>1. i \in 0 .. p.m /\ (i = p.m => r = 0)
      BY <1>1, <2>1
    <3> QED BY <2>1, <3>1 DEF VectorFact
  <2>3. prog[k + 1] = Block(2 * i)[r + 1]
    <3>1. prog[k + 1] = b[i + 1][r + 1]
      BY <1>3, <2>1
    <3>2. b[i + 1] = Block(2 * i)
      <4>1. i + 1 \in 1 .. n /\ 2 * (i + 1) - 2 = 2 * i
        BY <1>1, <2>1
      <4> QED BY <4>1
    <3> QED BY <3>1, <3>2
  <2>4. /\ Data(p, t)
        /\ IF r = 7 THEN VectorAt(p, i + 1, 0, t) ELSE VectorAt(p, i, r + 1, t)
    BY <1>1, <2>1, <2>2, <2>3, BlockGoes DEF t
  <2>5. ASSUME NEW j \in 0 .. n, NEW q \in 0 .. 7, k + 1 = j * 8 + q + 1
        PROVE  VectorAt(p, j, q, t)
    <3>1. IF r = 7 THEN j = i + 1 /\ q = 0 ELSE j = i /\ q = r + 1
      BY <1>1, <2>1, <2>5
    <3> QED BY <2>4, <3>1
  <2>6. ~(k + 1 > 8 * n + 1) /\ k + 1 # 0
    BY <1>1, <1>5
  <2>7. VectorFact(p, k + 1, t)
    BY <2>4, <2>5, <2>6 DEF VectorFact
  <2> QED BY <2>7 DEF t, prog
<1>6. CASE k = 8 * n + 1
  <2>1. t = Execute(s, StoreReg(3, OutAddr))
    <3>1. k + 1 = 8 * n + 2
      BY <1>1, <1>6
    <3>2. prog[k + 1] = StoreReg(3, OutAddr)
      BY <1>3, <3>1
    <3> QED BY <3>2
  <2>2. VectorAt(p, n, 0, s)
    <3>1. n \in 0 .. p.m /\ 0 \in 0 .. 7 /\ k = n * 8 + 0 + 1
      BY <1>1, <1>6
    <3> QED BY <3>1 DEF VectorFact
  <2>3. s.regs[3] = p.sums[p.n]
    BY <2>2 DEF VectorAt
  <2> HIDE DEF t
  <2>4. Data(p, t) /\ t.regs[3] = p.sums[p.n] /\ t.mem[OutAddr] = p.sums[p.n]
    BY <1>1, <2>1, <2>3, StoresIs
  <2>5. /\ \A j \in 0 .. n, r \in 0 .. 7 : (j = n => r = 0) => k + 1 # j * 8 + r + 1
        /\ k + 1 # 0
    BY <1>1, <1>6
  <2>6. VectorFact(p, k + 1, t)
    BY <2>4, <2>5 DEF VectorFact
  <2> QED BY <2>6 DEF t, prog
<1>7. CASE k = 8 * n + 2
  <2>1. t = Execute(s, Ins("HALT", 0, 0, 0, 0))
    <3>1. k + 1 = 8 * n + 3
      BY <1>1, <1>7
    <3>2. prog[k + 1] = Ins("HALT", 0, 0, 0, 0)
      BY <1>3, <3>1
    <3> QED BY <3>2
  <2>2. k > 8 * n + 1
    BY <1>1, <1>7
  <2>3. s.regs[3] = p.sums[p.n] /\ s.mem[OutAddr] = p.sums[p.n]
    BY <2>2 DEF VectorFact
  <2> HIDE DEF t
  <2>4. Data(p, t) /\ t.regs[3] = p.sums[p.n] /\ t.mem[OutAddr] = p.sums[p.n]
    BY <1>1, <2>1, <2>3, HaltsIs
  <2>5. /\ \A j \in 0 .. n, r \in 0 .. 7 : (j = n => r = 0) => k + 1 # j * 8 + r + 1
        /\ k + 1 # 0
    BY <1>1, <1>7
  <2>6. VectorFact(p, k + 1, t)
    BY <2>4, <2>5 DEF VectorFact
  <2> QED BY <2>6 DEF t, prog
<1>8. k = 0 \/ k \in 1 .. 8 * n \/ k = 8 * n + 1 \/ k = 8 * n + 2
  BY <1>1
<1> QED BY <1>4, <1>5, <1>6, <1>7, <1>8

Executing == INSTANCE Folding WITH Next <- Execute, Fact <- ScalarFact
Blocking == INSTANCE Folding WITH Next <- Execute, Fact <- VectorFact

LEMMA ExecuteFold ==
  ASSUME NEW b, NEW s
  PROVE  FoldLeft(Execute, b, s) = Executing!Folded(b, s)
  BY Zenon DEF FoldLeft, Executing!Folded, MapThenFoldSet, Executing!MapThenFoldSet, Max, Executing!Max

LEMMA BlockFold ==
  ASSUME NEW b, NEW s
  PROVE  FoldLeft(Execute, b, s) = Blocking!Folded(b, s)
  BY Zenon DEF FoldLeft, Blocking!Folded, MapThenFoldSet, Blocking!MapThenFoldSet, Max, Blocking!Max

Started(v, n) == [regs |-> [r \in 0 .. 11 |-> 0], mem |-> Memory(v, n)]

LEMMA StartIs ==
  ASSUME NEW p, Sound(p), NEW n, n = p.n, NEW v, v = p.v
  PROVE  Data(p, Started(v, n)) /\ Started(v, n).regs[0] = 0
<1> DEFINE mem == Memory(v, n)
<1>1. n \in 1 .. 100
  BY DEF Sound
<1>2. DOMAIN mem = Words(n)
  BY DEF Memory, Words
<1>3. ASSUME NEW x \in 0 .. n - 1 PROVE mem[ABase + x] = v.a[x] /\ mem[BBase + x] = v.b[x]
  <2>1. ABase + x \in Words(n) /\ BBase + x \in Words(n)
    BY DEF Words
  <2>2. /\ (ABase + x) - ABase = x /\ (BBase + x) - BBase = x
        /\ (BBase + x) - ABase \notin 0 .. n - 1
    BY <1>1 DEF ABase, BBase
  <2>3. mem[ABase + x] = v.a[x]
    BY <2>1, <2>2 DEF Memory, Words
  <2>4. mem[BBase + x] = v.b[x]
    BY <2>1, <2>2 DEF Memory, Words
  <2> QED BY <2>3, <2>4
<1> HIDE DEF mem
<1>4. Started(v, n).mem = mem
  BY DEF Started, mem
<1>5. Started(v, n).regs[0] = 0
  BY DEF Started
<1> QED BY <1>2, <1>3, <1>4, <1>5 DEF Data

\* Both programs leave the dot product in the accumulator and in memory.
LEMMA ScalarIs ==
  ASSUME NEW n \in 1 .. 100, NEW v \in Vectors(n)
  PROVE  Result("O0", n, v).acc = Expected(v, n) /\ Result("O0", n, v).out = Expected(v, n)
<1>1. n \in Nat /\ n # 0
  OBVIOUS
<1>2. PICK P : Sums(v, n, P) /\ Expected(v, n) = P[n]
  BY <1>1, ExpectedIs
<1> DEFINE p == [n |-> n, v |-> v, sums |-> P]
           prog == LowerO0(n)
           b == Started(v, n)
           s == FoldLeft(Execute, b, prog)
<1>3. p.n = n /\ p.v = v /\ p.sums = P
  OBVIOUS
<1> HIDE DEF p
<1>4. Sound(p)
  BY <1>2, <1>3 DEF Sound
<1>5. prog \in Seq(Instrs) /\ Len(prog) = 6 * n + 3
  <2> DEFINE c == [x \in 1 .. n |-> Element(x - 1)]
  <2>1. Blocks(Instrs, 6, n, c)
    BY <1>1, ElementsAre
  <2>2. prog = Around(c)
    BY DEF LowerO0, Around
  <2> HIDE DEF c, prog
  <2>3. prog \in Seq(Instrs) /\ Framed(6, n, c, prog)
    BY <1>1, <2>1, <2>2, AroundIs
  <2> QED BY <2>3 DEF Framed
<1>6. ScalarFact(p, 0, b)
  <2>1. Data(p, b) /\ b.regs[0] = 0
    BY <1>3, <1>4, StartIs
  <2>2. /\ \A j \in 0 .. p.n : \A r \in 0 .. 5 : 0 # j * 6 + r + 1
        /\ ~(0 > 6 * p.n + 1)
    BY <1>1, <1>3
  <2> HIDE DEF b
  <2> QED BY <2>1, <2>2 DEF ScalarFact
<1> HIDE DEF prog, b
<1>7. \A k \in 0 .. Len(prog) - 1 : \A w :
        ScalarFact(p, k, w) => ScalarFact(p, k + 1, Execute(w, prog[k + 1]))
  <2> SUFFICES ASSUME NEW k \in 0 .. Len(prog) - 1, NEW w, ScalarFact(p, k, w)
               PROVE  ScalarFact(p, k + 1, Execute(w, prog[k + 1]))
    OBVIOUS
  <2>1. k \in 0 .. 6 * p.n + 2
    BY <1>1, <1>3, <1>5
  <2> QED BY <1>3, <1>4, <2>1, ScalarGoes DEF prog
<1>8. ScalarFact(p, Len(prog), Executing!Folded(b, prog))
  BY <1>5, <1>6, <1>7, Executing!FoldLeftKeeps
<1>9. ScalarFact(p, 6 * n + 3, s)
  BY <1>5, <1>8, ExecuteFold
<1>10. s = Executed(Lower("O0", n), Memory(v, n))
  BY DEF Executed, Lower, Started, b, prog
<1> HIDE DEF s
<1>11. s.regs[3] = P[n] /\ s.mem[OutAddr] = P[n]
  <2>1. 6 * n + 3 > 6 * p.n + 1
    BY <1>1, <1>3
  <2> QED BY <1>3, <1>9, <2>1 DEF ScalarFact
<1> QED BY <1>2, <1>10, <1>11 DEF Result

LEMMA VectorIs ==
  ASSUME NEW n \in 1 .. 100, n % 2 = 0, NEW v \in Vectors(n)
  PROVE  Result("O3", n, v).acc = Expected(v, n) /\ Result("O3", n, v).out = Expected(v, n)
<1>1. n \in Nat /\ n # 0 /\ n \div 2 \in Nat /\ n = 2 * (n \div 2) /\ n \div 2 # 0
  OBVIOUS
<1>2. PICK P : Sums(v, n, P) /\ Expected(v, n) = P[n]
  BY <1>1, ExpectedIs
<1> DEFINE m == n \div 2
           p == [n |-> n, v |-> v, sums |-> P, m |-> m]
           prog == LowerO3(n)
           b == Started(v, n)
           s == FoldLeft(Execute, b, prog)
<1>3. p.n = n /\ p.v = v /\ p.sums = P /\ p.m = m
  OBVIOUS
<1> HIDE DEF p
<1>4. Sound(p)
  BY <1>2, <1>3 DEF Sound
<1>5. prog \in Seq(Instrs) /\ Len(prog) = 8 * m + 3
  <2> DEFINE c == [x \in 1 .. m |-> Block(2 * x - 2)]
  <2>1. Blocks(Instrs, 8, m, c)
    BY <1>1, BlocksAre
  <2>2. prog = Around(c)
    BY DEF LowerO3, Around
  <2>3. m \in Nat /\ m # 0
    BY <1>1
  <2> HIDE DEF c, prog, m
  <2>4. prog \in Seq(Instrs) /\ Framed(8, m, c, prog)
    BY <2>1, <2>2, <2>3, AroundIs
  <2> QED BY <2>4 DEF Framed
<1>6. m \in Nat /\ n = 2 * m
  BY <1>1
<1> HIDE DEF m
<1>7. VectorFact(p, 0, b)
  <2>1. Data(p, b) /\ b.regs[0] = 0
    BY <1>3, <1>4, StartIs
  <2>2. /\ \A j \in 0 .. p.m : \A r \in 0 .. 7 : 0 # j * 8 + r + 1
        /\ ~(0 > 8 * p.m + 1)
    BY <1>3, <1>6
  <2> HIDE DEF b
  <2> QED BY <2>1, <2>2 DEF VectorFact
<1> HIDE DEF prog, b
<1>8. \A k \in 0 .. Len(prog) - 1 : \A w :
        VectorFact(p, k, w) => VectorFact(p, k + 1, Execute(w, prog[k + 1]))
  <2> SUFFICES ASSUME NEW k \in 0 .. Len(prog) - 1, NEW w, VectorFact(p, k, w)
               PROVE  VectorFact(p, k + 1, Execute(w, prog[k + 1]))
    OBVIOUS
  <2>1. k \in 0 .. 8 * p.m + 2
    BY <1>3, <1>5, <1>6
  <2> QED BY <1>3, <1>4, <1>6, <2>1, VectorGoes DEF prog
<1>9. VectorFact(p, Len(prog), Blocking!Folded(b, prog))
  BY <1>5, <1>7, <1>8, Blocking!FoldLeftKeeps
<1>10. VectorFact(p, 8 * m + 3, s)
  BY <1>5, <1>9, BlockFold
<1>11. s = Executed(Lower("O3", n), Memory(v, n))
  BY DEF Executed, Lower, Started, b, prog
<1> HIDE DEF s
<1>12. s.regs[3] = P[n] /\ s.mem[OutAddr] = P[n]
  <2>1. 8 * m + 3 > 8 * p.m + 1
    BY <1>3, <1>6
  <2> QED BY <1>3, <1>10, <2>1 DEF VectorFact
<1> QED BY <1>2, <1>11, <1>12 DEF Result

\* The second program touches memory less often: its accesses are mapped, one to
\* one, to accesses of the first, and the last element's first load is left over.
Accesses(prog) == {k \in 1 .. Len(prog) : ISA!IsMem(prog[k])}

LEMMA ScalarTouches ==
  ASSUME NEW n \in Nat, n # 0
  PROVE  /\ Accesses(LowerO0(n)) \in SUBSET (1 .. 6 * n + 3)
         /\ 6 * n + 2 \in Accesses(LowerO0(n))
         /\ \A j \in 0 .. n - 1 : \A r \in {1, 2, 5, 6} : j * 6 + r + 1 \in Accesses(LowerO0(n))
<1> DEFINE b == [x \in 1 .. n |-> Element(x - 1)]
           prog == LowerO0(n)
<1>1. prog = Around(b)
  BY DEF LowerO0, Around
<1>2. Blocks(Instrs, 6, n, b)
  BY ElementsAre
<1> HIDE DEF prog
<1>3. /\ Len(prog) = 6 * n + 3 /\ prog[6 * n + 2] = StoreReg(3, OutAddr)
      /\ \A j \in 0 .. n - 1, r \in 1 .. 6 : prog[j * 6 + r + 1] = b[j + 1][r]
  <2> HIDE DEF b
  <2>1. Framed(6, n, b, prog)
    BY <1>1, <1>2, AroundIs
  <2> QED BY <2>1 DEF Framed
<1>4. ASSUME NEW j \in 0 .. n - 1, NEW r \in {1, 2, 5, 6}
      PROVE  j * 6 + r + 1 \in 1 .. Len(prog) /\ ISA!IsMem(prog[j * 6 + r + 1])
  <2>1. j * 6 + r + 1 \in 1 .. Len(prog)
    BY <1>3
  <2>2. prog[j * 6 + r + 1] = Element(j)[r]
    <3>1. j + 1 \in 1 .. n /\ (j + 1) - 1 = j /\ r \in 1 .. 6
      OBVIOUS
    <3>2. b[j + 1] = Element(j)
      BY <3>1
    <3> HIDE DEF b
    <3> QED BY <1>3, <3>1, <3>2
  <2>3. Element(j)[r].op \in {"LOAD", "STORE"}
    BY DEF Element, LoadReg, StoreReg, Ins
  <2> QED BY <2>1, <2>2, <2>3 DEF ISA!IsMem, ISA!MemOps
<1>5. ISA!IsMem(prog[6 * n + 2])
  BY <1>3 DEF StoreReg, Ins, ISA!IsMem, ISA!MemOps
<1>6. 6 * n + 2 \in 1 .. Len(prog)
  BY <1>3
<1> QED BY <1>3, <1>4, <1>5, <1>6 DEF Accesses, prog

LEMMA VectorTouches ==
  ASSUME NEW n \in Nat, NEW m \in Nat, m # 0, n = 2 * m, NEW k \in Accesses(LowerO3(n))
  PROVE  \/ k = 8 * m + 2
         \/ \E j \in 0 .. m - 1 : \E r \in {1, 2, 4, 5} : k = j * 8 + r + 1
<1> DEFINE b == [x \in 1 .. m |-> Block(2 * x - 2)]
           prog == LowerO3(n)
<1>1. prog = Around(b)
  <2>1. n \div 2 = m
    OBVIOUS
  <2> QED BY <2>1 DEF LowerO3, Around
<1>2. Blocks(Instrs, 8, m, b)
  BY BlocksAre
<1>3. k \in 1 .. Len(prog) /\ prog[k].op \in {"LOAD", "STORE"}
  BY DEF Accesses, ISA!IsMem, ISA!MemOps
<1> HIDE DEF prog
<1>4. /\ Len(prog) = 8 * m + 3 /\ prog[1] = Ins("ADDI", 3, 0, 0, 0)
      /\ prog[8 * m + 3] = Ins("HALT", 0, 0, 0, 0)
      /\ \A j \in 0 .. m - 1, r \in 1 .. 8 : prog[j * 8 + r + 1] = b[j + 1][r]
  <2> HIDE DEF b
  <2>1. Framed(8, m, b, prog)
    BY <1>1, <1>2, AroundIs
  <2> QED BY <2>1 DEF Framed
<1>5. k # 1 /\ k # 8 * m + 3
  BY <1>3, <1>4 DEF Ins
<1>6. CASE k = 8 * m + 2
  BY <1>6
<1>7. CASE k # 8 * m + 2
  <2> DEFINE j == (k - 2) \div 8
             r == ((k - 2) % 8) + 1
  <2>1. j \in 0 .. m - 1 /\ r \in 1 .. 8 /\ k = j * 8 + r + 1
    <3>1. k - 2 \in 0 .. 8 * m - 1
      BY <1>3, <1>4, <1>5, <1>7
    <3> DEFINE d == k - 2
    <3>2. k = d + 2 /\ j = d \div 8 /\ r = (d % 8) + 1
      BY <1>3
    <3> HIDE DEF d, j, r
    <3>3. d \in Int /\ d >= 0 /\ d <= 8 * m - 1
      BY <3>1 DEF d
    <3> QED BY <3>2, <3>3
  <2> HIDE DEF j, r
  <2>2. prog[k] = Block(2 * j)[r]
    <3>1. j + 1 \in 1 .. m /\ 2 * (j + 1) - 2 = 2 * j
      BY <2>1
    <3>2. b[j + 1] = Block(2 * j)
      BY <3>1
    <3> HIDE DEF b
    <3> QED BY <1>4, <2>1, <3>2
  <2>3. r \in {3, 6, 7, 8} => Block(2 * j)[r].op \notin {"LOAD", "STORE"}
    BY DEF Block, LoadReg, Ins
  <2>4. r \in {1, 2, 4, 5}
    BY <1>3, <2>1, <2>2, <2>3
  <2> QED BY <2>1, <2>4
<1> QED BY <1>6, <1>7

\* The access of the first program that an access of the second one stands for.
Place(x, m, n) ==
  IF x = 8 * m + 2 THEN 6 * n + 2
  ELSE IF ((x - 2) % 8) <= 1 THEN ((x - 2) \div 8) * 6 + ((x - 2) % 8) + 2
  ELSE ((x - 2) \div 8) * 6 + ((x - 2) % 8) + 3

LEMMA PlaceIs ==
  ASSUME NEW m \in Nat, NEW n \in Nat, NEW j \in 0 .. m - 1, NEW r \in {1, 2, 4, 5}
  PROVE  /\ j * 8 + r + 1 # 8 * m + 2
         /\ Place(j * 8 + r + 1, m, n) = IF r <= 2 THEN j * 6 + r + 1 ELSE j * 6 + r + 2
<1> DEFINE x == j * 8 + r + 1
           d == (x - 2) \div 8
           e == (x - 2) % 8
<1>1. x # 8 * m + 2
  OBVIOUS
<1>2. d = j /\ e = r - 1
  OBVIOUS
<1> HIDE DEF x
<1>3. Place(x, m, n) = IF e <= 1 THEN d * 6 + e + 2 ELSE d * 6 + e + 3
  BY <1>1, Zenon DEF Place
<1> HIDE DEF d, e
<1>4. Place(x, m, n) = IF r <= 2 THEN j * 6 + r + 1 ELSE j * 6 + r + 2
  BY <1>2, <1>3
<1> QED BY <1>1, <1>4 DEF x

LEMMA FewerAccesses ==
  ASSUME NEW n \in 1 .. 100, n % 2 = 0
  PROVE  ~(MemOps("O3", n) >= MemOps("O0", n))
<1> DEFINE m == n \div 2
           few == Accesses(LowerO3(n))
           many == Accesses(LowerO0(n))
           left == (n - 1) * 6 + 2
           f == [k \in few |-> Place(k, m, n)]
<1>1. n \in Nat /\ n # 0 /\ m \in Nat /\ m # 0 /\ n = 2 * m
  OBVIOUS
<1>2. /\ many \in SUBSET (1 .. 6 * n + 3) /\ 6 * n + 2 \in many
      /\ \A j \in 0 .. n - 1 : \A r \in {1, 2, 5, 6} : j * 6 + r + 1 \in many
  BY <1>1, ScalarTouches
<1>3. \A k \in few : \/ k = 8 * m + 2
                     \/ \E j \in 0 .. m - 1 : \E r \in {1, 2, 4, 5} : k = j * 8 + r + 1
  BY <1>1, VectorTouches
<1> HIDE DEF few, many, m
<1>4. left \in many
  <2>1. n - 1 \in 0 .. n - 1 /\ 1 \in {1, 2, 5, 6} /\ left = (n - 1) * 6 + 1 + 1
    BY <1>1
  <2> QED BY <1>2, <2>1
<1>5. ASSUME NEW j \in 0 .. m - 1, NEW r \in {1, 2, 4, 5}, NEW k \in few, k = j * 8 + r + 1
      PROVE  /\ k # 8 * m + 2
             /\ f[k] = IF r <= 2 THEN j * 6 + r + 1 ELSE j * 6 + r + 2
  <2>1. f[k] = Place(k, m, n)
    OBVIOUS
  <2> HIDE DEF f
  <2> QED BY <1>1, <1>5, <2>1, PlaceIs
<1>6. ASSUME NEW k \in few PROVE f[k] \in many \ {left}
  <2>1. CASE k = 8 * m + 2
    <3>1. 6 * n + 2 # left
      BY <1>1
    <3>2. f[k] = 6 * n + 2
      BY <2>1 DEF Place
    <3> QED BY <1>2, <3>1, <3>2
  <2>2. CASE k # 8 * m + 2
    <3>1. PICK j \in 0 .. m - 1, r \in {1, 2, 4, 5} : k = j * 8 + r + 1
      BY <1>3, <2>2
    <3>2. f[k] = IF r <= 2 THEN j * 6 + r + 1 ELSE j * 6 + (r + 1) + 1
      <4>1. f[k] = IF r <= 2 THEN j * 6 + r + 1 ELSE j * 6 + r + 2
        BY <1>5, <3>1
      <4> HIDE DEF f
      <4> QED BY <1>1, <4>1
    <3> HIDE DEF f
    <3>3. j \in 0 .. n - 1 /\ (r <= 2 => r \in {1, 2, 5, 6}) /\ (~(r <= 2) => r + 1 \in {1, 2, 5, 6})
      BY <1>1
    <3>4. f[k] \in many
      BY <1>2, <3>2, <3>3
    <3>5. f[k] # left
      BY <1>1, <3>2
    <3> QED BY <3>4, <3>5
  <2> QED BY <2>1, <2>2
<1>7. ASSUME NEW k \in few, NEW l \in few, f[k] = f[l] PROVE k = l
  <2>1. ASSUME NEW x \in few, x # 8 * m + 2
        PROVE  \E j \in 0 .. m - 1 : \E r \in {1, 2, 4, 5} :
                 x = j * 8 + r + 1 /\ f[x] = IF r <= 2 THEN j * 6 + r + 1 ELSE j * 6 + r + 2
    <3>1. PICK j \in 0 .. m - 1, r \in {1, 2, 4, 5} : x = j * 8 + r + 1
      BY <1>3, <2>1
    <3>2. f[x] = IF r <= 2 THEN j * 6 + r + 1 ELSE j * 6 + r + 2
      BY <1>5, <3>1
    <3> HIDE DEF f
    <3> QED BY <3>1, <3>2
  <2>2. \A x \in few : x = 8 * m + 2 => f[x] = 6 * n + 2
    BY DEF Place
  <2> HIDE DEF f
  <2>3. CASE k = 8 * m + 2 /\ l = 8 * m + 2
    BY <2>3
  <2>4. CASE k # 8 * m + 2 /\ l # 8 * m + 2
    <3>1. PICK i \in 0 .. m - 1, q \in {1, 2, 4, 5} :
            k = i * 8 + q + 1 /\ f[k] = IF q <= 2 THEN i * 6 + q + 1 ELSE i * 6 + q + 2
      BY <2>1, <2>4
    <3>2. PICK j \in 0 .. m - 1, r \in {1, 2, 4, 5} :
            l = j * 8 + r + 1 /\ f[l] = IF r <= 2 THEN j * 6 + r + 1 ELSE j * 6 + r + 2
      BY <2>1, <2>4
    <3>3. i = j /\ q = r
      BY <1>1, <1>7, <3>1, <3>2
    <3> QED BY <3>1, <3>2, <3>3
  <2>5. ASSUME NEW x \in few, x # 8 * m + 2 PROVE f[x] # 6 * n + 2
    <3>1. PICK j \in 0 .. m - 1, r \in {1, 2, 4, 5} :
            f[x] = IF r <= 2 THEN j * 6 + r + 1 ELSE j * 6 + r + 2
      BY <2>1, <2>5
    <3> QED BY <1>1, <3>1
  <2> QED BY <1>7, <2>2, <2>3, <2>4, <2>5
<1>8. IsFiniteSet(many) /\ Cardinality(many) \in Nat
  <2>1. IsFiniteSet(1 .. 6 * n + 3)
    BY <1>1, FS_Interval
  <2>2. IsFiniteSet(many)
    BY <1>2, <2>1, FS_Subset
  <2> QED BY <2>2, FS_CardinalityType
<1>9. IsFiniteSet(many \ {left}) /\ Cardinality(many \ {left}) = Cardinality(many) - 1
  BY <1>4, <1>8, FS_RemoveElement
<1>10. f \in Injection(few, many \ {left})
  <2>1. f \in [few -> many \ {left}]
    BY <1>6
  <2> HIDE DEF f
  <2> QED BY <1>7, <2>1 DEF Injection, IsInjective
<1>11. IsFiniteSet(few) /\ Cardinality(few) <= Cardinality(many \ {left})
  BY <1>9, <1>10, FS_Injection
<1>12. Cardinality(few) \in Nat
  BY <1>11, FS_CardinalityType
<1>13. MemOps("O3", n) = Cardinality(few) /\ MemOps("O0", n) = Cardinality(many)
  BY DEF MemOps, Lower, Accesses, few, many
<1> QED BY <1>8, <1>9, <1>11, <1>12, <1>13

-----------------------------------------------------------------------------
(* A slice in which nothing goes wrong.                                    *)

\* The vectors of a slice do not overlap: lowering.py puts them at 100 and at 200.
SmallSlices == \A i \in Inputs : i.slice.ns \in SUBSET (1 .. 100)

\* Where a slice stands once both programs were built.
Lowered == {"views", "in order", "out of order", "rerun", "loads", "score", "charge"}

\* The sizes are even, and a problem without a fault there is none.
CleanInv ==
  /\ step \in Lowered => \A n \in S.ns : n % 2 = 0
  /\ step \in Lowered /\ slice.faults = {} => slice.problems = {}
  /\ CleanSlicePasses

\* A step that leaves the slice and the report alone.
StandsBy == UNCHANGED <<slice, report>> /\ (step' \in Lowered => step' = step /\ input' = input)

\* A step of a leg: it puts down no problem unless it puts down a fault.
LegStep ==
  /\ step \in Lowered /\ UNCHANGED <<report, input>>
  /\ slice.faults \subseteq slice'.faults
  /\ slice'.faults = {} => slice'.problems = slice.problems

LEMMA LeavesKeep == ASSUME CleanInv, StandsBy PROVE CleanInv'
  BY DEF CleanInv, StandsBy, CleanSlicePasses, S

LEMMA LegKeeps == ASSUME CleanInv, LegStep PROVE CleanInv'
<1>1. (\A n \in S.ns : n % 2 = 0)'
  BY DEF CleanInv, LegStep, S
<1>2. slice'.faults = {} => slice'.problems = {}
  BY DEF CleanInv, LegStep
<1>3. CleanSlicePasses'
  BY DEF CleanInv, LegStep, CleanSlicePasses
<1> QED BY <1>1, <1>2, <1>3 DEF CleanInv

\* The two programs are built for every size, and the optimised one touches memory
\* less often.
LEMMA LowerClean ==
  ASSUME SmallSlices, ComputerInv, GradeInv, CleanInv, LowerAll PROVE CleanInv'
<1>1. /\ step = "lower" /\ input \in Inputs /\ UNCHANGED <<report, input>>
  BY DEF LowerAll, SliceSame, callVars, ComputerInv, ControlInv
<1>2. S.ns \in SUBSET (1 .. 100)
  BY <1>1 DEF SmallSlices, S
<1>3. CleanSlicePasses'
  BY <1>1 DEF CleanInv, CleanSlicePasses
<1>4. CASE \E n \in S.ns : n % 2 = 1
  <2>1. step' \in {"over", "off"}
    BY <1>4 DEF LowerAll, Raise
  <2> QED BY <1>3, <2>1 DEF CleanInv, Lowered
<1>5. CASE ~(\E n \in S.ns : n % 2 = 1)
  <2>1. \A n \in S.ns : n \in 1 .. 100 /\ n % 2 = 0
    BY <1>2, <1>5
  <2>2. \A n \in S.ns : ~(MemOps("O3", n) >= MemOps("O0", n))
    BY <2>1, FewerAccesses
  <2>3. slice' = [slice EXCEPT !.problems = {}]
    BY <1>5, <2>2, Zenon DEF LowerAll
  <2>4. slice'.problems = {}
    BY <2>3 DEF GradeInv, SliceInv, NoSlice
  <2>5. (\A n \in S.ns : n % 2 = 0)'
    BY <1>1, <2>1 DEF S
  <2> QED BY <1>3, <2>4, <2>5 DEF CleanInv
<1> QED BY <1>4, <1>5

\* What a draw holds for a size is a pair of vectors of that size.
LEMMA PrefixIs ==
  ASSUME SmallSlices, ComputerInv, step \in Lowered, NEW draw \in Draws,
         NEW s \in S.seeds, NEW m \in S.ns
  PROVE  Prefix(draw[s], m) \in Vectors(m) /\ m \in 1 .. 100 /\ m \in Sizes
<1>1. input \in Inputs
  BY DEF Lowered, ComputerInv, ControlInv
<1>2. S.ns \in SUBSET (1 .. 100)
  BY <1>1 DEF SmallSlices, S
<1>3. m \in Sizes
  BY <1>1 DEF Sizes, S
<1> DEFINE top == CHOOSE n \in S.ns : \A k \in S.ns : k <= n
<1>4. top \in S.ns /\ \A k \in S.ns : k <= top
  <2> DEFINE spare == {100 - n : n \in S.ns}
  <2>1. spare \in SUBSET Nat /\ spare # {}
    BY <1>2
  <2>2. PICK x \in spare : \A y \in spare : x <= y
    BY <2>1, LeastNatural
  <2>3. PICK n \in S.ns : x = 100 - n
    BY <2>2
  <2>4. ASSUME NEW k \in S.ns PROVE k <= n
    <3>1. x <= 100 - k
      BY <2>2
    <3>2. n \in 1 .. 100 /\ k \in 1 .. 100
      BY <1>2
    <3> QED BY <2>3, <3>1, <3>2
  <2>5. \E y \in S.ns : \A k \in S.ns : k <= y
    BY <2>3, <2>4
  <2> QED BY <2>5, Zenon
<1>5. draw[s] \in Vectors(top)
  BY DEF Draws
<1> HIDE DEF top
<1>6. m \in 1 .. 100 /\ top \in 1 .. 100 /\ m <= top
  BY <1>2, <1>4
<1>7. \A i \in 0 .. m - 1 : i \in 0 .. top - 1
  BY <1>6
<1>8. draw[s].a \in [0 .. top - 1 -> Operands] /\ draw[s].b \in [0 .. top - 1 -> Operands]
  BY <1>5 DEF Vectors
<1>9. Prefix(draw[s], m) \in Vectors(m)
  BY <1>7, <1>8 DEF Prefix, Vectors
<1> QED BY <1>3, <1>6, <1>9

\* Both programs leave the dot product of any vectors.
LEMMA AllRight ==
  ASSUME SmallSlices, ComputerInv, CleanInv, step \in Lowered, NEW draw \in Draws,
         NEW s \in S.seeds, NEW m \in S.ns
  PROVE  Prefix(draw[s], m) \in Right[m]
<1> DEFINE v == Prefix(draw[s], m)
<1>1. v \in Vectors(m) /\ m \in 1 .. 100 /\ m \in Sizes /\ m % 2 = 0
  BY PrefixIs DEF CleanInv
<1> HIDE DEF v
<1>2. Result("O0", m, v).acc = Expected(v, m) /\ Result("O0", m, v).out = Expected(v, m)
  BY <1>1, ScalarIs
<1>3. Result("O3", m, v).acc = Expected(v, m) /\ Result("O3", m, v).out = Expected(v, m)
  BY <1>1, VectorIs
<1>4. \A p \in Presets : LET r == Result(p, m, v) IN r.acc = Expected(v, m) /\ r.out = Expected(v, m)
  BY <1>2, <1>3 DEF Presets
<1>5. Right[m] = {w \in Vectors(m) : \A p \in Presets :
                    LET r == Result(p, m, w) IN r.acc = Expected(w, m) /\ r.out = Expected(w, m)}
  BY <1>1, Zenon DEF Right
<1> QED BY <1>1, <1>4, <1>5, Zenon DEF v

LEMMA GatherClean ==
  ASSUME GradeInv, step \in Lowered, NEW u, NEW n, NEW problems, NEW faults,
         Gather(u, n, problems, faults), SliceSame, faults = {} => problems = {}
  PROVE  LegStep
<1>1. DOMAIN slice = DOMAIN NoSlice
  BY DEF GradeInv, SliceInv
<1>2. slice'.problems = slice.problems \cup problems /\ slice'.faults = slice.faults \cup faults
  BY <1>1 DEF Gather, NoSlice
<1>3. slice'.faults = {} => faults = {}
  BY <1>2
<1> QED BY <1>2, <1>3 DEF LegStep, SliceSame, callVars

LEMMA CpuLegClean ==
  ASSUME SmallSlices, ComputerInv, GradeInv, CleanInv, step \in Lowered, NEW leg, NEW u, NEW n,
         NEW draw \in Draws, NEW bad, CpuLeg(leg, u, n, draw, bad), SliceSame
  PROVE  LegStep
<1> DEFINE wrong == \/ Equivalence \in bad
                    \/ \E s \in S.seeds, m \in S.ns : Prefix(draw[s], m) \notin Right[m]
           problems == {Problem(leg, k) : k \in (bad \ {Equivalence}) \cup (IF wrong THEN {Equivalence} ELSE {})}
           faults == {Problem(leg, k) : k \in bad}
<1>1. Gather(u, n, problems, faults)
  BY DEF CpuLeg
<1>2. wrong => Equivalence \in bad
  BY AllRight
<1> HIDE DEF wrong
<1>3. faults = {} => problems = {}
  BY <1>2
<1> HIDE DEF problems, faults
<1> QED BY <1>1, <1>3, GatherClean

\* A step of the simulator stays in the range of its latencies and never takes a
\* switch back.
LEMMA LoadsAre ==
  ASSUME NEW lat \in Int, NEW rate \in 0 .. 1
  PROVE  KernelInvariant(Booted, SimStep(Booted, lat, rate))
<1>1. Booted.sw \in Int
  BY DEF Booted, Kir
<1>2. /\ SimStep(Booted, lat, rate).lat = Clamp(MinLat, lat, MaxLat)
      /\ SimStep(Booted, lat, rate).sw = Booted.sw + rate
  BY DEF SimStep, Kir
<1>3. Clamp(MinLat, lat, MaxLat) \in MinLat .. MaxLat
  BY DEF Clamp, MinLat, MaxLat
<1> QED BY <1>1, <1>2, <1>3 DEF KernelInvariant

\* A report is what the slice had put down.
LEMMA ChargeClean == ASSUME GradeInv, CleanInv, Charge PROVE CleanInv'
<1>1. /\ step = "charge" /\ UNCHANGED input
      /\ slice' \in {slice, [slice EXCEPT !.charged = @ + 1]}
      /\ report' = report \/ (report'.gates = Gates /\ report'.faults = slice.faults)
  BY DEF Charge, callVars
<1>2. slice'.faults = slice.faults /\ slice'.problems = slice.problems
  BY <1>1 DEF GradeInv, SliceInv, NoSlice
<1>3. slice.faults = {} => slice.problems = {}
  BY <1>1 DEF CleanInv, Lowered
<1>4. slice.problems = {} => \A g \in DOMAIN Gates : Gates[g]
  <2>1. ASSUME slice.problems = {} PROVE \A word : Silent(word)
    BY <2>1 DEF Silent
  <2>2. ASSUME slice.problems = {}, NEW g \in DOMAIN Gates PROVE Gates[g]
    <3>1. g \in {"lowering_structural", "functional_equivalence", "cpu_conservation", "vmarch",
                 "kernel_invariants", "determinism"}
      BY DEF Gates
    <3>2. /\ Gates["lowering_structural"] /\ Gates["functional_equivalence"]
          /\ Gates["cpu_conservation"] /\ Gates["vmarch"] /\ Gates["kernel_invariants"]
          /\ Gates["determinism"]
      BY <2>1, <2>2 DEF Gates
    <3> QED BY <3>1, <3>2
  <2> QED BY <2>2
<1>5. CleanSlicePasses'
  BY <1>1, <1>3, <1>4 DEF CleanInv, CleanSlicePasses
<1>6. (\A n \in S.ns : n % 2 = 0)'
  BY <1>1 DEF CleanInv, Lowered, S
<1> QED BY <1>2, <1>3, <1>5, <1>6 DEF CleanInv

LEMMA SlicingClean ==
  ASSUME SmallSlices, ComputerInv, GradeInv, CleanInv, Slicing PROVE CleanInv'
<1>1. CASE LowerAll
  BY <1>1, LowerClean
<1>2. CASE StubViews
  <2>1. /\ step = "views" /\ UNCHANGED <<report, input>>
        /\ slice' = [slice EXCEPT !.runs["compiler"] = 2,
                        !.views = {[preset |-> "O0", config |-> InitialConfig],
                                   [preset |-> "O3", config |-> LowView]}]
    BY <1>2 DEF StubViews, SliceSame, callVars
  <2>2. slice'.problems = slice.problems /\ slice'.faults = slice.faults
    BY <2>1 DEF GradeInv, SliceInv, NoSlice
  <2> QED BY <2>1, <2>2, LegKeeps DEF LegStep, Lowered
<1>3. ASSUME NEW draw \in Draws, NEW bad \in AtMostOne({Conservation, Equivalence}),
             step \in {"in order", "out of order"},
             InOrderLeg(draw, bad) \/ OutOfOrderLeg(draw, bad)
      PROVE  CleanInv'
  <2>1. step \in Lowered /\ SliceSame
    BY <1>3 DEF InOrderLeg, OutOfOrderLeg, Lowered
  <2>2. CASE UNCHANGED slice
    <3>1. LegStep
      BY <2>1, <2>2 DEF LegStep, SliceSame, callVars
    <3> QED BY <2>1, <3>1, LegKeeps
  <2>3. CASE slice' # slice
    <3>1. \E leg, u, n : CpuLeg(leg, u, n, draw, bad)
      BY <1>3, <2>3 DEF InOrderLeg, OutOfOrderLeg
    <3> QED BY <2>1, <3>1, CpuLegClean, LegKeeps
  <2> QED BY <2>2, <2>3
<1>4. ASSUME NEW differs, Rerun(differs) PROVE CleanInv'
  <2> DEFINE bad == IF differs THEN {Problem("vmicro", "determinism")} ELSE {}
  <2>1. step \in Lowered /\ SliceSame /\ Gather("micro", 4, bad, bad)
    BY <1>4 DEF Rerun, Lowered
  <2> HIDE DEF bad
  <2> QED BY <2>1, GatherClean, LegKeeps
<1>5. ASSUME NEW lat \in Latencies, NEW rate \in 0 .. 1, LoadsLeg(lat, rate) PROVE CleanInv'
  <2>1. KernelInvariant(Booted, SimStep(Booted, lat, rate))
    BY ProbeAssumption, LoadsAre
  <2>2. step \in Lowered /\ SliceSame /\ \E n : Gather("kernel", n, {}, {})
    BY <1>5, <2>1 DEF LoadsLeg, Lowered
  <2> QED BY <2>2, GatherClean, LegKeeps
<1>6. CASE Score
  BY <1>6, GatherClean, LegKeeps DEF Score, Lowered
<1>7. CASE Fails
  <2>1. step' \in {"over", "off"} /\ UNCHANGED <<slice, report>>
    BY <1>7 DEF Fails, SliceSame, Raise
  <2>2. StandsBy
    BY <2>1 DEF StandsBy, Lowered
  <2> QED BY <2>2, LeavesKeep
<1>8. CASE Charge
  BY <1>8, ChargeClean
<1> QED BY <1>1, <1>2, <1>3, <1>4, <1>5, <1>6, <1>7, <1>8 DEF Slicing

LEMMA CallingClean == ASSUME ComputerInv, CleanInv, Calling PROVE CleanInv'
<1>1. UNCHANGED report
  BY CallsAre DEF Calls, Idles, Leaves
<1>2. step' \notin Lowered \/ StandsBy
  <2>1. ASSUME NEW inp \in Inputs, NEW most, CommandLine(inp, most) PROVE step' = "probe micro"
    BY <2>1 DEF CommandLine, Begin, FirstStep
  <2>2. ASSUME NEW most, Import(most) PROVE StandsBy
    <3>1. step = "off"
      BY <2>2 DEF Import, Computer, Free, ComputerInv, ControlInv
    <3> QED BY <2>2, <3>1 DEF Import, Computer, StandsBy, Lowered
  <2>3. ASSUME NEW inp, NEW what \in DOMAIN FirstStep, LibraryCall(what, inp) PROVE step' \notin Lowered
    <3>1. what \in {"pipeline", "micro", "compiler", "kernel", "slice", "certify"}
      BY DEF FirstStep
    <3>2. /\ FirstStep["pipeline"] = "probe micro" /\ FirstStep["micro"] = "probe micro"
          /\ FirstStep["compiler"] = "probe compiler" /\ FirstStep["kernel"] = "probe kernel"
          /\ FirstStep["slice"] = "lower" /\ FirstStep["certify"] = "read"
      BY DEF FirstStep
    <3>3. step' = FirstStep[what]
      BY <2>3 DEF LibraryCall, Begin
    <3> QED BY <3>1, <3>2, <3>3 DEF Lowered
  <2>4. CASE Exit
    BY <2>4 DEF Exit, Lowered
  <2>5. ASSUME NEW n, Fork("copy", n) \/ Switch(n) \/ Intervene(n, "tight") PROVE StandsBy
    BY <2>5 DEF Fork, Switch, Intervene, StandsBy
  <2> QED BY <2>1, <2>2, <2>3, <2>4, <2>5 DEF Calling, Lowered
<1>3. CASE step' \notin Lowered
  BY <1>1, <1>3 DEF CleanInv, CleanSlicePasses
<1> QED BY <1>2, <1>3, LeavesKeep

LEMMA ProbingClean ==
  ASSUME CleanInv, Probing \/ \E fails : ProbeKernel(fails) PROVE CleanInv'
<1> USE DEF ProbeSame, callVars, Done, StandsBy, Lowered
<1>1. ASSUME NEW fails, ProbeMicro(fails) PROVE StandsBy
  BY <1>1 DEF ProbeMicro
<1>2. ASSUME NEW fails, ProbeCompiler(fails) PROVE StandsBy
  BY <1>2 DEF ProbeCompiler
<1>3. ASSUME Search PROVE StandsBy
  BY <1>3 DEF Search, computerVars
<1>4. ASSUME EndSearch PROVE StandsBy
  BY <1>4 DEF EndSearch
<1>5. ASSUME NEW fails, ProbeKernel(fails) PROVE StandsBy
  BY <1>5 DEF ProbeKernel
<1>6. StandsBy
  BY <1>1, <1>2, <1>3, <1>4, <1>5 DEF Probing
<1> QED BY <1>6, LeavesKeep

LEMMA CleanStep ==
  ASSUME SmallSlices, ComputerInv, GradeInv, CleanInv, [ComputerNext]_allVars PROVE CleanInv'
<1>1. CASE Calling
  BY <1>1, CallingClean
<1>2. CASE Probing \/ \E fails \in {"no", "at once", "late"} : ProbeKernel(fails)
  BY <1>2, ProbingClean
<1>3. CASE Slicing
  BY <1>3, SlicingClean
<1>4. CASE Certifying
  <2> USE DEF StandsBy, Lowered, CertSame, callVars
  <2>1. ASSUME NEW evidence, Read(evidence) PROVE StandsBy
    BY <2>1 DEF Read
  <2>2. ASSUME Certify PROVE StandsBy
    BY <2>2 DEF Certify
  <2>3. ASSUME Emit PROVE StandsBy
    BY <2>3 DEF Emit
  <2>4. ASSUME NEW drifts, EditSource(drifts) PROVE StandsBy
    BY <2>4 DEF EditSource
  <2>5. StandsBy
    BY <1>4, <2>1, <2>2, <2>3, <2>4 DEF Certifying
  <2> QED BY <2>5, LeavesKeep
<1>5. CASE (CompilerNext /\ UNCHANGED computerVars) \/ KernelProgram \/ DriftProgram \/ UNCHANGED allVars
  <2>1. StandsBy
    BY <1>5 DEF KernelProgram, DriftProgram, Alone, allVars, computerVars, callVars, StandsBy
  <2> QED BY <2>1, LeavesKeep
<1> QED BY <1>1, <1>2, <1>3, <1>4, <1>5 DEF ComputerNext

\* A slice in which no CPU fails and whose rerun agrees passes every gate
\* (conservation.py, lowering.py): for every vector of up to 100 elements the unoptimised and the
\* optimised program leave the dot product in the accumulator and in memory, the optimised
\* one touches memory less often, and no load drives the simulator out of its range.
THEOREM CleanSlicesPass == ASSUME SmallSlices PROVE ComputerSpec => []CleanSlicePasses
<1>1. ComputerInit => ComputerInv /\ GradeInv /\ CleanInv
  <2>1. ASSUME ComputerInit PROVE GradeInv
    <3>1. NoSlice.faults = {} /\ NoDisk \in Evidence
      BY DEF NoSlice, NoDisk, Evidence, KernelArtifact
    <3> QED BY <2>1, <3>1 DEF ComputerInit, GradeInv, SliceInv, ReportInv, CertInv, CertKnown
  <2>2. ComputerInit => ComputerInv
    BY DEF ComputerInit, ComputerInv, CountInv, ControlInv, ChargeInv, PaidInv, NoUse, NoSlice, Early,
           Grading
  <2>3. ComputerInit => CleanInv
    BY DEF ComputerInit, CleanInv, CleanSlicePasses, Lowered
  <2> QED BY <2>1, <2>2, <2>3
<1>2. ASSUME ComputerInv /\ GradeInv /\ CleanInv, [ComputerNext]_allVars
      PROVE  (ComputerInv /\ GradeInv /\ CleanInv)'
  BY <1>2, ComputerStep, GradeStep, CleanStep
<1>3. CleanInv => CleanSlicePasses
  BY DEF CleanInv
<1> QED BY <1>1, <1>2, <1>3, PTL DEF ComputerSpec
-----------------------------------------------------------------------------
\* Everything that is known of the computer at once.
AllInv ==
  /\ ComputerInv /\ FactsInv /\ BudgetInv /\ WorldInv /\ AtInv /\ GradeInv
  /\ FutureInv /\ TruthInv /\ DriftInv
  /\ EnvGood /\ DeskInv /\ Exactly /\ ProcedureInv /\ ChargedInv

LEMMA AllStart == ASSUME Demands, ComputerInit PROVE AllInv
<1>1. ComputerInv /\ AtInv
  BY DEF ComputerInit, ComputerInv, CountInv, ControlInv, ChargeInv, PaidInv, NoUse, NoSlice, Early,
         Grading, AtInv
<1>2. FactsInv /\ WorldInv /\ EnvGood
  BY FactsInit, WorldInit, EnvStarts DEF ComputerInit
<1>3. BudgetInv
  BY DEF ComputerInit, Init, BudgetInv, NoUse
<1>4. GradeInv
  <2>1. NoSlice.faults = {} /\ NoDisk \in Evidence
    BY DEF NoSlice, NoDisk, Evidence, KernelArtifact
  <2> QED BY <2>1 DEF ComputerInit, GradeInv, SliceInv, ReportInv, CertInv, CertKnown
<1>5. FutureInv /\ TruthInv
  BY NewStory, TruthStarts DEF ComputerInit, KernelInit, OnlyMain, FutureInv
<1>6. DriftInv
  BY DriftAssumption DEF ComputerInit, DriftInit, DriftInv
<1>7. DeskInv
  <2>1. /\ worlds = [n \in {"root"} |-> RootWorld] /\ active = "root" /\ limit = NoUse
        /\ caller = "nobody" /\ pipeline = FALSE /\ cases = 0
    BY DEF ComputerInit
  <2>2. active \in DOMAIN worlds /\ cases \in 0 .. MaxCases
    BY <2>1, ProbeAssumption
  <2>3. pipeline \in BOOLEAN
    BY <2>1, Zenon
  <2> QED BY <2>1, <2>2, <2>3 DEF DeskInv
<1>8. Exactly
  BY DEF ComputerInit, Exactly, NoCalls
<1>9. ProcedureInv
  BY KernelAssumption DEF ComputerInit, KernelInit, ProcedureInv
<1>10. ChargedInv
  BY DEF ComputerInit, NoSlice, ChargedInv
<1> QED BY <1>1, <1>2, <1>3, <1>4, <1>5, <1>6, <1>7, <1>8, <1>9, <1>10 DEF AllInv

LEMMA AllStep == ASSUME Demands, AllInv, [ComputerNext]_allVars PROVE AllInv'
<1> USE DEF AllInv
<1>1. ComputerInv' /\ FactsInv' /\ BudgetInv'
  BY ComputerStep, FactsKept, BudgetStep
<1>2. WorldInv' /\ AtInv' /\ GradeInv'
  BY WorldKept, GradeStep
<1>3. FutureInv' /\ TruthInv' /\ DriftInv'
  BY FutureStep, TruthStep, DriftMoves, DriftStep
<1>4. EnvGood' /\ DeskInv' /\ ProcedureInv' /\ ChargedInv'
  BY EnvStep, DeskStep, ProcedureStep, ChargedStep
<1>5. Exactly'
  BY ExactStep DEF EnvGood
<1> QED BY <1>1, <1>2, <1>3, <1>4, <1>5

LEMMA AllTypes == ASSUME AllInv PROVE TypeOK
<1> USE DEF AllInv
<1>1. CompilerTypeOK
  BY EnvTypes
<1>2. KernelTypeOK
  <2>1. focus \in DOMAIN futures /\ ProcedureInv
    BY DEF FutureInv
  <2>2. oracle.calls \in Nat /\ \A p \in pool : p.act \in Arms
    BY DEF TruthInv, SoundInv, OracleOK, PoolOK
  <2> QED BY <2>1, <2>2 DEF ProcedureInv, KernelTypeOK
<1>3. DriftTypeOK
  <2>1. /\ ring \in Seq(StepRewards) /\ Len(ring) <= 2 * WindowSize /\ since = Len(ring)
        /\ version \in 1 .. MaxPolicies /\ WindowSize \in Nat
    BY DriftAssumption DEF DriftInv
  <2>2. since \in 0 .. 2 * WindowSize
    BY <2>1
  <2> QED BY <2>1, <2>2 DEF DriftTypeOK
<1>4. \A u \in UnitSet : ledger[u] \in 0 .. limit[u] /\ exact[u] \in Nat
  BY DEF ComputerInv, CountInv, BudgetInv, Exactly, Counts
<1>5. disk \in Evidence /\ slice.charged \in 0 .. Len(Units)
  BY UnitFacts DEF GradeInv, CertInv, ChargedInv
<1>6. DeskInv
  OBVIOUS
<1> QED BY <1>1, <1>2, <1>3, <1>4, <1>5, <1>6 DEF DeskInv, TypeOK

\* Whatever the programs do, every variable of the computer and of the environments it
\* uses keeps its type: no budget is overdrawn, no counter leaves its bound, no measurement
\* is anything the oracle may not say, and the active world and the future in focus exist.
THEOREM TypesHold == ASSUME Demands PROVE ComputerSpec => []TypeOK
<1>1. ComputerInit => AllInv
  BY AllStart
<1>2. AllInv /\ [ComputerNext]_allVars => AllInv'
  BY AllStep
<1> QED BY <1>1, <1>2, AllTypes, PTL DEF ComputerSpec
=============================================================================
