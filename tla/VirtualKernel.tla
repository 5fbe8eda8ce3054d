---------------------------- MODULE VirtualKernel ----------------------------
(***************************************************************************)
(* The virtual kernel (kernel/virtual_kernel/): an environment of futures, *)
(* kernel states a learned ensemble predicts and a program branches, and   *)
(* what is built on it: the comparison ladder of oracle.py, the agents of  *)
(* agents.py, active learning, and the certification of levels.py.         *)
(*                                                                         *)
(* What the ensemble predicts, how a search ranks, whether a critic vetoes *)
(* and whether a level passes are choices; what the oracle says is         *)
(* computed.  Latent vectors, the training and the statistics are left     *)
(* out.  Every call is one procedure from its start to its report.         *)
(***************************************************************************)
EXTENDS KernelSimulator, TLC

CONSTANTS
  OracleSeeds,    \* seeds of the oracle
  TestSeeds,      \* seeds of the recorded test episodes
  EpisodeSteps,   \* their length
  Guesses,        \* what the ensemble may predict: latencies
  Horizon,        \* steps of a searched sequence
  BeamWidth,      \* sequences the screen keeps
  ExactBudgets,   \* budgets of the exact search of the ladder
  TopCandidates,  \* how many candidates of the screen the oracle may validate
  DebateRounds,   \* challenges of the adversary
  ProbeRounds,    \* rounds of active learning
  ProbesPerRound,
  MaxProcedures   \* bound on the calls of a program

ASSUME KernelAssumption ==
  {Horizon, EpisodeSteps, BeamWidth, DebateRounds, ProbeRounds, ProbesPerRound,
   MaxProcedures} \cup ExactBudgets \cup TopCandidates \subseteq Nat
ASSUME SeedsAssumption == OracleSeeds \cup TestSeeds \subseteq Int /\ IsFiniteSet(TestSeeds)
ASSUME SearchesAssumption == Horizon >= 1 /\ BeamWidth >= 1   \* results[0] is taken

VARIABLES
  futures,    \* _branches of the environment: name to [kir, history, actions]
  focus,      \* _active
  oracle,     \* the oracle the program uses
  pool,       \* transitions the ensemble was trained on
  stage,      \* where the procedure stands
  work,       \* what it has gathered
  walks,      \* the exact walks of the last step
  said,       \* the last report
  procedures  \* calls so far

kernelVars == <<futures, focus, oracle, pool, stage, work, walks, said, procedures>>

NoWork == [start |-> Booted, results |-> <<>>, rungs |-> <<>>, next |-> 1, spent |-> 0,
           budget |-> 0, best |-> <<>>, reward |-> 0, round |-> 0, probes |-> <<>>,
           new |-> {}, checked |-> {}, revised |-> FALSE]
Nothing == [kind |-> "nothing"]

NewFuture(kir) == [kir |-> kir, history |-> <<kir>>, actions |-> <<>>]
OnlyMain(kir) == [n \in {"main"} |-> NewFuture(kir)]

\* branch overwrites a future of that name.
WithFuture(name, future) ==
  [n \in DOMAIN futures \cup {name} |-> IF n = name THEN future ELSE futures[n]]

KernelInit ==
  /\ futures = OnlyMain(Booted) /\ focus = "main"
  /\ oracle = NewOracle(0) /\ pool = {} /\ stage = "off"
  /\ work = NoWork /\ walks = {} /\ said = Nothing /\ procedures = 0

\* The recorded episodes, the states they offer to begin at, and their middles.
Episodes == {[seed |-> s, kirs |-> Trace(s, acts)] :
               s \in TestSeeds, acts \in [1 .. EpisodeSteps -> Arms]}
Starts == UNION {Range(Front(e.kirs)) : e \in Episodes}
Middles == {e.kirs[EpisodeSteps \div 2 + 1] : e \in Episodes}

\* predict_kir of the member nearest to the mean.
Predicted(kir) == {Kir(kir.t + 1, kir.sw + 1, lat, 1) : lat \in Guesses}

Sequences(h) == [1 .. h -> Arms]

\* itertools.product, in its order: every sequence is continued by every arm in turn.
Continuations(seqs) ==
  LET n == Len(ArmOrder)
  IN  [i \in 1 .. n * Len(seqs) |->
         Append(seqs[((i - 1) \div n) + 1], ArmOrder[((i - 1) % n) + 1])]
Products(h) ==
  LET product[k \in 0 .. h] == IF k = 0 THEN << <<>> >> ELSE Continuations(product[k - 1])
  IN  product[h]

\* virtual_screen keeps the best ranked; the ranking is the ensemble's.
Distinct(s) == \A i, j \in DOMAIN s : s[i] = s[j] => i = j
Screens == {s \in [1 .. BeamWidth -> Sequences(Horizon)] : Distinct(s)}

WalkedBy(o, start, seq) ==
  LET w == Walk(o, start, seq)
  IN  [seed |-> o.base, start |-> start, seq |-> seq, total |-> w.total,
       broken |-> w.broken, oracle |-> w.oracle]
Walked(start, seq) == WalkedBy(oracle, start, seq)

-----------------------------------------------------------------------------
(* The program: it makes an environment and an oracle and makes calls.     *)

Boot(seed, kir) ==
  /\ stage = "off" /\ procedures = 0
  /\ futures' = OnlyMain(kir) /\ focus' = "main"
  /\ oracle' = NewOracle(seed) /\ stage' = "idle"
  /\ UNCHANGED <<pool, work, walks, said, procedures>>

Procedure == stage = "idle" /\ procedures < MaxProcedures /\ procedures' = procedures + 1
Quiet == walks' = {} /\ said' = Nothing /\ work' = NoWork
EnvironmentSame == UNCHANGED <<futures, focus, pool>>

ForkFuture(name, source) ==
  /\ Procedure
  /\ futures' = WithFuture(name, futures[source])
  /\ Quiet /\ UNCHANGED <<focus, oracle, pool, stage>>

SwitchFuture(name) ==
  /\ Procedure /\ focus' = name
  /\ Quiet /\ UNCHANGED <<futures, oracle, pool, stage>>

\* The copy has lists of its own.  Faulty variant: it shares its source's.
Sharing(name) == {n \in DOMAIN futures : futures[n].history = futures[name].history}
Touched(name) == {name}

Continued(f, a, kir) ==
  [f EXCEPT !.history = Append(@, kir), !.actions = Append(@, a)]

Intervened(name, a, kir) ==
  [n \in DOMAIN futures |->
     IF n = name THEN [Continued(futures[n], a, kir) EXCEPT !.kir = kir]
     ELSE IF n \in Touched(name) THEN Continued(futures[n], a, kir) ELSE futures[n]]

\* rollout is a series of interventions; a policy that raises acts as none.
InterveneFuture(name, a, kir) ==
  /\ Procedure /\ kir \in Predicted(futures[name].kir)
  /\ futures' = Intervened(name, a, kir)
  /\ Quiet /\ UNCHANGED <<focus, oracle, pool, stage>>

ResetFuture(name, kir) ==
  /\ Procedure
  /\ futures' = [futures EXCEPT ![name] = NewFuture(kir)]
  /\ Quiet /\ UNCHANGED <<focus, oracle, pool, stage>>

\* evaluate: the sequence is walked once for the single steps and once for the
\* open loop.
Evaluate(start, seq) ==
  /\ Procedure
  /\ LET first  == Walked(start, seq)
         second == WalkedBy(first.oracle, start, seq)
     IN  oracle' = second.oracle /\ walks' = {first, second}
  /\ work' = NoWork /\ said' = Nothing
  /\ EnvironmentSame /\ UNCHANGED stage

\* validate_against_oracle: a future replays the default action, with an oracle
\* of its own; the surrogate's side of it stays outside the environment.
ValidateFuture(seed, name) ==
  /\ Procedure
  /\ walks' = {WalkedBy(NewOracle(seed), futures[name].kir, [i \in 1 .. Horizon |-> TRef])}
  /\ work' = NoWork /\ said' = Nothing
  /\ EnvironmentSame /\ UNCHANGED <<oracle, stage>>

-----------------------------------------------------------------------------
(* run_ladder: four systems from one state, on an oracle of its own.       *)

Rung(name, seq, reward, calls) == [name |-> name, seq |-> seq, reward |-> reward, calls |-> calls]
Low == 0 - 1000   \* minus infinity

\* The heuristic policy is tight above one threshold and loose below another, and
\* leaves alone what it set before.
Heuristic(p, util) ==
  LET tight == IF p.tight THEN util >= MaxDemand - 1 ELSE util = MaxDemand
      want  == IF tight THEN 2 ELSE 12
  IN  [tight |-> tight, last |-> want, act |-> IF p.last = want THEN NoTarget ELSE want]

HeuristicStep(w, i) ==
  LET p == Heuristic(w.policy, w.kir.util)
      n == Step(w.oracle, p.act)
  IN  [oracle |-> n, kir |-> n.kir, policy |-> p, total |-> w.total + StepReward(w.kir, n.kir)]
HeuristicReward(o, start, h) ==
  FoldLeft(HeuristicStep,
           [oracle |-> Reset(o, start), kir |-> start, total |-> 0,
            policy |-> [tight |-> FALSE, last |-> NoTarget, act |-> NoTarget]],
           [i \in 1 .. h |-> i])

Ladder(seed, start, budget) ==
  /\ Procedure /\ stage' = "exact"
  /\ LET w == HeuristicReward(NewOracle(seed), start, Horizon)
     IN  /\ oracle' = w.oracle
         /\ work' = [NoWork EXCEPT !.start = start, !.budget = budget, !.reward = Low,
                                   !.rungs = <<Rung("heuristic", <<>>, w.total, Horizon)>>]
  /\ walks' = {} /\ said' = Nothing /\ EnvironmentSame

\* The exact search may spend another walk.
Within(spent, budget) == spent + Horizon <= budget

ExactNext ==
  /\ stage = "exact" /\ work.next <= Len(Products(Horizon)) /\ Within(work.spent, work.budget)
  /\ LET w == Walked(work.start, Products(Horizon)[work.next])
     IN  /\ oracle' = w.oracle /\ walks' = {w}
         /\ work' = [work EXCEPT !.next = @ + 1, !.spent = @ + Horizon,
                       !.best = IF w.total > work.reward THEN w.seq ELSE @,
                       !.reward = IF w.total > @ THEN w.total ELSE @]
  /\ EnvironmentSame /\ UNCHANGED <<stage, said, procedures>>

EndExact ==
  /\ stage = "exact"
  /\ work.next > Len(Products(Horizon)) \/ ~Within(work.spent, work.budget)
  /\ work' = [work EXCEPT !.rungs = Append(@, Rung("exact", work.best, work.reward, work.spent))]
  /\ stage' = "beam"
  /\ EnvironmentSame /\ UNCHANGED <<oracle, walks, said, procedures>>

\* The surrogate's best sequence is walked once.  Its calls are given as the
\* horizon, though a tree of few simulations may be shorter.
Grounded(name, seq) ==
  LET w == Walked(work.start, seq)
  IN  /\ oracle' = w.oracle /\ walks' = {w}
      /\ work' = [work EXCEPT !.rungs = Append(@, Rung(name, seq, w.total, Horizon))]

BeamRung(results) ==
  /\ stage = "beam" /\ Grounded("beam", results[1]) /\ stage' = "tree"
  /\ EnvironmentSame /\ UNCHANGED <<said, procedures>>

\* mcts_search: the most visited path of a tree, which few simulations leave short.
TreeSequences == UNION {Sequences(h) : h \in 1 .. Horizon}

TreeRung(seq) ==
  /\ stage = "tree" /\ Grounded("tree", seq) /\ stage' = "told"
  /\ EnvironmentSame /\ UNCHANGED <<said, procedures>>

EndLadder ==
  /\ stage = "told" /\ stage' = "idle"
  /\ said' = [kind |-> "ladder", start |-> work.start, budget |-> work.budget, rungs |-> work.rungs]
  /\ walks' = {} /\ work' = NoWork
  /\ EnvironmentSame /\ UNCHANGED <<oracle, procedures>>

-----------------------------------------------------------------------------
(* VirtualLab.run: screen, analysis, validation, debate, report.           *)

\* The best sequence is played out in a future of its own.
Lab(results, kirs, validates) ==
  /\ Procedure
  /\ LET start == futures[focus].kir
     IN  /\ \A i \in 1 .. Horizon :
              kirs[i] \in Predicted(IF i = 1 THEN start ELSE kirs[i - 1])
         /\ futures' = WithFuture("analysis",
                         [kir |-> kirs[Horizon],
                          history |-> futures[focus].history \o kirs,
                          actions |-> futures[focus].actions \o results[1]])
         /\ work' = [NoWork EXCEPT !.start = start, !.results = results,
                                   !.next = IF validates = 0 THEN 0 ELSE 1, !.budget = validates]
  /\ stage' = IF validates = 0 THEN "debate" ELSE "ground"
  /\ walks' = {} /\ said' = Nothing /\ UNCHANGED <<focus, oracle, pool>>

\* validate_topk: the first candidates are walked, each from the same state.
GroundNext ==
  /\ stage = "ground" /\ work.next <= work.budget /\ work.next <= Len(work.results)
  /\ LET w == Walked(work.start, work.results[work.next])
     IN  /\ oracle' = [w.oracle EXCEPT !.calls = 0] /\ walks' = {w}
         /\ work' = [work EXCEPT !.next = @ + 1, !.spent = @ + w.oracle.calls,
                       !.reward = IF work.next = 1 THEN w.total ELSE @,
                       !.checked = @ \cup {w.seq}]
  /\ EnvironmentSame /\ UNCHANGED <<stage, said, procedures>>

EndGround ==
  /\ stage = "ground" /\ (work.next > work.budget \/ work.next > Len(work.results))
  /\ stage' = "debate" /\ walks' = {}
  /\ EnvironmentSame /\ UNCHANGED <<oracle, work, said, procedures>>

\* A veto puts the first candidate that differs from the leader in front of it.
Others == SelectSeq(Tail(work.results), LAMBDA s : s # work.results[1])

Challenge(veto) ==
  /\ stage = "debate" /\ work.round < DebateRounds
  /\ work' = [work EXCEPT !.round = @ + 1,
                !.results = IF veto /\ Others # <<>> THEN <<Others[1]>> \o @ ELSE @,
                !.revised = @ \/ (veto /\ Others # <<>>)]
  /\ EnvironmentSame /\ UNCHANGED <<oracle, stage, walks, said, procedures>>

EndLab ==
  /\ stage = "debate" /\ work.round = DebateRounds /\ stage' = "idle"
  /\ said' = [kind |-> "lab", start |-> work.start, best |-> work.results[1],
              checked |-> work.checked, reward |-> work.reward, calls |-> work.spent,
              revised |-> work.revised]
  /\ walks' = {} /\ work' = NoWork
  /\ EnvironmentSame /\ UNCHANGED <<oracle, procedures>>

-----------------------------------------------------------------------------
(* active_loop: probe, ask the oracle, walk on, train on what was seen.    *)

Active ==
  /\ Procedure /\ stage' = "rank"
  /\ work' = [NoWork EXCEPT !.start = futures[focus].kir]
  /\ walks' = {} /\ said' = Nothing /\ EnvironmentSame /\ UNCHANGED oracle

\* The probes of a round are ranked once, at the state it begins in.
RankProbes(probes) ==
  /\ stage = "rank" /\ work.round < ProbeRounds /\ stage' = "probe"
  /\ work' = [work EXCEPT !.probes = probes, !.round = @ + 1, !.new = {}]
  /\ EnvironmentSame /\ UNCHANGED <<oracle, walks, said, procedures>>

Probe ==
  /\ stage = "probe" /\ work.probes # <<>>
  /\ LET o == Step(Reset(oracle, work.start), Head(work.probes))
     IN  /\ oracle' = o
         /\ work' = [work EXCEPT !.probes = Tail(@), !.start = o.kir, !.spent = @ + 1,
                       !.new = @ \cup {[seed |-> oracle.base, kir |-> work.start, act |-> Head(work.probes), next |-> o.kir]}]
  /\ EnvironmentSame /\ UNCHANGED <<stage, walks, said, procedures>>

\* The ensemble is trained on all of it; what the oracle said is lost if that raises.
Retrain(fails) ==
  /\ stage = "probe" /\ work.probes = <<>>
  /\ pool' = IF fails THEN pool ELSE pool \cup work.new
  /\ IF fails THEN stage' = "idle" /\ work' = NoWork
     ELSE stage' = "rank" /\ work' = [work EXCEPT !.new = {}]
  /\ UNCHANGED <<futures, focus, oracle, walks, said, procedures>>

EndActive ==
  /\ stage = "rank" /\ work.round = ProbeRounds /\ stage' = "idle"
  /\ said' = [kind |-> "active", calls |-> work.spent] /\ work' = NoWork
  /\ EnvironmentSame /\ UNCHANGED <<oracle, walks, procedures>>

-----------------------------------------------------------------------------
(* certify: the levels asked for are assessed and count as long as none is *)
(* missing or failed.                                                      *)

\* assess_L3: constant and alternating sequences, walked from every start.
Panel ==
  LET low == ArmOrder[1]
      mid == ArmOrder[Len(ArmOrder) \div 2 + 1]
      top == ArmOrder[Len(ArmOrder)]
      alternate(x, y) == [i \in 1 .. Horizon |-> IF i % 2 = 1 THEN x ELSE y]
  IN  {[i \in 1 .. Horizon |-> x] : x \in {low, mid, top}}
        \cup {alternate(low, mid), alternate(mid, low), alternate(top, mid)}

RankedStep(p, r) ==
  LET w == WalkedBy(r.oracle, p[2], p[1])
  IN  [oracle |-> w.oracle, walks |-> r.walks \cup {w}]
RankedWalks(seed) ==
  FoldSet(RankedStep, [oracle |-> NewOracle(seed), walks |-> {}], Panel \X Middles).walks

\* assess_L4: a simulator of each episode's seed is driven from its first state;
\* the surrogate may break no more invariants than the simulator does.
DrivenWalks ==
  {Driven([Simulator(e.seed) EXCEPT !.kir = Restored(Head(e.kirs))], ArmOrder) : e \in Episodes}

Certified(passed) == CHOOSE n \in 0 .. 5 : 1 .. n \subseteq passed /\ n + 1 \notin passed

\* Which levels pass is a choice; the active loop of the last one is Learning.
CertifyLevels(seed, levels, passed) ==
  /\ Procedure /\ passed \subseteq levels
  /\ oracle' = NewOracle(seed)
  /\ walks' = IF 3 \in levels THEN RankedWalks(seed) ELSE {}
  /\ said' = [kind |-> "levels", levels |-> levels, passed |-> passed,
              broken |-> IF 4 \in levels THEN UNION {Scored(k) : k \in DrivenWalks} ELSE {},
              certified |-> Certified(passed)]
  /\ work' = NoWork /\ EnvironmentSame /\ UNCHANGED stage

-----------------------------------------------------------------------------
FutureNames == {"main", "fork"}
Orderings(n) == {s \in [1 .. n -> Arms] : Distinct(s)}

Futures ==
  \/ \E n \in FutureNames, m \in DOMAIN futures : ForkFuture(n, m)
  \/ \E n \in DOMAIN futures :
       \/ SwitchFuture(n)
       \/ \E a \in Arms \cup {NoTarget}, k \in Predicted(futures[n].kir) : InterveneFuture(n, a, k)
       \/ \E k \in Starts : ResetFuture(n, k)

Laddering ==
  \/ \E seed \in OracleSeeds, b \in ExactBudgets : Ladder(seed, futures[focus].kir, b)
  \/ ExactNext \/ EndExact \/ EndLadder
  \/ \E s \in Screens : BeamRung(s)
  \/ \E s \in TreeSequences : TreeRung(s)

Debating ==
  \/ stage = "idle" /\ \E s \in Screens, v \in TopCandidates :
       \E kirs \in [1 .. Horizon -> UNION {Predicted(Kir(futures[focus].kir.t + i - 1,
                                      futures[focus].kir.sw + i - 1, 1, 1)) : i \in 1 .. Horizon}] :
         Lab(s, kirs, v)
  \/ GroundNext \/ EndGround \/ EndLab \/ \E veto \in BOOLEAN : Challenge(veto)

Learning ==
  \/ Active \/ Probe \/ EndActive
  \/ \E s \in Orderings(ProbesPerRound) : RankProbes(s)
  \/ \E fails \in BOOLEAN : Retrain(fails)

Assessing ==
  \E seed \in OracleSeeds, levels \in {1 .. 5, {1, 2, 4}} :
    \E passed \in SUBSET levels : CertifyLevels(seed, levels, passed)

KernelWork ==
  \/ Futures \/ Laddering \/ Debating \/ Learning \/ Assessing
  \/ \E s \in Sequences(Horizon) : Evaluate(futures[focus].kir, s)
  \/ \E seed \in OracleSeeds, n \in DOMAIN futures : ValidateFuture(seed, n)

-----------------------------------------------------------------------------
KernelTypeOK ==
  /\ focus \in DOMAIN futures /\ oracle.calls \in Nat /\ procedures \in 0 .. MaxProcedures
  /\ \A p \in pool : p.act \in Arms
  /\ stage \in {"off", "idle", "exact", "beam", "tree", "told", "ground", "debate", "rank", "probe"}

\* "Results are order-independent" (oracle.py:54): whatever an oracle was used for
\* before, and by whom, it says of a sequence what an oracle never used before says;
\* so do the rungs of the ladder and the report of the agents for the sequence they name,
\* unless the agents revised it; and so does what the ensemble was trained on.
RewardsAreExact ==
  /\ \A w \in walks : w.total = ExactReward(w.seed, w.start, w.seq)
  /\ said.kind = "ladder" =>
       \A i \in 2 .. 4 : said.rungs[i].seq # <<>> =>
         said.rungs[i].reward = ExactReward(oracle.base, said.start, said.rungs[i].seq)
  /\ said.kind = "lab" /\ ~said.revised /\ said.best \in said.checked =>
       said.reward = ExactReward(oracle.base, said.start, said.best)
  /\ \A p \in pool : p.next = Step(Reset(NewOracle(p.seed), p.kir), p.act).kir

\* An exact search that can afford every sequence is not beaten by a surrogate's
\* sequence of the same length ("fixed oracle-interaction budget", oracle.py:178).
ExactSearchDominates ==
  said.kind = "ladder" /\ said.budget >= Horizon * Cardinality(Sequences(Horizon)) =>
    \A i \in 3 .. 4 : Len(said.rungs[i].seq) = Horizon => said.rungs[2].reward >= said.rungs[i].reward

\* A future is its own (environment.py:91-97): its history ends in its state, has one
\* action per step and advances by one tick per step, whatever was done to the
\* futures it was branched from, to or beside.
FuturesAreApart ==
  \A n \in DOMAIN futures :
    LET f == futures[n]
    IN  /\ f.kir = Last(f.history) /\ Len(f.history) = Len(f.actions) + 1
        /\ \A i \in 2 .. Len(f.history) : f.history[i].t = f.history[i - 1].t + 1

\* "The oracle satisfies them by construction" (conservation.py:10): no exact walk
\* breaks an invariant of the dynamics, but that of the time: a simulator that is
\* reset to a later state starts at its own time.
StepsConserve ==
  /\ \A w \in walks : w.broken \subseteq (IF w.start.t > Epoch THEN {"I2 time"} ELSE {})
  /\ said.kind = "levels" => said.broken = {}

\* The exact oracle is the truth the surrogates are held to (oracle.py): its rewards
\* do not depend on what it was used for before, its steps conserve what the kernel
\* conserves, and a search that asks it of everything is not beaten.
OracleIsTruth == RewardsAreExact /\ StepsConserve /\ ExactSearchDominates
=============================================================================
