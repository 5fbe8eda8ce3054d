--------------------------- MODULE KernelSimulator ---------------------------
(***************************************************************************)
(* The exact kernel dynamics: learned_kernel/simulator/env.py, the reward  *)
(* of trainer/reward.py, the oracle that virtual_kernel/oracle.py makes of *)
(* the simulator, and the invariants of virtual_kernel/conservation.py.    *)
(*                                                                         *)
(* A state of the kernel is [t, sw, lat, util]: ticks since the time at    *)
(* which every simulator starts, context switches, latency and             *)
(* utilisation, in coarse units.  The demand of a tick is a function of    *)
(* the seed of its workload and of the number of ticks drawn from it.      *)
(***************************************************************************)
EXTENDS Integers, FiniteSets, Sequences, SequencesExt

CONSTANTS
  ArmOrder,        \* the target latencies a search tries, in order
  Demand(_, _)     \* of a workload seed, at a tick: in 1 .. MaxDemand

Arms == Range(ArmOrder)
TRef == 6          \* the default target
MaxDemand == 3
MinLat == 1
MaxLat == 40
MaxRate == 30
NormLat == 20      \* the reward's scales
NormThroughput == 10
Tau == 8
Epoch == 0

ASSUME ArmsAssumption == ArmOrder \in Seq(Nat \ {0}) \ {<<>>} /\ IsInjective(ArmOrder)

-----------------------------------------------------------------------------
(* The simulator.                                                          *)

Clamp(low, x, high) == IF x < low THEN low ELSE IF x > high THEN high ELSE x

Queueing(d, target) == (4 * d * target) \div 9
Overhead(d, target) == (2 * (2 + d)) \div target
EffectiveLatency(d, target) == Clamp(MinLat, Queueing(d, target) + Overhead(d, target), MaxLat)
SwitchRate(d, target) == Clamp(0, (12 * d) \div target, MaxRate)
Util(d, target) ==
  Clamp(0, d + Overhead(d, target) \div (2 * EffectiveLatency(d, target)), MaxDemand)

Kir(t, sw, lat, util) == [t |-> t, sw |-> sw, lat |-> lat, util |-> util]
Booted == Kir(Epoch, 0, 4, 1)

\* An action may leave the target alone: then it is the default one.
NoTarget == 0
Target(a) == IF a = NoTarget THEN TRef ELSE a

Simulator(seed) == [kir |-> Booted, seed |-> <<seed>>, drawn |-> 0]

\* WorkloadProfile.advance, of a simulator or an oracle: its next demand.
NextDemand(sim) == Demand(sim.seed, sim.drawn + 1)

\* reset: everything of the given state is restored but the time.
Restored(kir) == [kir EXCEPT !.t = Epoch]

Tick(sim, a) ==
  LET d == NextDemand(sim)
  IN  [sim EXCEPT !.drawn = @ + 1,
                  !.kir = Kir(@.t + 1, @.sw + SwitchRate(d, Target(a)),
                              EffectiveLatency(d, Target(a)), Util(d, Target(a)))]

\* A trace of the simulator: the states its steps lead through.
DriveStep(s, a) == [sim |-> Tick(s.sim, a), kirs |-> Append(s.kirs, Tick(s.sim, a).kir)]
Driven(sim, acts) == FoldLeft(DriveStep, [sim |-> sim, kirs |-> <<sim.kir>>], acts).kirs
Trace(seed, acts) == Driven(Simulator(seed), acts)

-----------------------------------------------------------------------------
(* The reward.  A time that does not advance counts as a thousandth of a   *)
(* second, a 500th of a tick; a counter that goes back as one that stands. *)

Advance(prev, next) == IF next.sw > prev.sw THEN next.sw - prev.sw ELSE 0
Throughput(prev, next) ==
  Clamp(0, IF next.t > prev.t THEN Advance(prev, next) \div (next.t - prev.t)
           ELSE 500 * Advance(prev, next), NormThroughput)
Thrash(x) == IF x > Tau THEN 3 * (x - Tau) ELSE 0

StepReward(prev, next) ==
  Throughput(prev, next) - Thrash(Throughput(prev, next))
    - Clamp(0, next.lat, NormLat) - next.util

-----------------------------------------------------------------------------
(* TruthOracle: every reset seeds the workload anew, from the oracle's     *)
(* seed and the state it starts from.                                      *)

NewOracle(seed) == [base |-> seed, kir |-> Booted, seed |-> <<seed>>, drawn |-> 0, calls |-> 0]
WorkloadSeed(base, kir) == <<base, kir.t, kir.sw>>

\* Faulty variant: the workload's generator runs on.
ResetRunning(oracle, kir) == [oracle EXCEPT !.kir = Restored(kir), !.calls = 0]
Reset(oracle, kir) ==
  [oracle EXCEPT !.kir = Restored(kir), !.calls = 0, !.drawn = 0,
                 !.seed = WorkloadSeed(oracle.base, kir)]
Step(oracle, a) == [Tick(oracle, a) EXCEPT !.calls = @ + 1]

\* check_transition: the invariants of the dynamics a step breaks.
Violations(prev, next) ==
  {i \in {"I1 switches", "I2 time", "I3 bounds", "I4 rate", "I5 latency"} :
     CASE i = "I1 switches" -> next.sw < prev.sw
       [] i = "I2 time"     -> next.t - prev.t \notin 1 .. 2
       [] i = "I3 bounds"   -> next.util \notin 0 .. MaxDemand \/ next.lat <= 0
       [] i = "I4 rate"     -> next.t > prev.t /\ next.sw - prev.sw > MaxRate * (next.t - prev.t)
       [] OTHER             -> next.lat > MaxLat}

\* score_trajectory: those a trajectory breaks.
Scored(kirs) == UNION {Violations(kirs[i - 1], kirs[i]) : i \in 2 .. Len(kirs)}

\* sequence_reward: the oracle walks a sequence of actions from a state.
WalkStep(w, a) ==
  LET o == Step(w.oracle, a)
  IN  [oracle |-> o, kir |-> o.kir, total |-> w.total + StepReward(w.kir, o.kir),
       broken |-> w.broken \cup Violations(w.kir, o.kir)]
Walk(oracle, start, acts) ==
  FoldLeft(WalkStep,
           [oracle |-> Reset(oracle, start), kir |-> start, total |-> 0, broken |-> {}], acts)

\* What an oracle that was never used before says of a sequence.
ExactReward(seed, start, acts) == Walk(NewOracle(seed), start, acts).total
=============================================================================
