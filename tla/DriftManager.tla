----------------------------- MODULE DriftManager -----------------------------
(***************************************************************************)
(* Workload drift (learned_kernel/runtime/adaptation.py): a ring of        *)
(* rewards whose older half is compared with the newer one, and the        *)
(* programs that look at it: the loop of online_demo.py, which trains a    *)
(* policy at every alarm, and a library caller, who may consume an alarm   *)
(* or let it pass.                                                         *)
(*                                                                         *)
(* Rewards are small integers, so Welch's t is exact.                      *)
(***************************************************************************)
EXTENDS Integers, Sequences, SequencesExt

CONSTANTS
  WindowSize,     \* of either half
  DoubleTau,      \* twice the threshold of t
  MinEffect,      \* the least difference of the means
  StepRewards,    \* what a step may be worth
  MaxPolicies     \* bound on the policies a program trains

ASSUME DriftAssumption ==
  /\ {WindowSize, DoubleTau, MinEffect, MaxPolicies} \subseteq Nat
  /\ WindowSize >= 2 /\ MaxPolicies >= 1
  /\ StepRewards \subseteq Nat

VARIABLES
  ring,       \* the last rewards
  since,      \* how many of them since an alarm was last dealt with (history)
  alarm,      \* did the last check fire?
  phase,      \* where the program stands: "none", "add", "check", "act" or "over"
  owner,      \* "demo" or "library"
  version     \* of the policy in force

driftVars == <<ring, since, alarm, phase, owner, version>>

DriftInit == ring = <<>> /\ since = 0 /\ alarm = FALSE /\ phase = "none" /\ owner = "nobody" /\ version = 1

-----------------------------------------------------------------------------
Total(s) == FoldLeft(+, 0, s)
Squares(s) == FoldLeft(LAMBDA x, r : x + r * r, 0, s)

\* The variance of a window, times its size and its size less one.
Spread(s) == Len(s) * Squares(s) - Total(s) * Total(s)

\* t < -threshold, where t is 0 when neither window varies.
Significant(ref, cur) ==
  LET fall == Total(ref) - Total(cur)
      both == Spread(ref) + Spread(cur)
  IN  fall > 0 /\ both > 0 /\ 4 * fall * fall * (WindowSize - 1) > DoubleTau * DoubleTau * both

Fires ==
  LET ref == SubSeq(ring, 1, WindowSize)
      cur == SubSeq(ring, WindowSize + 1, 2 * WindowSize)
  IN  /\ Len(ring) = 2 * WindowSize
      /\ Significant(ref, cur) /\ Total(ref) - Total(cur) >= MinEffect * WindowSize

Newest(s, n) == IF Len(s) > n THEN SubSeq(s, Len(s) - n + 1, Len(s)) ELSE s

\* Dealing with an alarm empties the ring.  Faulty variant: it does not.
KeepRing(s) == s
Emptied(s) == <<>>

-----------------------------------------------------------------------------
Manage(who) ==
  /\ phase = "none" /\ owner' = who /\ phase' = "add"
  /\ UNCHANGED <<ring, since, alarm, version>>

AddStep(r) ==
  /\ phase = "add" /\ phase' = "check"
  /\ ring' = Newest(Append(ring, r), 2 * WindowSize)
  /\ since' = IF since = 2 * WindowSize THEN since ELSE since + 1
  /\ alarm' = FALSE
  /\ UNCHANGED <<owner, version>>

\* The demo never consumes an alarm.
CheckDrift(consume) ==
  /\ phase = "check" /\ (owner = "demo" => ~consume)
  /\ alarm' = Fires
  /\ phase' = IF Fires /\ ~consume THEN "act" ELSE "add"
  /\ IF Fires /\ consume THEN ring' = Emptied(ring) /\ since' = 0 ELSE UNCHANGED <<ring, since>>
  /\ UNCHANGED <<owner, version>>

\* trigger_adaptation: a policy is trained, then the ring is emptied.
TriggerAdaptation ==
  /\ phase = "act" /\ version < MaxPolicies
  /\ ring' = Emptied(ring) /\ since' = 0 /\ version' = version + 1 /\ phase' = "add"
  /\ alarm' = FALSE /\ UNCHANGED owner

\* The training raises: the demo is over, the ring stays as it is.
TrainingFails ==
  /\ phase = "act"
  /\ phase' = IF owner = "demo" THEN "over" ELSE "add"
  /\ UNCHANGED <<ring, since, alarm, owner, version>>

\* A library caller lets the alarm pass.
Ignore ==
  /\ phase = "act" /\ owner = "library" /\ phase' = "add"
  /\ UNCHANGED <<ring, since, alarm, owner, version>>

DriftWork ==
  \/ \E r \in StepRewards : AddStep(r)
  \/ \E consume \in BOOLEAN : CheckDrift(consume)
  \/ TriggerAdaptation \/ TrainingFails \/ Ignore

-----------------------------------------------------------------------------
DriftTypeOK ==
  /\ ring \in Seq(StepRewards) /\ Len(ring) <= 2 * WindowSize
  /\ since \in 0 .. 2 * WindowSize /\ version \in 1 .. MaxPolicies

\* "One drift event is reported exactly once" (adaptation.py:92): every alarm that
\* is raised rests on rewards that all came after the last alarm that was consumed or
\* answered by a new policy.
AlarmsAreFresh == phase = "act" => since = 2 * WindowSize
=============================================================================
