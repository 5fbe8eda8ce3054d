---------------------------- MODULE ActuationLoop ----------------------------
(***************************************************************************)
(* LearnedKernelRuntime.step of kernel/learned_kernel/runtime/loop.py and  *)
(* what it calls: a monitor observes the machine, a policy decides, the    *)
(* validator judges, the actuator writes one /proc/sys file after another  *)
(* and rolls back if a write fails, and a simulated monitor is told.       *)
(*                                                                         *)
(* An observation is reduced to the bands the policies and the validator   *)
(* tell apart.  An action is a function from the fields it sets to their   *)
(* values.  The environment: an administrator who writes the same files,   *)
(* stages that raise, writes that fail, kill -9, a policy that is swapped. *)
(* "mishaps" remembers which of the things happened in this run that one   *)
(* or the other promise does not cover; each property names those it means. *)
(***************************************************************************)
EXTENDS Integers, FiniteSets

CONSTANTS
  Observations,  \* what the monitor may report: [util, memory, backlog]
  Policies,      \* the policies that may run: "heuristic", "joint", "other"
  Proposals,     \* what a policy that is not in the repository may propose
  Algorithms,    \* names of congestion controls
  Lower,         \* str.lower on them
  Allowlist,     \* ALLOWED_CONGESTION_CONTROL
  Initial,       \* the settings of the machine
  Admin,         \* pairs <<knob, setting>> the administrator may write
  Faults,        \* "observe", "policy", "write", "rollback", "skip", "crash"
  MaxFailures,   \* bound on the faults of a behaviour
  NoAction       \* None

\* The files under /proc/sys in the order plan() renders them, and what plan()
\* multiplies a field by.
Rank == [target |-> 1, wakeup |-> 2, migration |-> 3, swappiness |-> 4, dirty |-> 5,
         background |-> 6, queue |-> 7, congestion |-> 8]
Scale == [target |-> 1000, wakeup |-> 1000, migration |-> 1, swappiness |-> 1,
          dirty |-> 1, background |-> 1, queue |-> 1]
Knob == DOMAIN Rank
Setting(k) == IF k = "congestion" THEN Algorithms ELSE Int

Observation == [util : {"low", "mid", "high"},       \* < 0.70, between, > 0.80
                memory : {"none", "ok", "critical"}, \* no telemetry, <= 0.8, > 0.8
                backlog : BOOLEAN]                   \* more than 1000 packets wait

\* Well-formed actions: schemas check types and nothing else.
Typed(a) == DOMAIN a \subseteq Knob /\ \A k \in DOMAIN a : a[k] \in Setting(k)

ASSUME ObservationsAssumption == Observations \subseteq Observation
ASSUME PoliciesAssumption == Policies \subseteq {"heuristic", "joint", "other"}
ASSUME ProposalsAssumption ==
  /\ NoAction \notin Proposals
  /\ \A a \in Proposals : a = [k \in DOMAIN a |-> a[k]] /\ Typed(a)
ASSUME AlgorithmsAssumption == Lower \in [Algorithms -> Algorithms]
ASSUME MachineAssumption ==
  /\ DOMAIN Initial = Knob /\ Initial = [k \in Knob |-> Initial[k]] /\ Typed(Initial)
  /\ \A o \in Admin : o = <<o[1], o[2]>> /\ o[1] \in Knob /\ o[2] \in Setting(o[1])
ASSUME FaultsAssumption ==
  /\ Faults \subseteq {"observe", "policy", "write", "rollback", "skip", "crash"}
  /\ MaxFailures \in Nat

VARIABLES
  knobs,      \* the files under /proc/sys
  real,       \* execute_real; otherwise the actuator only prints
  policy,     \* runtime.policy
  tight,      \* HeuristicLatencyPolicy._tight
  emitted,    \* HeuristicLatencyPolicy._last_emitted: "none", "tight", "loose"
  pc,         \* where step() is
  obs,        \* the KIR of this cycle
  action,     \* the action of this cycle, or NoAction
  approved,   \* the verdict of the validator
  error,      \* StepResult.error: "none", "policy", "rejected", "actuation"
  todo,       \* knobs of the batch that are not written yet
  old,        \* the value read before the write that is under way
  changed,    \* AppliedChange: knobs written by the batch, with their old values
  told,       \* a simulated monitor was told of an action it believes in force
  failures,   \* faults so far
  mishaps     \* what happened that not every promise covers

mode == <<real, policy>>
heuristic == <<tight, emitted>>
batch == <<todo, old, changed>>
verdict == <<action, approved, error>>
history == <<failures, mishaps>>
vars == <<knobs, mode, heuristic, pc, obs, verdict, batch, told, history>>

Steps == {"observe", "decide", "validate", "apply", "read", "write", "rollback",
          "inform", "dead"}

\* "skipped": a caller applied an action without the validator's verdict.
\* "contended": the administrator wrote a file the running batch had in hand.
\* "not put back": a rollback could not restore a file.
\* "swapped": another policy was installed.
Mishaps == {"skipped", "contended", "not put back", "swapped"}

NoChanges == [k \in {} |-> 0]

Init ==
  /\ knobs = Initial
  /\ real \in BOOLEAN /\ policy \in Policies
  /\ tight = FALSE /\ emitted = "none"
  /\ pc = "observe" /\ obs \in Observations
  /\ action = NoAction /\ approved = FALSE /\ error = "none"
  /\ todo = {} /\ old = 0 /\ changed = NoChanges
  /\ told = FALSE /\ failures = 0 /\ mishaps = {}

-----------------------------------------------------------------------------
(* Policies.                                                               *)

\* HeuristicLatencyPolicy: the mode after observing o, with a deadband.
\* Faulty variants: one threshold; the branch that enters the mode is dead.
NoDeadband(o) == o.util = "high"
OnlyReleases(o) == tight /\ o.util # "low"
Tight(o) == IF tight THEN o.util # "low" ELSE o.util = "high"

Params == [tight |-> [target |-> 2000, wakeup |-> 500],
           loose |-> [target |-> 12000, wakeup |-> 3000]]
Name(b) == IF b THEN "tight" ELSE "loose"

\* JointHeuristicPolicy: memory pressure trumps a backlog of packets.
Joint(o) ==
  IF o.memory = "critical"
    THEN [target |-> 12000, swappiness |-> 100, queue |-> 1000]
    ELSE IF o.backlog THEN [target |-> 2000, swappiness |-> 10, queue |-> 4000]
                      ELSE [target |-> 6000, swappiness |-> 60, queue |-> 1000]

Actions == Proposals \cup {Params["tight"], Params["loose"]}
             \cup {Joint(o) : o \in Observation}

-----------------------------------------------------------------------------
(* The validator.                                                          *)

Within(a, k, lo, hi) == k \in DOMAIN a => lo <= a[k] /\ a[k] <= hi
Ordered(a, lower, upper) == {lower, upper} \subseteq DOMAIN a => a[lower] <= a[upper]

\* Subsystem by subsystem.
InBounds(a) ==
  /\ Within(a, "target", 1000, 24000)
  /\ "wakeup" \in DOMAIN a => a["wakeup"] >= 100
  /\ Within(a, "migration", 0, 500000)
  /\ Within(a, "swappiness", 0, 100)
  /\ Within(a, "dirty", 0, 100)
  /\ Within(a, "background", 0, 100)
  /\ Within(a, "queue", 1, 5000)
  /\ "congestion" \in DOMAIN a => Lower[a["congestion"]] \in Allowlist

\* The largest queue needs memory telemetry that is not critical.
\* Faulty variant: no telemetry counts as healthy memory.
CriticalOnly(a, o) ==
  "queue" \in DOMAIN a /\ a["queue"] >= 5000 => o.memory # "critical"
JointlySafe(a, o) == "queue" \in DOMAIN a /\ a["queue"] >= 5000 => o.memory = "ok"

Valid(a, o) ==
  /\ InBounds(a)
  /\ Ordered(a, "wakeup", "target")
  /\ Ordered(a, "background", "dirty")
  /\ JointlySafe(a, o)

-----------------------------------------------------------------------------
(* One cycle: step().                                                      *)

Fail(kind) ==
  /\ kind \in Faults
  /\ failures < MaxFailures
  /\ failures' = failures + 1

\* A new cycle: nothing is decided yet.
Observe(o) ==
  /\ pc = "observe"
  /\ obs' = o
  /\ action' = NoAction /\ approved' = FALSE /\ error' = "none"
  /\ pc' = "decide"
  /\ UNCHANGED <<knobs, mode, heuristic, batch, told, history>>

\* The only stage whose exception leaves step().
ObserveFails ==
  /\ pc = "observe"
  /\ Fail("observe")
  /\ pc' = "dead"
  /\ UNCHANGED <<knobs, mode, heuristic, obs, verdict, batch, told, mishaps>>

\* The policy proposes a, or nothing.
Propose(a) ==
  /\ action' = a /\ error' = "none"
  /\ IF a = NoAction THEN pc' = "observe" /\ approved' = TRUE
                     ELSE pc' = "validate" /\ approved' = FALSE
  /\ UNCHANGED <<knobs, mode, obs, batch, told, history>>

\* Identical consecutive decisions are suppressed: the policy remembers what it
\* proposed, whatever becomes of it.
DecideHeuristic ==
  /\ pc = "decide" /\ policy = "heuristic"
  /\ tight' = Tight(obs)
  /\ emitted' = Name(tight')
  /\ Propose(IF emitted' = emitted THEN NoAction ELSE Params[emitted'])

DecideJoint ==
  /\ pc = "decide" /\ policy = "joint"
  /\ Propose(Joint(obs))
  /\ UNCHANGED heuristic

DecideOther ==
  /\ pc = "decide" /\ policy = "other"
  /\ \E a \in Proposals \cup {NoAction} : Propose(a)
  /\ UNCHANGED heuristic

PolicyRaises ==
  /\ pc = "decide" /\ policy = "other"
  /\ Fail("policy")
  /\ action' = NoAction /\ approved' = FALSE /\ error' = "policy"
  /\ pc' = "observe"
  /\ UNCHANGED <<knobs, mode, heuristic, obs, batch, told, mishaps>>

Validate ==
  /\ pc = "validate"
  /\ approved' = Valid(action, obs)
  /\ error' = IF approved' THEN "none" ELSE "rejected"
  /\ pc' = "apply"
  /\ UNCHANGED <<knobs, mode, heuristic, obs, action, batch, told, history>>

\* An orchestrator that forgets the validator: apply() takes approved = True by
\* default.
SkipValidator ==
  /\ pc = "validate"
  /\ Fail("skip")
  /\ approved' = TRUE /\ error' = "none"
  /\ mishaps' = mishaps \cup {"skipped"}
  /\ pc' = "apply"
  /\ UNCHANGED <<knobs, mode, heuristic, obs, action, batch, told>>

\* KernelActuator.apply: plan, or refuse.
Apply ==
  /\ pc = "apply"
  /\ IF approved /\ real /\ DOMAIN action # {}
       THEN pc' = "read" /\ todo' = DOMAIN action
       ELSE pc' = "inform" /\ UNCHANGED todo
  /\ UNCHANGED <<knobs, mode, heuristic, obs, verdict, old, changed, told, history>>

\* k is the next file of the batch.
First(k) == k \in todo /\ \A j \in todo : Rank[k] <= Rank[j]

\* What plan() renders for knob k.
Rendered(a, k) == IF k = "congestion" THEN a[k] ELSE a[k] * Scale[k]

ReadOld(k) ==
  /\ pc = "read" /\ First(k)
  /\ old' = knobs[k]
  /\ pc' = "write"
  /\ UNCHANGED <<knobs, mode, heuristic, obs, verdict, todo, changed, told, history>>

\* changed with k appended.  Faulty variant: the new value is remembered.
RememberNew(k) == [j \in DOMAIN changed \cup {k} |->
                     IF j = k THEN Rendered(action, k) ELSE changed[j]]
Remember(k) == [j \in DOMAIN changed \cup {k} |-> IF j = k THEN old ELSE changed[j]]

WriteKnob(k) ==
  /\ pc = "write" /\ First(k)
  /\ knobs' = [knobs EXCEPT ![k] = Rendered(action, k)]
  /\ todo' = todo \ {k} /\ old' = 0
  /\ IF todo' = {} THEN pc' = "inform" /\ changed' = NoChanges
                   ELSE pc' = "read" /\ changed' = Remember(k)
  /\ UNCHANGED <<mode, heuristic, obs, verdict, told, history>>

\* The file cannot be read or written, or does not exist in this kernel.
WriteFails ==
  /\ pc \in {"read", "write"}
  /\ Fail("write")
  /\ pc' = "rollback"
  /\ UNCHANGED <<knobs, mode, heuristic, obs, verdict, batch, told, mishaps>>

\* k is the last file the batch changed.
Last(k) == k \in DOMAIN changed /\ \A j \in DOMAIN changed : Rank[j] <= Rank[k]

Forget(k) == [j \in DOMAIN changed \ {k} |-> changed[j]]

PutBack(k) ==
  /\ pc = "rollback" /\ Last(k)
  /\ knobs' = [knobs EXCEPT ![k] = changed[k]]
  /\ changed' = Forget(k)
  /\ UNCHANGED <<mode, heuristic, pc, obs, verdict, todo, old, told, history>>

\* A failure to put a value back is swallowed.
PutBackFails(k) ==
  /\ pc = "rollback" /\ Last(k)
  /\ Fail("rollback")
  /\ changed' = Forget(k)
  /\ mishaps' = mishaps \cup {"not put back"}
  /\ UNCHANGED <<knobs, mode, heuristic, pc, obs, verdict, todo, old, told>>

\* What remains to be written after a rollback.  Faulty variant: the rest of the
\* batch.
Rest == todo
Abandoned == {}

\* apply() raises, step() notes the error.
RolledBack ==
  /\ pc = "rollback" /\ DOMAIN changed = {}
  /\ error' = "actuation"
  /\ todo' = Abandoned
  /\ pc' = "inform"
  /\ UNCHANGED <<knobs, mode, heuristic, obs, action, approved, old, changed, told,
                 history>>

\* A simulated monitor is told what was approved, whether it was written or not;
\* what it makes of it is one of the observations it may report.
Inform ==
  /\ pc = "inform"
  /\ told' = approved
  /\ pc' = "observe"
  /\ UNCHANGED <<knobs, mode, heuristic, obs, verdict, batch, history>>

Loop ==
  \/ \E o \in Observations : Observe(o)
  \/ DecideHeuristic \/ DecideJoint \/ DecideOther \/ Validate \/ Apply
  \/ \E k \in Knob : ReadOld(k) \/ WriteKnob(k) \/ PutBack(k)
  \/ RolledBack \/ Inform

-----------------------------------------------------------------------------
(* The environment.                                                        *)

\* After a drift alarm another policy is installed between two cycles; one of
\* the repository's policies starts afresh.
HotSwap(p) ==
  /\ pc = "observe"
  /\ p # policy
  /\ policy' = p
  /\ tight' = FALSE /\ emitted' = "none"
  /\ mishaps' = mishaps \cup {"swapped"}
  /\ UNCHANGED <<knobs, real, pc, obs, verdict, batch, told, failures>>

\* The knobs the running batch has its hands on.
InHand == DOMAIN changed \cup (IF pc = "write" THEN todo ELSE {})

AdminWrites(k, v) ==
  /\ knobs' = [knobs EXCEPT ![k] = v]
  /\ mishaps' = mishaps \cup (IF k \in InHand THEN {"contended"} ELSE {})
  /\ UNCHANGED <<mode, heuristic, pc, obs, verdict, batch, told, failures>>

\* kill -9: the files keep what was written.
Crash ==
  /\ pc # "dead"
  /\ Fail("crash")
  /\ pc' = "dead"
  /\ UNCHANGED <<knobs, mode, heuristic, obs, verdict, batch, told, mishaps>>

Environment ==
  \/ ObserveFails \/ PolicyRaises \/ SkipValidator \/ WriteFails \/ Crash
  \/ \E k \in Knob : PutBackFails(k)
  \/ \E p \in Policies : HotSwap(p)
  \/ \E o \in Admin : AdminWrites(o[1], o[2])

Next == Loop \/ Environment

Spec == Init /\ [][Next]_vars

\* step() is called again and again and nothing in it blocks; the administrator,
\* the swaps and the faults owe nothing.
FairSpec == Spec /\ WF_vars(Loop)

-----------------------------------------------------------------------------
(* Properties.                                                             *)

TypeOK ==
  /\ knobs = [k \in Knob |-> knobs[k]] /\ \A k \in Knob : knobs[k] \in Setting(k)
  /\ real \in BOOLEAN /\ policy \in Policies
  /\ tight \in BOOLEAN /\ emitted \in {"none", "tight", "loose"}
  /\ pc \in Steps /\ obs \in Observations
  /\ action \in Actions \cup {NoAction} /\ approved \in BOOLEAN
  /\ error \in {"none", "policy", "rejected", "actuation"}
  /\ todo \subseteq Knob /\ (todo # {} => pc \in {"read", "write", "rollback", "dead"})
  /\ DOMAIN changed \subseteq Knob /\ \A k \in DOMAIN changed : changed[k] \in Setting(k)
  /\ told \in BOOLEAN
  /\ failures \in 0 .. MaxFailures /\ mishaps \subseteq Mishaps

\* Settings of the kernel that do not destabilise it, in the kernel's units.
Safe(k, v) ==
  /\ k = "target" => 1000000 <= v /\ v <= 24000000
  /\ k = "wakeup" => v >= 100000
  /\ k = "migration" => 0 <= v /\ v <= 500000
  /\ k \in {"swappiness", "dirty", "background"} => 0 <= v /\ v <= 100
  /\ k = "queue" => 1 <= v /\ v <= 5000
  /\ k = "congestion" => Lower[v] \in Allowlist

SafeBatches ==
  {b \in {[k \in DOMAIN a |-> Rendered(a, k)] : a \in Actions} :
     \A k \in DOMAIN b : Safe(k, b[k])}

\* The settings once the batch under way is undone.
Effective ==
  [k \in Knob |-> IF pc # "dead" /\ k \in DOMAIN changed THEN changed[k] ELSE knobs[k]]

Disturbed == mishaps \cap {"skipped", "contended", "not put back"} # {}

Tuning == INSTANCE AtomicTuning
  WITH Batches <- SafeBatches, Start <- Initial, Owner <- Admin, settings <- Effective,
       running <- pc # "dead", disturbed <- Disturbed

\* "automatic rollback of already-written keys if a later write fails": whatever
\* fails, the files change by whole validated batches, as AtomicTuning says, until
\* the validator is skipped, a rollback fails, or somebody else writes a file that
\* a batch has in hand.
ImplementsAtomicTuning == Tuning!Spec

\* "no destabilising parameter reaches the kernel": as long as the validator is
\* asked, each file holds a setting the administrator chose or a safe one, also
\* when writes and rollbacks fail, the process dies inside a batch and the
\* administrator writes the same files.
OnlyValidated ==
  "skipped" \notin mishaps =>
    \A k \in Knob : \/ Safe(k, knobs[k])
                    \/ knobs[k] = Initial[k]
                    \/ <<k, knobs[k]>> \in Admin

\* "Cannot expand TCP/Net queues to the maximum without non-critical VM memory
\* telemetry": a batch raises the queue to 5000 only in a cycle that saw it.
FullQueueSeesMemory ==
  [][pc = "write" /\ knobs["queue"] # 5000 /\ knobs'["queue"] = 5000
       /\ <<"queue", 5000>> \notin Admin /\ "skipped" \notin mishaps
     => obs.memory = "ok"]_vars

\* What the validator guards, in a file and in a step.
ReachesOnlyValidated == []OnlyValidated /\ FullQueueSeesMemory

Tightened == knobs["target"] = 2000000 /\ knobs["wakeup"] = 500000

\* From some moment on the heuristic policy sees nothing but a busy machine.
StaysBusy == <>[](policy = "heuristic" /\ real /\ obs.util = "high")

\* "tight mode engages above ENTER_TIGHT (0.80)": if the machine stays busy and
\* no fault happens, the tight settings reach the kernel and stay.
TightModeFollows == StaysBusy /\ []<>(failures = 0) => <>[]Tightened

\* The same while "one bad cycle logs and continues", a failed write for instance.
TightModeEngages == StaysBusy => <>[]Tightened

\* "it releases only below EXIT_TIGHT (0.70) - a deadband": of a runtime that
\* keeps the heuristic policy, batches leave the tight settings only in a cycle
\* that saw an idle machine, and enter them only in one that saw a busy machine.
NoFlapping ==
  [][policy = "heuristic" /\ "swapped" \notin mishaps =>
       /\ Effective["target"] = 2000000 /\ Effective'["target"] # 2000000 => obs.util = "low"
       /\ Effective["target"] # 2000000 /\ Effective'["target"] = 2000000 => obs.util = "high"]_vars
=============================================================================
