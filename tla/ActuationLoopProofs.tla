------------------------- MODULE ActuationLoopProofs -------------------------
(***************************************************************************)
(* Proofs about ActuationLoop, for every set of observations, proposals,   *)
(* congestion controls, initial settings, administrators and faults.       *)
(***************************************************************************)
EXTENDS ActuationLoop, TLAPS

USE ObservationsAssumption, PoliciesAssumption, FaultsAssumption

-----------------------------------------------------------------------------
(* Knobs and actions.                                                      *)

\* The files plan() knows.
LEMMA KnobSet ==
  Knob = {"target", "wakeup", "migration", "swappiness", "dirty", "background", "queue",
          "congestion"}
  BY DEF Knob, Rank

\* plan() renders no two of them at the same place.
LEMMA RankOrder ==
  /\ \A k \in Knob : Rank[k] \in Nat
  /\ \A j, k \in Knob : Rank[j] = Rank[k] => j = k
  BY KnobSet DEF Rank

\* So a batch has one next file and one last file.
LEMMA OneFirst == \A j, k \in Knob : First(j) /\ First(k) /\ todo \subseteq Knob => j = k
  BY RankOrder DEF First

\* Every action a policy proposes has fields of the right types.
LEMMA ActionsTyped == \A a \in Actions : Typed(a)
<1>1. \A a \in Proposals : Typed(a)
  BY ProposalsAssumption
<1>2. Typed(Params["tight"]) /\ Typed(Params["loose"])
  BY KnobSet DEF Typed, Params, Setting
<1>3. ASSUME NEW o \in Observation PROVE Typed(Joint(o))
  BY KnobSet DEF Typed, Joint, Setting
<1> QED BY <1>1, <1>2, <1>3 DEF Actions

\* What is rendered has the type of its file.
LEMMA RenderedTyped ==
  ASSUME NEW a, Typed(a), NEW k \in DOMAIN a
  PROVE  k \in Knob /\ Rendered(a, k) \in Setting(k)
<1>1. k \in Knob /\ a[k] \in Setting(k)
  BY DEF Typed
<1>2. k # "congestion" => Scale[k] \in Int
  BY <1>1, KnobSet DEF Scale
<1> QED BY <1>1, <1>2 DEF Rendered, Setting

\* An action within the validator's bounds renders safe settings.
LEMMA BoundsAreSafe ==
  ASSUME NEW a, Typed(a), InBounds(a), NEW k \in DOMAIN a
  PROVE  Safe(k, Rendered(a, k))
<1>1. k \in Knob /\ a[k] \in Setting(k)
  BY DEF Typed
<1>2. CASE k = "congestion"
  BY <1>2 DEF Safe, Rendered, InBounds
<1>3. CASE k # "congestion"
  <2>1. a[k] \in Int /\ Rendered(a, k) = a[k] * Scale[k]
    BY <1>1, <1>3 DEF Setting, Rendered
  <2>2. CASE k = "target"
    BY <2>1, <2>2 DEF Safe, InBounds, Within, Scale
  <2>3. CASE k = "wakeup"
    BY <2>1, <2>3 DEF Safe, InBounds, Within, Scale
  <2>4. CASE k = "migration"
    BY <2>1, <2>4 DEF Safe, InBounds, Within, Scale
  <2>5. CASE k \in {"swappiness", "dirty", "background"}
    BY <2>1, <2>5 DEF Safe, InBounds, Within, Scale
  <2>6. CASE k = "queue"
    BY <2>1, <2>6 DEF Safe, InBounds, Within, Scale
  <2> QED BY <1>1, <1>3, <2>2, <2>3, <2>4, <2>5, <2>6, KnobSet
<1> QED BY <1>2, <1>3

-----------------------------------------------------------------------------
(* Types.                                                                  *)

InCycle == {"validate", "apply", "read", "write", "rollback", "inform"}

\* Once something is proposed there is an action; the files still to be written
\* are among its fields; the value just read fits the file it was read from.
TypeInv ==
  /\ TypeOK
  /\ pc \in InCycle => action \in Actions
  /\ pc \in {"read", "write"} => todo \subseteq DOMAIN action
  /\ pc = "write" => \A k \in Knob : First(k) => old \in Setting(k)

LEMMA TypeInit == Init => TypeInv
<1> SUFFICES ASSUME Init PROVE TypeInv
  OBVIOUS
<1>1. \A k \in Knob : Initial[k] \in Setting(k)
  BY MachineAssumption DEF Typed
<1>2. DOMAIN changed = {}
  BY DEF Init, NoChanges
<1>3. knobs = [k \in Knob |-> knobs[k]] /\ \A k \in Knob : knobs[k] \in Setting(k)
  BY <1>1, MachineAssumption DEF Init
<1>4. failures \in 0 .. MaxFailures
  BY DEF Init
<1> QED BY <1>2, <1>3, <1>4 DEF Init, TypeInv, TypeOK, Steps, InCycle

\* One lemma for the two ways a decision ends.
LEMMA ProposeType ==
  ASSUME TypeInv, pc = "decide", NEW a \in Actions \cup {NoAction}, Propose(a),
         tight' \in BOOLEAN, emitted' \in {"none", "tight", "loose"}
  PROVE  TypeInv'
<1> USE DEF TypeInv, TypeOK, Propose, mode, batch, history, Steps, InCycle
<1>1. CASE a = NoAction
  BY <1>1
<1>2. CASE a # NoAction
  BY <1>2
<1> QED BY <1>1, <1>2

\* Faults are counted up to their bound.
LEMMA FailType ==
  ASSUME failures \in 0 .. MaxFailures, NEW kind, Fail(kind)
  PROVE  failures' \in 0 .. MaxFailures
  BY DEF Fail

LEMMA TypeStep == TypeInv /\ [Next]_vars => TypeInv'
<1> SUFFICES ASSUME TypeInv, [Next]_vars PROVE TypeInv'
  OBVIOUS
<1> USE DEF TypeInv, TypeOK, mode, heuristic, batch, verdict, history, Steps, InCycle
<1>1. CASE \E o \in Observations : Observe(o)
  BY <1>1 DEF Observe
<1>2. CASE DecideHeuristic
  <2>1. tight' \in BOOLEAN /\ emitted' \in {"tight", "loose"}
    BY <1>2 DEF DecideHeuristic, Tight, Name
  <2>2. Params[emitted'] \in Actions
    BY <2>1 DEF Actions
  <2> QED BY <1>2, <2>1, <2>2, ProposeType DEF DecideHeuristic
<1>3. CASE DecideJoint
  <2>1. Joint(obs) \in Actions
    BY DEF Actions
  <2> QED BY <1>3, <2>1, ProposeType DEF DecideJoint
<1>4. CASE DecideOther
  BY <1>4, ProposeType DEF DecideOther, Actions
<1>5. CASE Validate
  <2>1. Valid(action, obs) \in BOOLEAN
    BY DEF Valid, InBounds, Ordered, JointlySafe, Within
  <2> QED BY <1>5, <2>1 DEF Validate
<1>6. CASE Apply
  <2>1. DOMAIN action \subseteq Knob
    BY <1>6, ActionsTyped DEF Apply, Typed
  <2>2. CASE approved /\ real /\ DOMAIN action # {}
    BY <1>6, <2>1, <2>2 DEF Apply
  <2>3. CASE ~(approved /\ real /\ DOMAIN action # {})
    BY <1>6, <2>3 DEF Apply
  <2> QED BY <2>2, <2>3
<1>7. ASSUME NEW k \in Knob, ReadOld(k) PROVE TypeInv'
  <2>1. \A j \in Knob : First(j)' => j = k
    BY <1>7, OneFirst DEF ReadOld, First
  <2> QED BY <1>7, <2>1 DEF ReadOld
<1>8. ASSUME NEW k \in Knob, WriteKnob(k) PROVE TypeInv'
  <2>1. Rendered(action, k) \in Setting(k)
    BY <1>8, ActionsTyped, RenderedTyped DEF WriteKnob, First
  <2>2. knobs' = [j \in Knob |-> knobs'[j]] /\ \A j \in Knob : knobs'[j] \in Setting(j)
    BY <1>8, <2>1 DEF WriteKnob
  <2>3. old \in Setting(k)
    BY <1>8 DEF WriteKnob
  <2>4. DOMAIN Remember(k) \subseteq Knob /\ \A j \in DOMAIN Remember(k) : Remember(k)[j] \in Setting(j)
    BY <2>3 DEF Remember
  <2>5. DOMAIN changed' \subseteq Knob /\ \A j \in DOMAIN changed' : changed'[j] \in Setting(j)
    <3>1. CASE todo' = {}
      BY <1>8, <3>1 DEF WriteKnob, NoChanges
    <3>2. CASE todo' # {}
      BY <1>8, <3>2, <2>4 DEF WriteKnob
    <3> QED BY <3>1, <3>2
  <2>6. pc' = (IF todo' = {} THEN "inform" ELSE "read") /\ pc = "write" /\ todo' = todo \ {k}
    BY <1>8 DEF WriteKnob
  <2>7. old' = 0 /\ UNCHANGED <<mode, heuristic, obs, verdict, told, history>>
    BY <1>8 DEF WriteKnob
  <2> QED BY <2>2, <2>5, <2>6, <2>7
<1>9. ASSUME NEW k \in Knob, PutBack(k) PROVE TypeInv'
  <2>1. changed[k] \in Setting(k)
    BY <1>9 DEF PutBack, Last
  <2>2. knobs' = [j \in Knob |-> knobs'[j]] /\ \A j \in Knob : knobs'[j] \in Setting(j)
    BY <1>9, <2>1 DEF PutBack
  <2>3. DOMAIN changed' \subseteq Knob /\ \A j \in DOMAIN changed' : changed'[j] \in Setting(j)
    BY <1>9 DEF PutBack, Forget
  <2> QED BY <1>9, <2>2, <2>3 DEF PutBack
<1>10. CASE RolledBack
  BY <1>10 DEF RolledBack, Abandoned
<1>11. CASE Inform
  BY <1>11 DEF Inform
<1>12. CASE ObserveFails
  BY <1>12, FailType DEF ObserveFails
<1>13. CASE PolicyRaises
  BY <1>13, FailType DEF PolicyRaises
<1>14. CASE SkipValidator
  BY <1>14, FailType DEF SkipValidator, Mishaps
<1>15. CASE WriteFails
  BY <1>15, FailType DEF WriteFails
<1>16. CASE Crash
  BY <1>16, FailType DEF Crash
<1>17. ASSUME NEW k \in Knob, PutBackFails(k) PROVE TypeInv'
  BY <1>17, FailType DEF PutBackFails, Forget, Mishaps
<1>18. ASSUME NEW p \in Policies, HotSwap(p) PROVE TypeInv'
  BY <1>18 DEF HotSwap, Mishaps
<1>19. ASSUME NEW o \in Admin, AdminWrites(o[1], o[2]) PROVE TypeInv'
  <2>1. o[1] \in Knob /\ o[2] \in Setting(o[1])
    BY MachineAssumption
  <2>2. \A k \in Knob : First(k)' = First(k)
    BY <1>19 DEF AdminWrites, First
  <2>3. mishaps' \subseteq Mishaps
    BY <1>19 DEF AdminWrites, Mishaps
  <2> QED BY <1>19, <2>1, <2>2, <2>3 DEF AdminWrites
<1>20. CASE UNCHANGED vars
  BY <1>20 DEF vars, First
<1> QED BY <1>1, <1>2, <1>3, <1>4, <1>5, <1>6, <1>7, <1>8, <1>9, <1>10, <1>11, <1>12,
           <1>13, <1>14, <1>15, <1>16, <1>17, <1>18, <1>19, <1>20
           DEF Next, Loop, Environment

\* Files, batch and verdict keep their types.
THEOREM TypeCorrect == Spec => []TypeOK
<1>1. Spec => []TypeInv
  BY TypeInit, TypeStep, PTL DEF Spec
<1>2. TypeInv => TypeOK
  BY DEF TypeInv
<1> QED BY <1>1, <1>2, PTL

-----------------------------------------------------------------------------
(* What happened is not forgotten: a promise that a mishap ends stays ended. *)

LEMMA MishapsStay == [Next]_vars => mishaps \subseteq mishaps'
<1> SUFFICES ASSUME [Next]_vars PROVE mishaps \subseteq mishaps'
  OBVIOUS
<1>1. CASE SkipValidator \/ \E k \in Knob : PutBackFails(k)
  BY <1>1 DEF SkipValidator, PutBackFails
<1>2. CASE \E p \in Policies : HotSwap(p)
  BY <1>2 DEF HotSwap
<1>3. CASE \E o \in Admin : AdminWrites(o[1], o[2])
  BY <1>3 DEF AdminWrites
<1>4. CASE UNCHANGED mishaps
  BY <1>4
<1> QED
  BY <1>1, <1>2, <1>3, <1>4
  DEF Next, Loop, Environment, Observe, ObserveFails, DecideHeuristic, DecideJoint,
      DecideOther, Propose, PolicyRaises, Validate, Apply, ReadOld, WriteKnob, WriteFails,
      PutBack, RolledBack, Inform, Crash, history, vars

-----------------------------------------------------------------------------
(* Only validated values reach the files, until a caller skips the          *)
(* validator.                                                               *)

NoSkips == "skipped" \notin mishaps

Acceptable(k, v) == Safe(k, v) \/ v = Initial[k] \/ <<k, v>> \in Admin

\* What is in the files is acceptable, and so is everything a rollback may put
\* back; what is being written was validated with the observation of this cycle.
SafeInv ==
  /\ \A k \in Knob : Acceptable(k, knobs[k])
  /\ \A k \in DOMAIN changed : Acceptable(k, changed[k])
  /\ pc = "write" => \A k \in Knob : First(k) => Acceptable(k, old)
  /\ (pc = "apply" /\ approved) \/ pc \in {"read", "write", "rollback"} => Valid(action, obs)

LEMMA SafeInit == Init => SafeInv
<1> SUFFICES ASSUME Init PROVE SafeInv
  OBVIOUS
<1>1. DOMAIN changed = {}
  BY DEF Init, NoChanges
<1> QED BY <1>1 DEF Init, SafeInv, Acceptable

LEMMA SafeStep == NoSkips' /\ TypeInv /\ SafeInv /\ [Next]_vars => SafeInv'
<1> SUFFICES ASSUME NoSkips', TypeInv, SafeInv, [Next]_vars PROVE SafeInv'
  OBVIOUS
<1> USE DEF SafeInv, mode, heuristic, batch, verdict, history
<1>1. CASE \E o \in Observations : Observe(o)
  BY <1>1 DEF Observe
<1>2. CASE DecideHeuristic
  <2>1. pc' \in {"observe", "validate"} /\ UNCHANGED <<knobs, changed>>
    BY <1>2 DEF DecideHeuristic, Propose
  <2> QED BY <2>1
<1>3. CASE DecideJoint
  <2>1. pc' \in {"observe", "validate"} /\ UNCHANGED <<knobs, changed>>
    BY <1>3 DEF DecideJoint, Propose
  <2> QED BY <2>1
<1>4. CASE DecideOther
  <2>1. pc' \in {"observe", "validate"} /\ UNCHANGED <<knobs, changed>>
    BY <1>4 DEF DecideOther, Propose
  <2> QED BY <2>1
<1>5. CASE Validate
  BY <1>5 DEF Validate
<1>6. CASE Apply
  BY <1>6 DEF Apply
<1>7. ASSUME NEW k \in Knob, ReadOld(k) PROVE SafeInv'
  <2>1. \A j \in Knob : First(j)' => j = k
    BY <1>7, OneFirst DEF ReadOld, First, TypeInv, TypeOK
  <2> QED BY <1>7, <2>1 DEF ReadOld
<1>8. ASSUME NEW k \in Knob, WriteKnob(k) PROVE SafeInv'
  <2>1. k \in DOMAIN action /\ Typed(action) /\ InBounds(action)
    BY <1>8, ActionsTyped DEF WriteKnob, First, TypeInv, InCycle, Valid
  <2>2. Acceptable(k, Rendered(action, k))
    BY <2>1, BoundsAreSafe DEF Acceptable
  <2>3. \A j \in Knob : Acceptable(j, knobs'[j])
    BY <1>8, <2>2 DEF WriteKnob, TypeInv, TypeOK
  <2>4. Acceptable(k, old)
    BY <1>8 DEF WriteKnob
  <2>5. \A j \in DOMAIN Remember(k) : Acceptable(j, Remember(k)[j])
    BY <2>4 DEF Remember
  <2>6. \A j \in DOMAIN changed' : Acceptable(j, changed'[j])
    <3>1. CASE todo' = {}
      BY <1>8, <3>1 DEF WriteKnob, NoChanges
    <3>2. CASE todo' # {}
      BY <1>8, <3>2, <2>5 DEF WriteKnob
    <3> QED BY <3>1, <3>2
  <2>7. pc' \in {"inform", "read"} /\ pc = "write" /\ UNCHANGED <<obs, action>>
    BY <1>8 DEF WriteKnob
  <2> QED BY <2>3, <2>6, <2>7
<1>9. ASSUME NEW k \in Knob, PutBack(k) PROVE SafeInv'
  <2>1. Acceptable(k, changed[k])
    BY <1>9 DEF PutBack, Last
  <2>2. \A j \in Knob : Acceptable(j, knobs'[j])
    BY <1>9, <2>1 DEF PutBack, TypeInv, TypeOK
  <2>3. \A j \in DOMAIN changed' : Acceptable(j, changed'[j])
    BY <1>9 DEF PutBack, Forget
  <2> QED BY <1>9, <2>2, <2>3 DEF PutBack
<1>10. CASE RolledBack
  BY <1>10 DEF RolledBack
<1>11. CASE Inform
  BY <1>11 DEF Inform
<1>12. CASE ObserveFails
  BY <1>12 DEF ObserveFails
<1>13. CASE PolicyRaises
  BY <1>13 DEF PolicyRaises
<1>14. CASE SkipValidator
  BY <1>14 DEF SkipValidator, NoSkips
<1>15. CASE WriteFails
  BY <1>15 DEF WriteFails
<1>16. CASE Crash
  BY <1>16 DEF Crash
<1>17. ASSUME NEW k \in Knob, PutBackFails(k) PROVE SafeInv'
  BY <1>17 DEF PutBackFails, Forget
<1>18. ASSUME NEW p \in Policies, HotSwap(p) PROVE SafeInv'
  BY <1>18 DEF HotSwap
<1>19. ASSUME NEW o \in Admin, AdminWrites(o[1], o[2]) PROVE SafeInv'
  <2>1. o[1] \in Knob /\ <<o[1], o[2]>> \in Admin
    BY MachineAssumption
  <2>2. \A k \in Knob : First(k)' = First(k)
    BY <1>19 DEF AdminWrites, First
  <2>3. \A k \in Knob : Acceptable(k, knobs'[k])
    BY <1>19, <2>1 DEF AdminWrites, Acceptable, TypeInv, TypeOK
  <2> QED BY <1>19, <2>2, <2>3 DEF AdminWrites
<1>20. CASE UNCHANGED vars
  BY <1>20 DEF vars, First
<1> QED BY <1>1, <1>2, <1>3, <1>4, <1>5, <1>6, <1>7, <1>8, <1>9, <1>10, <1>11, <1>12,
           <1>13, <1>14, <1>15, <1>16, <1>17, <1>18, <1>19, <1>20
           DEF Next, Loop, Environment

Guarded == NoSkips => SafeInv

LEMMA GuardedStep == TypeInv /\ Guarded /\ [Next]_vars => Guarded'
  BY SafeStep, MishapsStay DEF Guarded, NoSkips

LEMMA SafeAlways == Spec => [](TypeInv /\ Guarded)
<1>1. Init => TypeInv /\ Guarded
  BY TypeInit, SafeInit DEF Guarded
<1>2. TypeInv /\ Guarded /\ [Next]_vars => (TypeInv /\ Guarded)'
  BY TypeStep, GuardedStep
<1> QED BY <1>1, <1>2, PTL DEF Spec

\* Whatever a policy proposes and whatever fails, a file holds a safe value or one
\* its owner chose.
LEMMA SafeFiles == Spec => []OnlyValidated
<1>1. Guarded => OnlyValidated
  BY DEF Guarded, NoSkips, SafeInv, Acceptable, OnlyValidated
<1> QED BY <1>1, SafeAlways, PTL

\* A batch makes the queue as large as it may be only if its cycle saw memory
\* that is not critical.
LEMMA QueueSeesMemory == Spec => FullQueueSeesMemory
<1> DEFINE Grows == /\ pc = "write" /\ knobs["queue"] # 5000 /\ knobs'["queue"] = 5000
                    /\ <<"queue", 5000>> \notin Admin /\ "skipped" \notin mishaps
<1>1. TypeInv /\ Guarded /\ [Next]_vars => [Grows => obs.memory = "ok"]_vars
  <2> SUFFICES ASSUME TypeInv, SafeInv, Next, Grows PROVE obs.memory = "ok"
    BY DEF Guarded, NoSkips
  <2> USE DEF mode, heuristic, batch, verdict, history
  <2>1. CASE \E k \in Knob : WriteKnob(k)
    <3>1. PICK k \in Knob : WriteKnob(k)
      BY <2>1
    <3>2. k = "queue" /\ k \in DOMAIN action /\ Typed(action) /\ Rendered(action, k) = 5000
      BY <3>1, KnobSet, ActionsTyped DEF WriteKnob, First, TypeInv, TypeOK, InCycle
    <3>3. action["queue"] \in Int /\ action["queue"] = 5000
      BY <3>2 DEF Typed, Setting, Rendered, Scale
    <3> QED BY <3>2, <3>3 DEF SafeInv, Valid, JointlySafe
  <2>2. CASE \E o \in Admin : AdminWrites(o[1], o[2])
    <3>1. PICK o \in Admin : AdminWrites(o[1], o[2])
      BY <2>2
    <3>2. o[1] \in Knob /\ <<o[1], o[2]>> \in Admin
      BY MachineAssumption
    <3>3. o[1] = "queue" /\ o[2] = 5000
      BY <3>1, <3>2, KnobSet DEF AdminWrites, TypeInv, TypeOK
    <3> QED BY <3>2, <3>3
  <2>3. CASE \E k \in Knob : PutBack(k)
    BY <2>3 DEF PutBack
  <2>4. CASE UNCHANGED knobs
    BY <2>4
  <2> QED BY <2>1, <2>2, <2>3, <2>4 DEF Next, Loop, Environment, Observe,
       DecideHeuristic, DecideJoint, DecideOther, Propose, Validate, Apply, ReadOld,
       RolledBack, Inform, ObserveFails, PolicyRaises, SkipValidator, WriteFails, Crash,
       PutBackFails, HotSwap
<1> QED BY <1>1, SafeAlways, PTL DEF Spec, FullQueueSeesMemory

\* Whatever a policy proposes and whatever fails, until a caller skips the validator
\* no file holds an unsafe value its owner did not choose, and the queue is not made
\* as large as it may be in a cycle that did not see the memory.
THEOREM Validated == Spec => ReachesOnlyValidated
BY SafeFiles, QueueSeesMemory, PTL DEF ReachesOnlyValidated

-----------------------------------------------------------------------------
(* The settings change by whole batches, until an old value cannot be put   *)
(* back or somebody else writes a file of a running batch.                  *)

Alone == "contended" \notin mishaps

Busy == {"read", "write", "rollback"}

\* While a batch runs, the files it changed hold what it wrote, and together with
\* those still to be written they are its fields; the value just read is current.
BatchInv ==
  /\ DOMAIN changed # {} => pc \in Busy \cup {"dead"}
  /\ pc \in Busy =>
       /\ DOMAIN changed \subseteq DOMAIN action
       /\ \A k \in DOMAIN changed : knobs[k] = Rendered(action, k)
  /\ pc \in {"read", "write"} =>
       /\ DOMAIN action = todo \cup DOMAIN changed
       /\ todo \cap DOMAIN changed = {}
  /\ pc = "write" => \A k \in Knob : First(k) => old = knobs[k]

LEMMA BatchInit == Init => BatchInv
<1> SUFFICES ASSUME Init PROVE BatchInv
  OBVIOUS
<1>1. DOMAIN changed = {}
  BY DEF Init, NoChanges
<1> QED BY <1>1 DEF Init, BatchInv, Busy

LEMMA BatchStep == Alone' /\ TypeInv /\ BatchInv /\ [Next]_vars => BatchInv'
<1> SUFFICES ASSUME Alone', TypeInv, BatchInv, [Next]_vars PROVE BatchInv'
  OBVIOUS
<1> USE DEF BatchInv, Busy, mode, heuristic, batch, verdict, history
<1>1. CASE \E o \in Observations : Observe(o)
  BY <1>1 DEF Observe
<1>2. CASE DecideHeuristic \/ DecideJoint \/ DecideOther
  <2>1. pc = "decide" /\ pc' \in {"observe", "validate"} /\ UNCHANGED changed
    BY <1>2 DEF DecideHeuristic, DecideJoint, DecideOther, Propose
  <2> QED BY <2>1
<1>5. CASE Validate
  BY <1>5 DEF Validate
<1>6. CASE Apply
  BY <1>6 DEF Apply
<1>7. ASSUME NEW k \in Knob, ReadOld(k) PROVE BatchInv'
  <2>1. \A j \in Knob : First(j)' => j = k
    BY <1>7, OneFirst DEF ReadOld, First, TypeInv, TypeOK
  <2> QED BY <1>7, <2>1 DEF ReadOld, Rendered
<1>8. ASSUME NEW k \in Knob, WriteKnob(k) PROVE BatchInv'
  <2>1. k \in todo /\ pc = "write" /\ todo' = todo \ {k} /\ UNCHANGED action
    BY <1>8 DEF WriteKnob, First
  <2>2. knobs'[k] = Rendered(action, k) /\ \A j \in Knob \ {k} : knobs'[j] = knobs[j]
    BY <1>8 DEF WriteKnob, TypeInv, TypeOK
  <2>3. CASE todo' = {}
    BY <1>8, <2>3 DEF WriteKnob, NoChanges
  <2>4. CASE todo' # {}
    <3>1. DOMAIN changed' = DOMAIN changed \cup {k} /\ pc' = "read"
      BY <1>8, <2>4 DEF WriteKnob, Remember
    <3>2. \A j \in DOMAIN changed' : knobs'[j] = Rendered(action, j)
      BY <2>1, <2>2, <3>1 DEF TypeInv, TypeOK
    <3> QED BY <2>1, <3>1, <3>2 DEF Rendered
  <2> QED BY <2>3, <2>4
<1>9. ASSUME NEW k \in Knob, PutBack(k) PROVE BatchInv'
  <2>1. DOMAIN changed' = DOMAIN changed \ {k}
    BY <1>9 DEF PutBack, Forget
  <2>2. \A j \in DOMAIN changed' : knobs'[j] = knobs[j]
    BY <1>9, <2>1 DEF PutBack, TypeInv, TypeOK
  <2> QED BY <1>9, <2>1, <2>2 DEF PutBack, Rendered
<1>10. CASE RolledBack
  BY <1>10 DEF RolledBack
<1>11. CASE Inform
  BY <1>11 DEF Inform
<1>12. CASE ObserveFails
  BY <1>12 DEF ObserveFails
<1>13. CASE PolicyRaises
  BY <1>13 DEF PolicyRaises
<1>14. CASE SkipValidator
  BY <1>14 DEF SkipValidator
<1>15. CASE WriteFails
  BY <1>15 DEF WriteFails, Rendered
<1>16. CASE Crash
  BY <1>16 DEF Crash
<1>17. ASSUME NEW k \in Knob, PutBackFails(k) PROVE BatchInv'
  <2>1. DOMAIN changed' = DOMAIN changed \ {k}
    BY <1>17 DEF PutBackFails, Forget
  <2> QED BY <1>17, <2>1 DEF PutBackFails, Rendered
<1>18. ASSUME NEW p \in Policies, HotSwap(p) PROVE BatchInv'
  BY <1>18 DEF HotSwap
<1>19. ASSUME NEW o \in Admin, AdminWrites(o[1], o[2]) PROVE BatchInv'
  <2>1. o[1] \in Knob /\ o[1] \notin InHand
    BY <1>19, MachineAssumption DEF AdminWrites, Alone
  <2>2. \A k \in DOMAIN changed : knobs'[k] = knobs[k]
    BY <1>19, <2>1 DEF AdminWrites, InHand, TypeInv, TypeOK
  <2>3. pc = "write" => \A k \in todo : knobs'[k] = knobs[k]
    BY <1>19, <2>1 DEF AdminWrites, InHand, TypeInv, TypeOK
  <2>4. \A k \in Knob : First(k)' = First(k) /\ (First(k) => k \in todo)
    BY <1>19 DEF AdminWrites, First
  <2> QED BY <1>19, <2>2, <2>3, <2>4 DEF AdminWrites, Rendered
<1>20. CASE UNCHANGED vars
  BY <1>20 DEF vars, First, Rendered
<1> QED BY <1>1, <1>2, <1>5, <1>6, <1>7, <1>8, <1>9, <1>10, <1>11, <1>12,
           <1>13, <1>14, <1>15, <1>16, <1>17, <1>18, <1>19, <1>20
           DEF Next, Loop, Environment

AtomInv == TypeInv /\ Guarded /\ (Alone => BatchInv)

LEMMA AtomStep == AtomInv /\ [Next]_vars => AtomInv'
<1>1. Alone' => Alone \/ ~[Next]_vars
  BY MishapsStay DEF Alone
<1> QED BY <1>1, TypeStep, GuardedStep, BatchStep DEF AtomInv

\* The batch a valid action renders is one AtomicTuning may install.
Batch(a) == [k \in DOMAIN a |-> Rendered(a, k)]

LEMMA ValidIsSafe ==
  ASSUME NEW a \in Actions, InBounds(a) PROVE Batch(a) \in SafeBatches
<1>1. \A k \in DOMAIN Batch(a) : Safe(k, Batch(a)[k])
  BY ActionsTyped, BoundsAreSafe DEF Batch
<1>2. Batch(a) \in {[k \in DOMAIN b |-> Rendered(b, k)] : b \in Actions}
  BY DEF Batch
<1> QED BY <1>1, <1>2 DEF SafeBatches

LEMMA StartsAtInitial == Init => Tuning!Init
<1> SUFFICES ASSUME Init PROVE Tuning!Init
  OBVIOUS
<1>1. DOMAIN changed = {} /\ knobs = Initial /\ Initial = [k \in Knob |-> Initial[k]]
  BY MachineAssumption DEF Init, NoChanges
<1>2. Effective = Initial
  BY <1>1 DEF Effective
<1> QED BY <1>2 DEF Init, Tuning!Init, Disturbed

\* A step that touches neither files nor batch is a stutter.
LEMMA NoTuning ==
  ASSUME UNCHANGED <<knobs, changed>>, pc # "dead", pc' # "dead", ~Disturbed, ~Disturbed'
  PROVE  UNCHANGED Tuning!vars
  BY DEF Tuning!vars, Effective, Disturbed

\* Every step of a loop that is not disturbed is a step of AtomicTuning, or a stutter.
LEMMA UndisturbedTunes ==
  ASSUME TypeInv, SafeInv, BatchInv, ~Disturbed, ~Disturbed', [Next]_vars
  PROVE  Tuning!Next \/ UNCHANGED Tuning!vars
<1> USE DEF mode, heuristic, batch, verdict, history
<1>1. CASE \/ \E o \in Observations : Observe(o)
           \/ DecideHeuristic \/ DecideJoint \/ DecideOther \/ Validate \/ Apply
           \/ \E k \in Knob : ReadOld(k)
           \/ RolledBack \/ Inform \/ PolicyRaises \/ SkipValidator \/ WriteFails
           \/ \E p \in Policies : HotSwap(p)
  <2>1. UNCHANGED <<knobs, changed>> /\ pc # "dead" /\ pc' # "dead"
    BY <1>1 DEF Observe, DecideHeuristic, DecideJoint, DecideOther, Propose, Validate,
       Apply, ReadOld, RolledBack, Inform, PolicyRaises, SkipValidator, WriteFails, HotSwap
  <2> QED BY <2>1, NoTuning
<1>2. ASSUME NEW k \in Knob, WriteKnob(k) PROVE Tuning!Next \/ UNCHANGED Tuning!vars
  <2>1. /\ pc = "write" /\ k \in todo /\ todo' = todo \ {k} /\ action \in Actions
        /\ Valid(action, obs) /\ old = knobs[k] /\ k \notin DOMAIN changed
        /\ DOMAIN action = todo \cup DOMAIN changed
        /\ \A j \in DOMAIN changed : knobs[j] = Rendered(action, j)
    BY <1>2 DEF WriteKnob, First, TypeInv, SafeInv, BatchInv, InCycle, Busy
  <2>2. knobs'[k] = Rendered(action, k) /\ \A j \in Knob \ {k} : knobs'[j] = knobs[j]
    BY <1>2 DEF WriteKnob, TypeInv, TypeOK
  <2>3. CASE todo' = {}
    <3>1. pc' = "inform" /\ DOMAIN changed' = {}
      BY <1>2, <2>3 DEF WriteKnob, NoChanges
    <3>2. DOMAIN action = DOMAIN changed \cup {k} /\ DOMAIN Effective = Knob
      BY <2>1, <2>3 DEF Effective
    <3>3. \A j \in Knob : Effective'[j] = IF j \in DOMAIN action THEN Rendered(action, j)
                                                               ELSE Effective[j]
      BY <2>1, <2>2, <3>1, <3>2 DEF Effective
    <3>4. DOMAIN Batch(action) = DOMAIN action /\ \A j \in DOMAIN action : Batch(action)[j] = Rendered(action, j)
      BY DEF Batch
    <3>5. Effective' = [j \in Knob |-> Effective'[j]]
      BY DEF Effective
    <3>6. Effective' = [j \in DOMAIN Effective |->
                          IF j \in DOMAIN Batch(action) THEN Batch(action)[j] ELSE Effective[j]]
      BY <3>2, <3>3, <3>4, <3>5
    <3>7. Batch(action) \in SafeBatches
      BY <2>1, ValidIsSafe DEF Valid
    <3> QED BY <2>1, <3>1, <3>6, <3>7 DEF Tuning!Next, Tuning!Tune, Tuning!With, Disturbed
  <2>4. CASE todo' # {}
    <3>1. pc' = "read" /\ changed' = Remember(k)
      BY <1>2, <2>4 DEF WriteKnob
    <3>2. \A j \in Knob : (IF j \in DOMAIN changed' THEN changed'[j] ELSE knobs'[j])
                            = (IF j \in DOMAIN changed THEN changed[j] ELSE knobs[j])
      BY <2>1, <2>2, <3>1 DEF Remember
    <3>3. Effective' = Effective
      BY <2>1, <3>1, <3>2 DEF Effective
    <3> QED BY <2>1, <3>1, <3>3 DEF Tuning!vars, Disturbed
  <2> QED BY <2>3, <2>4
<1>3. ASSUME NEW k \in Knob, PutBack(k) PROVE Tuning!Next \/ UNCHANGED Tuning!vars
  <2>1. pc = "rollback" /\ pc' = "rollback" /\ k \in DOMAIN changed /\ changed' = Forget(k)
    BY <1>3 DEF PutBack, Last
  <2>2. knobs'[k] = changed[k] /\ \A j \in Knob \ {k} : knobs'[j] = knobs[j]
    BY <1>3 DEF PutBack, TypeInv, TypeOK
  <2>3. \A j \in Knob : (IF j \in DOMAIN changed' THEN changed'[j] ELSE knobs'[j])
                          = (IF j \in DOMAIN changed THEN changed[j] ELSE knobs[j])
    BY <2>1, <2>2 DEF Forget
  <2>4. Effective' = Effective
    BY <2>1, <2>3 DEF Effective
  <2> QED BY <2>1, <2>4 DEF Tuning!vars, Disturbed
<1>4. ASSUME NEW k \in Knob, PutBackFails(k) PROVE Tuning!Next \/ UNCHANGED Tuning!vars
  BY <1>4 DEF PutBackFails, Disturbed
<1>5. CASE ObserveFails \/ Crash
  <2>1. pc # "dead" /\ pc' = "dead" /\ UNCHANGED <<knobs, changed>>
    BY <1>5 DEF ObserveFails, Crash
  <2>2. Effective' = knobs /\ DOMAIN Effective = Knob
    <3>1. knobs = [k \in Knob |-> knobs[k]]
      BY DEF TypeInv, TypeOK
    <3> QED BY <2>1, <3>1 DEF Effective
  <2>3. CASE DOMAIN changed = {}
    <3>1. Effective' = Effective
      BY <2>1, <2>3 DEF Effective
    <3> QED BY <2>1, <3>1 DEF Tuning!Next, Tuning!Stop, Disturbed
  <2>4. CASE DOMAIN changed # {}
    <3>1. /\ pc \in Busy /\ action \in Actions /\ InBounds(action)
          /\ DOMAIN changed \in SUBSET DOMAIN action
          /\ \A j \in DOMAIN changed : knobs[j] = Rendered(action, j)
      BY <2>1, <2>4 DEF TypeInv, SafeInv, BatchInv, InCycle, Busy, Valid
    <3> DEFINE P == [j \in DOMAIN changed |-> Batch(action)[j]]
    <3>2. DOMAIN P = DOMAIN changed /\ \A j \in DOMAIN changed : P[j] = knobs[j]
      BY <3>1 DEF Batch
    <3>3. \A j \in Knob : knobs[j] = IF j \in DOMAIN P THEN P[j] ELSE Effective[j]
      BY <3>2 DEF Effective
    <3> HIDE DEF P
    <3>4. Effective' = [j \in DOMAIN Effective |-> IF j \in DOMAIN P THEN P[j] ELSE Effective[j]]
      <4>1. knobs = [j \in Knob |-> IF j \in DOMAIN P THEN P[j] ELSE Effective[j]]
        <5>1. DOMAIN knobs = Knob /\ knobs = [j \in Knob |-> knobs[j]]
          BY DEF TypeInv, TypeOK
        <5> QED BY <5>1, <3>3
      <4> QED BY <2>2, <4>1
    <3>5. DOMAIN Batch(action) = DOMAIN action /\ Batch(action) \in SafeBatches
      BY <3>1, ValidIsSafe DEF Batch
    <3>6. Tuning!Part(Batch(action), DOMAIN changed) = P
      BY DEF Tuning!Part, P
    <3>7. Effective' = Tuning!With(Tuning!Part(Batch(action), DOMAIN changed))
      BY <3>4, <3>6 DEF Tuning!With
    <3> QED BY <2>1, <3>1, <3>5, <3>7 DEF Tuning!Next, Tuning!Stop, Disturbed
  <2> QED BY <2>3, <2>4
<1>6. ASSUME NEW o \in Admin, AdminWrites(o[1], o[2])
      PROVE  Tuning!Next \/ UNCHANGED Tuning!vars
  <2>1. o[1] \in Knob /\ o[1] \notin DOMAIN changed /\ UNCHANGED <<pc, changed>>
    BY <1>6, MachineAssumption DEF AdminWrites, InHand, Disturbed
  <2>2. knobs'[o[1]] = o[2] /\ \A j \in Knob \ {o[1]} : knobs'[j] = knobs[j]
    BY <1>6, <2>1 DEF AdminWrites, TypeInv, TypeOK
  <2>3. Effective' = [Effective EXCEPT ![o[1]] = o[2]]
    BY <2>1, <2>2 DEF Effective
  <2> QED BY <2>1, <2>3 DEF Tuning!Next, Tuning!Set, Disturbed
<1>7. CASE UNCHANGED vars
  <2>1. UNCHANGED <<knobs, changed, pc>>
    BY <1>7 DEF vars
  <2> QED BY <2>1 DEF Tuning!vars, Effective, Disturbed
<1> QED BY <1>1, <1>2, <1>3, <1>4, <1>5, <1>6, <1>7 DEF Next, Loop, Environment

LEMMA StepTunes == AtomInv /\ [Next]_vars => [Tuning!Next]_(Tuning!vars)
<1> SUFFICES ASSUME AtomInv, [Next]_vars PROVE Tuning!Next \/ UNCHANGED Tuning!vars
  OBVIOUS
<1>1. CASE Disturbed'
  BY <1>1 DEF Tuning!Next, Tuning!Disturbed
<1>2. CASE ~Disturbed'
  <2>1. ~Disturbed /\ Alone /\ NoSkips
    BY <1>2, MishapsStay DEF Disturbed, Alone, NoSkips
  <2> QED BY <1>2, <2>1, UndisturbedTunes DEF AtomInv, Guarded
<1> QED BY <1>1, <1>2

\* Until the validator is skipped, an old value cannot be put back, or somebody
\* else writes a file a batch has in hand, the kernel's settings change by whole
\* safe batches, and a killed process leaves at most a part of one.
THEOREM Implementation == Spec => ImplementsAtomicTuning
<1>1. Init => AtomInv /\ Tuning!Init
  BY TypeInit, SafeInit, BatchInit, StartsAtInitial DEF AtomInv, Guarded
<1>2. AtomInv /\ [Next]_vars => AtomInv'
  BY AtomStep
<1>3. AtomInv /\ [Next]_vars => [Tuning!Next]_(Tuning!vars)
  BY StepTunes
<1> QED BY <1>1, <1>2, <1>3, PTL DEF Spec, ImplementsAtomicTuning, Tuning!Spec

-----------------------------------------------------------------------------
(* The deadband: what the heuristic policy remembers and what a cycle saw   *)
(* decide when the tight settings come and go, whatever fails on the way.   *)

OnlyHeuristic == policy = "heuristic" /\ "swapped" \notin mishaps
TargetIsLoops == Initial["target"] # 2000000 /\ \A o \in Admin : o[1] # "target"

\* Neither the file nor what a rollback puts back is the tight target.
Untight ==
  knobs["target"] # 2000000 /\ ("target" \in DOMAIN changed => changed["target"] # 2000000)

\* Before the first decision the target is not the tight one; then the policy
\* remembers its mode.  A batch is the tight one in a cycle that saw a busy machine;
\* it is the loose one in a cycle that saw an idle machine, or it is the first.
\* What the batch does to the target is as BatchInv says, whoever writes the rest.
FlapInv ==
  /\ emitted = "none" => ~tight /\ Untight /\ pc \in {"observe", "decide", "dead"}
  /\ emitted # "none" => emitted = Name(tight)
  /\ DOMAIN changed # {} => pc \in Busy \cup {"dead"}
  /\ pc \in InCycle =>
       \/ action = Params["tight"] /\ obs.util = "high"
       \/ action = Params["loose"] /\ (obs.util = "low" \/ Untight)
  /\ pc \in Busy /\ "target" \in DOMAIN changed
       => knobs["target"] = Rendered(action, "target")
  /\ pc \in {"read", "write"} /\ "target" \in todo => "target" \notin DOMAIN changed
  /\ pc = "write" /\ First("target") => old = knobs["target"]

LEMMA FlapInit == ASSUME TargetIsLoops PROVE Init => FlapInv
<1> SUFFICES ASSUME Init PROVE FlapInv
  OBVIOUS
<1>1. DOMAIN changed = {}
  BY DEF Init, NoChanges
<1> QED BY <1>1 DEF Init, FlapInv, Busy, InCycle, TargetIsLoops, Untight

LEMMA TargetRendered ==
  /\ Rendered(Params["tight"], "target") = 2000000
  /\ Rendered(Params["loose"], "target") = 12000000
  BY DEF Rendered, Params, Scale

\* The two thresholds: only a busy machine makes the mode tight, only an idle one
\* ends it.
LEMMA DecideKeepsFlap ==
  ASSUME TypeInv, FlapInv, DecideHeuristic
  PROVE  FlapInv'
<1>1. /\ tight' = Tight(obs) /\ emitted' = Name(tight') /\ pc = "decide"
      /\ UNCHANGED <<knobs, obs, changed, todo, old>>
      /\ \/ pc' = "observe"
         \/ pc' = "validate" /\ emitted' # emitted /\ action' = Params[emitted']
  BY DEF DecideHeuristic, Propose, batch
<1>2. DOMAIN changed = {}
  BY <1>1 DEF FlapInv, Busy
<1>3. tight \in BOOLEAN /\ tight' \in BOOLEAN
  BY <1>1 DEF TypeInv, TypeOK, Tight
<1>4. CASE tight'
  <2>1. emitted' = "tight"
    BY <1>1, <1>4 DEF Name
  <2>2. emitted # "tight" => obs.util = "high"
    <3>1. emitted # "tight" => ~tight
      BY <1>3 DEF FlapInv, Name
    <3> QED BY <1>1, <1>4, <3>1 DEF Tight
  <2> QED BY <1>1, <1>2, <2>1, <2>2, <1>4 DEF FlapInv, Busy, InCycle, Name
<1>5. CASE ~tight'
  <2>1. emitted' = "loose"
    BY <1>1, <1>5 DEF Name
  <2>2. emitted = "tight" => obs.util = "low"
    <3>1. emitted = "tight" => tight
      BY <1>3 DEF FlapInv, Name
    <3> QED BY <1>1, <1>5, <3>1 DEF Tight
  <2>3. emitted # "loose" => obs.util = "low" \/ Untight
    BY <2>2 DEF FlapInv, TypeInv, TypeOK
  <2>4. Untight' = Untight
    BY <1>1 DEF Untight
  <2> QED BY <1>1, <1>2, <2>1, <2>3, <2>4, <1>5 DEF FlapInv, Busy, InCycle, Name
<1> QED BY <1>3, <1>4, <1>5

\* A batch's own writes: the target is written once, and remembered as it was.
LEMMA WriteKeepsFlap ==
  ASSUME TypeInv, FlapInv, NEW k \in Knob, WriteKnob(k)
  PROVE  FlapInv'
<1>1. /\ pc = "write" /\ First(k) /\ k \in todo /\ todo' = todo \ {k}
      /\ UNCHANGED <<tight, emitted, obs, action>>
      /\ pc' \in {"inform", "read"}
  BY DEF WriteKnob, First, heuristic, verdict
<1>2. knobs'[k] = Rendered(action, k) /\ \A j \in Knob \ {k} : knobs'[j] = knobs[j]
  BY DEF WriteKnob, TypeInv, TypeOK
<1>3. "target" \in Knob /\ emitted # "none"
  BY <1>1, KnobSet DEF FlapInv
<1>4. \/ pc' = "inform" /\ DOMAIN changed' = {}
      \/ /\ pc' = "read" /\ DOMAIN changed' = DOMAIN changed \cup {k}
         /\ \A j \in DOMAIN changed' : changed'[j] = IF j = k THEN old ELSE changed[j]
  BY DEF WriteKnob, NoChanges, Remember
<1>5. "target" \in DOMAIN changed' /\ pc' = "read" => knobs'["target"] = Rendered(action, "target")
  BY <1>1, <1>2, <1>3, <1>4 DEF FlapInv, Busy
<1>6. action = Params["loose"] /\ Untight => Untight'
  <2> SUFFICES ASSUME action = Params["loose"], Untight PROVE Untight'
    OBVIOUS
  <2>1. knobs'["target"] # 2000000
    BY <1>2, <1>3, TargetRendered DEF Untight
  <2>2. "target" \in DOMAIN changed' => changed'["target"] # 2000000
    BY <1>1, <1>3, <1>4 DEF Untight, FlapInv
  <2> QED BY <2>1, <2>2 DEF Untight
<1>7. "target" \in todo' => "target" \notin DOMAIN changed'
  BY <1>1, <1>4 DEF FlapInv
<1>8. \/ action = Params["loose"] /\ (obs.util = "low" \/ Untight)
      \/ action = Params["tight"] /\ obs.util = "high"
  BY <1>1 DEF FlapInv, InCycle
<1>9. Rendered(action', "target") = Rendered(action, "target")
  BY <1>1 DEF Rendered
<1> QED BY <1>1, <1>3, <1>4, <1>5, <1>6, <1>7, <1>8, <1>9 DEF FlapInv, Busy, InCycle

LEMMA FlapStep ==
  ASSUME OnlyHeuristic, OnlyHeuristic', TargetIsLoops, TypeInv, FlapInv, [Next]_vars
  PROVE  FlapInv'
<1>0. policy = "heuristic"
  BY DEF OnlyHeuristic
<1> USE DEF mode, heuristic, batch, verdict, history
<1>1. CASE \E o \in Observations : Observe(o)
  BY <1>1 DEF Observe, FlapInv, Busy, InCycle, Untight
<1>2. CASE DecideHeuristic
  BY <1>2, DecideKeepsFlap
<1>3. CASE DecideJoint \/ DecideOther \/ PolicyRaises
  BY <1>0, <1>3 DEF DecideJoint, DecideOther, PolicyRaises
<1>4. CASE Validate \/ SkipValidator \/ Apply
  BY <1>4 DEF Validate, SkipValidator, Apply, FlapInv, Busy, InCycle, Untight
<1>5. ASSUME NEW k \in Knob, ReadOld(k) PROVE FlapInv'
  <2>1. "target" \in Knob
    BY KnobSet
  <2>2. First("target")' => k = "target"
    BY <1>5, <2>1, OneFirst DEF ReadOld, First, TypeInv, TypeOK
  <2>3. Rendered(action', "target") = Rendered(action, "target")
    BY <1>5 DEF ReadOld, Rendered
  <2> QED BY <1>5, <2>2, <2>3 DEF ReadOld, FlapInv, Busy, InCycle, Untight
<1>6. ASSUME NEW k \in Knob, WriteKnob(k) PROVE FlapInv'
  BY <1>6, WriteKeepsFlap
<1>7. ASSUME NEW k \in Knob, PutBack(k) PROVE FlapInv'
  <2>1. /\ pc = "rollback" /\ k \in DOMAIN changed /\ DOMAIN changed' = DOMAIN changed \ {k}
        /\ \A j \in DOMAIN changed' : changed'[j] = changed[j]
        /\ UNCHANGED <<tight, emitted, pc, obs, action, todo, old>>
    BY <1>7 DEF PutBack, Last, Forget
  <2>2. knobs'[k] = changed[k] /\ \A j \in Knob \ {k} : knobs'[j] = knobs[j]
    BY <1>7 DEF PutBack, TypeInv, TypeOK
  <2>3. Rendered(action', "target") = Rendered(action, "target") /\ "target" \in Knob
    BY <2>1, KnobSet DEF Rendered
  <2>4. Untight => Untight'
    BY <2>1, <2>2, <2>3 DEF Untight
  <2> QED BY <2>1, <2>2, <2>3, <2>4 DEF FlapInv, Busy, InCycle
<1>8. ASSUME NEW k \in Knob, PutBackFails(k) PROVE FlapInv'
  <2>1. /\ pc = "rollback" /\ DOMAIN changed' = DOMAIN changed \ {k}
        /\ \A j \in DOMAIN changed' : changed'[j] = changed[j]
        /\ UNCHANGED <<knobs, tight, emitted, pc, obs, action, todo, old>>
    BY <1>8 DEF PutBackFails, Forget
  <2>2. Rendered(action', "target") = Rendered(action, "target")
    BY <2>1 DEF Rendered
  <2>3. Untight => Untight'
    BY <2>1 DEF Untight
  <2> QED BY <2>1, <2>2, <2>3 DEF FlapInv, Busy, InCycle
<1>9. CASE RolledBack \/ Inform
  BY <1>9 DEF RolledBack, Abandoned, Inform, FlapInv, Busy, InCycle, Untight
<1>10. CASE WriteFails
  <2>1. Rendered(action', "target") = Rendered(action, "target")
    BY <1>10 DEF WriteFails, Rendered
  <2> QED BY <1>10, <2>1 DEF WriteFails, FlapInv, Busy, InCycle, Untight
<1>11. CASE ObserveFails \/ Crash
  BY <1>11 DEF ObserveFails, Crash, FlapInv, Busy, InCycle, Untight
<1>12. ASSUME NEW p \in Policies, HotSwap(p) PROVE FlapInv'
  BY <1>12 DEF HotSwap, OnlyHeuristic
<1>13. ASSUME NEW o \in Admin, AdminWrites(o[1], o[2]) PROVE FlapInv'
  <2>1. o[1] \in Knob \ {"target"} /\ "target" \in Knob
    BY MachineAssumption, KnobSet DEF TargetIsLoops
  <2>2. knobs'["target"] = knobs["target"]
    BY <1>13, <2>1 DEF AdminWrites, TypeInv, TypeOK
  <2>3. /\ Rendered(action', "target") = Rendered(action, "target")
        /\ First("target")' = First("target")
    BY <1>13 DEF AdminWrites, Rendered, First
  <2> QED BY <1>13, <2>2, <2>3 DEF AdminWrites, FlapInv, Untight, Busy, InCycle
<1>14. CASE UNCHANGED vars
  <2>1. Rendered(action', "target") = Rendered(action, "target")
        /\ First("target")' = First("target")
    BY <1>14 DEF vars, Rendered, First
  <2> QED BY <1>14, <2>1 DEF vars, FlapInv, Untight, Busy, InCycle
<1> QED BY <1>1, <1>2, <1>3, <1>4, <1>5, <1>6, <1>7, <1>8, <1>9, <1>10, <1>11, <1>12,
           <1>13, <1>14 DEF Next, Loop, Environment

\* What one step may do to the target: nothing, or what the cycle's batch is for.
Flaps ==
  \/ Effective["target"] = 2000000 /\ Effective'["target"] # 2000000 /\ obs.util # "low"
  \/ Effective["target"] # 2000000 /\ Effective'["target"] = 2000000 /\ obs.util # "high"

LEMMA NoStepFlaps ==
  ASSUME OnlyHeuristic, TargetIsLoops, TypeInv, FlapInv, Next
  PROVE  ~Flaps
<1> DEFINE value == IF pc # "dead" /\ "target" \in DOMAIN changed
                    THEN changed["target"] ELSE knobs["target"]
<1>0. "target" \in Knob
  BY KnobSet
<1>1. Effective["target"] = value /\ Effective'["target"] = value'
  BY <1>0 DEF Effective
<1> USE DEF mode, heuristic, batch, verdict, history
\* While a batch is under way it is the tight one or the loose one; the target
\* is then as it was, or as the batch has it.
<1>2. ASSUME pc \in Busy, \/ value' = value
                          \/ value' = Rendered(action, "target")
      PROVE  ~Flaps
  <2>1. CASE action = Params["tight"] /\ obs.util = "high"
    <3>1. value' = value \/ value' = 2000000
      BY <1>2, <2>1, TargetRendered
    <3> QED BY <1>1, <2>1, <3>1 DEF Flaps
  <2>2. CASE action = Params["loose"] /\ (obs.util = "low" \/ Untight)
    <3>1. value' = value \/ value' = 12000000
      BY <1>2, <2>2, TargetRendered
    <3>2. Untight => value # 2000000
      BY DEF Untight
    <3> QED BY <1>1, <2>2, <3>1, <3>2 DEF Flaps
  <2> QED BY <1>2, <2>1, <2>2 DEF FlapInv, Busy, InCycle
<1>3. ASSUME NEW k \in Knob, WriteKnob(k) PROVE ~Flaps
  <2>1. /\ pc = "write" /\ First(k) /\ k \in todo /\ pc' # "dead"
    BY <1>3 DEF WriteKnob, First
  <2>2. knobs'[k] = Rendered(action, k) /\ \A j \in Knob \ {k} : knobs'[j] = knobs[j]
    BY <1>3 DEF WriteKnob, TypeInv, TypeOK
  <2>3. \/ DOMAIN changed' = {}
        \/ /\ DOMAIN changed' = DOMAIN changed \cup {k}
           /\ \A j \in DOMAIN changed' : changed'[j] = IF j = k THEN old ELSE changed[j]
    BY <1>3 DEF WriteKnob, NoChanges, Remember
  <2>4. value' = value \/ value' = Rendered(action, "target")
    BY <1>0, <2>1, <2>2, <2>3 DEF FlapInv, Busy
  <2> QED BY <1>2, <2>1, <2>4 DEF Busy
<1>4. ASSUME NEW k \in Knob, PutBack(k) PROVE ~Flaps
  <2>1. /\ pc = "rollback" /\ pc' = pc /\ k \in DOMAIN changed
        /\ DOMAIN changed' = DOMAIN changed \ {k}
        /\ \A j \in DOMAIN changed' : changed'[j] = changed[j]
    BY <1>4 DEF PutBack, Last, Forget
  <2>2. knobs'[k] = changed[k] /\ \A j \in Knob \ {k} : knobs'[j] = knobs[j]
    BY <1>4 DEF PutBack, TypeInv, TypeOK
  <2>3. value' = value
    BY <1>0, <2>1, <2>2
  <2> QED BY <1>1, <2>3 DEF Flaps
<1>5. ASSUME NEW k \in Knob, PutBackFails(k) PROVE ~Flaps
  <2>1. /\ pc = "rollback" /\ pc' = pc /\ knobs' = knobs
        /\ DOMAIN changed' = DOMAIN changed \ {k}
        /\ \A j \in DOMAIN changed' : changed'[j] = changed[j]
    BY <1>5 DEF PutBackFails, Forget
  <2>2. value' = value \/ value' = Rendered(action, "target")
    BY <1>0, <2>1 DEF FlapInv, Busy
  <2> QED BY <1>2, <2>1, <2>2 DEF Busy
<1>6. CASE ObserveFails \/ Crash
  <2>1. /\ pc # "dead" /\ pc' = "dead" /\ knobs' = knobs /\ changed' = changed
    BY <1>6 DEF ObserveFails, Crash
  <2>2. CASE "target" \in DOMAIN changed
    <3>1. pc \in Busy /\ value' = Rendered(action, "target")
      BY <2>1, <2>2 DEF FlapInv
    <3> QED BY <1>2, <3>1
  <2>3. CASE "target" \notin DOMAIN changed
    BY <1>1, <2>1, <2>3 DEF Flaps
  <2> QED BY <2>2, <2>3
<1>7. ASSUME NEW o \in Admin, AdminWrites(o[1], o[2]) PROVE ~Flaps
  <2>1. o[1] \in Knob \ {"target"}
    BY MachineAssumption DEF TargetIsLoops
  <2>2. knobs'["target"] = knobs["target"] /\ changed' = changed /\ pc' = pc
    BY <1>0, <1>7, <2>1 DEF AdminWrites, TypeInv, TypeOK
  <2> QED BY <1>1, <2>2 DEF Flaps
<1>8. CASE UNCHANGED <<knobs, changed>> /\ pc # "dead" /\ pc' # "dead"
  BY <1>1, <1>8 DEF Flaps
<1>9. \/ \E o \in Observations : Observe(o)
      \/ DecideHeuristic \/ DecideJoint \/ DecideOther \/ Validate \/ Apply
      \/ \E k \in Knob : ReadOld(k)
      \/ RolledBack \/ Inform \/ PolicyRaises \/ SkipValidator \/ WriteFails
      \/ \E p \in Policies : HotSwap(p)
      => UNCHANGED <<knobs, changed>> /\ pc # "dead" /\ pc' # "dead"
  BY DEF Observe, DecideHeuristic, DecideJoint, DecideOther, Propose, Validate,
     Apply, ReadOld, RolledBack, Inform, PolicyRaises, SkipValidator, WriteFails, HotSwap
<1> HIDE DEF value
<1> QED BY <1>3, <1>4, <1>5, <1>6, <1>7, <1>8, <1>9, Zenon DEF Next, Loop, Environment

\* Before the policy is swapped, a heuristic one was there from the start.
Deadband == OnlyHeuristic => FlapInv

LEMMA DeadbandStep ==
  ASSUME TargetIsLoops, TypeInv, Deadband, [Next]_vars
  PROVE  Deadband'
<1>1. OnlyHeuristic' => OnlyHeuristic
  <2>1. CASE \E p \in Policies : HotSwap(p)
    BY <2>1 DEF HotSwap, OnlyHeuristic
  <2>2. CASE policy' = policy
    BY <2>2, MishapsStay DEF OnlyHeuristic
  <2> QED
    BY <2>1, <2>2
    DEF Next, Loop, Environment, Observe, ObserveFails, DecideHeuristic, DecideJoint,
        DecideOther, Propose, PolicyRaises, Validate, SkipValidator, Apply, ReadOld,
        WriteKnob, WriteFails, PutBack, PutBackFails, RolledBack, Inform, AdminWrites,
        Crash, mode, vars
<1> QED BY <1>1, FlapStep DEF Deadband

\* As long as the policy is the heuristic one it began with, on a machine whose
\* target only the runtime sets, nothing flaps: whatever writes and rollbacks fail,
\* is skipped or dies, the tight target comes only in a cycle that saw a busy
\* machine and goes only in one that saw an idle machine.
THEOREM DeadbandHolds == ASSUME TargetIsLoops PROVE Spec => NoFlapping
<1>1. Init => TypeInv /\ Deadband
  BY TypeInit, FlapInit DEF Deadband
<1>2. TypeInv /\ Deadband /\ [Next]_vars => (TypeInv /\ Deadband)'
  BY TypeStep, DeadbandStep
<1>3. TypeInv /\ Deadband /\ [Next]_vars => [OnlyHeuristic => ~Flaps]_vars
  BY NoStepFlaps DEF Deadband
<1>4. (OnlyHeuristic => ~Flaps) =>
      (policy = "heuristic" /\ "swapped" \notin mishaps =>
      /\ Effective["target"] = 2000000 /\ Effective'["target"] # 2000000 => obs.util = "low"
      /\ Effective["target"] # 2000000 /\ Effective'["target"] = 2000000 => obs.util = "high")
  BY DEF Flaps, OnlyHeuristic
<1> QED BY <1>1, <1>2, <1>3, <1>4, PTL DEF Spec, NoFlapping

=============================================================================
