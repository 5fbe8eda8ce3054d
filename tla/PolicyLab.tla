----------------------------- MODULE PolicyLab -----------------------------
(***************************************************************************)
(* The policy laboratory: compiler/self_compiler/policy_lab.py with the    *)
(* differential gate of differential.py.                                   *)
(*                                                                         *)
(* A lab builds the program once with plain GCC, once with the plugin and  *)
(* no policy (the control), and once per policy; samples the binaries in   *)
(* rotating order; ranks the policies against the control; compares the    *)
(* winner with the control over seeded inputs; and promotes it by writing  *)
(* best.policy.  Everything is told in evidence.jsonl.  Labs follow one    *)
(* another in one output directory, which nobody empties.                  *)
(*                                                                         *)
(* Choices: what GCC and the binaries do, what was measured, what fails.   *)
(***************************************************************************)
EXTENDS Integers, SequencesExt, FiniteSets

CONSTANTS
  Policies,     \* the policies, in the order of their specs
  Runs,         \* measured cycles
  Warmups,      \* cycles before them
  Trials,       \* differential cases when the gate is on
  Margin,       \* min_improvement
  MaxLabs,      \* bound on the labs in the directory
  MaxTrouble    \* bound on what goes wrong in builds, runs and cases

\* _default_specs: plain GCC, the control, and a spec per policy.
Baseline == "gcc-baseline"
Control  == "plugin-control"
Specs    == <<Baseline, Control>> \o Policies
Nobody   == "nobody"

\* A policy is called "disable-" and its pass, or "custom-" and its file; names that
\* are not unique are refused, and so are fewer than three runs.
ASSUME PoliciesAssumption ==
  /\ Policies \in Seq(Range(Policies)) /\ IsInjective(Policies)
  /\ Range(Policies) \cap {Baseline, Control, Nobody} = {}
ASSUME BoundsAssumption ==
  {Runs, Warmups, Trials, Margin, MaxLabs, MaxTrouble} \subseteq Nat /\ Runs >= 3

VARIABLES
  evidence,   \* evidence.jsonl
  best,       \* best.policy: whose text it holds, and of which lab
  telemetry,  \* the specs whose telemetry file tells of a gated pass
  lab,        \* the number of the lab
  at,         \* where it stands; "idle": it returned, "stopped": it was cut short
  code,       \* what main returned
  opt,        \* objective, check_reproducible and whether the gate is on
  todo,       \* the specs still to be built, sampled or built again
  cycle,      \* the sampling cycle, warmups included
  lines,      \* evidence_lines
  binaries,   \* the specs that were built
  gated,      \* those with gate_events > 0
  samples,    \* of every spec, the cycles its samples were taken in
  outputs,    \* its first output, or "none"
  errors,     \* the specs that failed a run
  winner,     \* the policy rank_improving chose, or Nobody
  cases,      \* the differential cases compared so far
  active,     \* the policies that did gate a pass in this lab's build
  trouble     \* how much went wrong so far

directory == <<evidence, best, telemetry>>
building  == <<binaries, gated, active>>
sampling  == <<samples, outputs, errors>>
vars == <<directory, lab, at, code, opt, todo, cycle, lines, building, sampling,
          winner, cases, trouble>>

\* A line of the evidence: what it is about and what it says.
Event(e, about, says) == [event |-> e, about |-> about, says |-> says]
Decision(w, says) == Event("decision", w, says)
NoPolicy == [of |-> Nobody, lab |-> 0]

Init ==
  /\ evidence = <<>> /\ best = NoPolicy /\ telemetry = {}
  /\ lab = 0 /\ at = "idle" /\ code = 0
  /\ opt = [objective |-> "runtime", repro |-> FALSE, gate |-> TRUE]
  /\ todo = <<>> /\ cycle = 0 /\ lines = <<>>
  /\ binaries = {} /\ gated = {} /\ active = {}
  /\ samples = [s \in Range(Specs) |-> <<>>]
  /\ outputs = [s \in Range(Specs) |-> "none"] /\ errors = {}
  /\ winner = Nobody /\ cases = <<>> /\ trouble = 0

-----------------------------------------------------------------------------
(* Starting and building.                                                  *)

Between == at \in {"idle", "stopped"}

\* A parameter is out of range, a source is missing, a policy repeats another.
Refuse ==
  /\ Between /\ lab < MaxLabs
  /\ lab' = lab + 1 /\ code' = 2 /\ at' = "stopped"
  /\ UNCHANGED <<directory, opt, todo, cycle, lines, building, sampling,
                 winner, cases, trouble>>

Start(o) ==
  /\ Between /\ lab < MaxLabs
  /\ lab' = lab + 1 /\ at' = "build" /\ opt' = o
  /\ todo' = Specs /\ cycle' = 0
  /\ lines' = <<Event("lab-meta", o.objective, "started")>>
  /\ binaries' = {} /\ gated' = {} /\ active' = {}
  /\ samples' = [s \in Range(Specs) |-> <<>>]
  /\ outputs' = [s \in Range(Specs) |-> "none"] /\ errors' = {}
  /\ winner' = Nobody /\ cases' = <<>>
  /\ UNCHANGED <<directory, code, trouble>>

\* How much of the bound on trouble a choice uses up.
Costs(bad) ==
  /\ trouble' = IF bad THEN trouble + 1 ELSE trouble
  /\ trouble' <= MaxTrouble

\* What _build_variant counts: the plugin appends to the telemetry file, and
\* that of an earlier lab is still there.
Gates(s, gates) == IF gates THEN telemetry \cup {s} ELSE telemetry

\* _build_variant: is there a binary, and are gates counted for it?
BuildVariant(s, ok, gates) == [binary |-> ok, gates |-> ok /\ s \in Gates(s, gates)]

\* Build the next spec; does the compiler succeed, does its policy gate a pass?
Build(ok, gates) ==
  /\ at = "build" /\ todo # <<>>
  /\ LET s == Head(todo)
     IN  /\ gates => s \in Range(Policies)
         /\ telemetry' = Gates(s, gates)
         /\ binaries' = IF BuildVariant(s, ok, gates).binary THEN binaries \cup {s} ELSE binaries
         /\ gated' = IF BuildVariant(s, ok, gates).gates THEN gated \cup {s} ELSE gated
         /\ active' = IF gates THEN active \cup {s} ELSE active
         /\ lines' = Append(lines, Event("build", s, ok))
  /\ todo' = Tail(todo) /\ Costs(~ok)
  /\ UNCHANGED <<evidence, best, lab, at, code, opt, cycle, sampling, winner, cases>>

\* Those that were built are measured in the order of their specs: the n-th of them
\* is the one that n of them do not come after.
Built == {k \in DOMAIN Specs : Specs[k] \in binaries}
Rank(k) == Cardinality({j \in Built : j <= k})
RunnableOrder ==
  [n \in 1 .. Cardinality(Built) |-> Specs[CHOOSE k \in Built : Rank(k) = n]]

\* The lab returns: the evidence is written and says so much.
Returns(c, told) ==
  /\ evidence' = told /\ lines' = told
  /\ code' = c /\ at' = "idle"

NoControl ==
  /\ at = "build" /\ todo = <<>> /\ Control \notin binaries
  /\ Returns(1, lines)
  /\ UNCHANGED <<best, telemetry, lab, opt, todo, cycle, building, sampling,
                 winner, cases, trouble>>

\* The record of plugin neutrality; a plugin that changes the code is only told.
Neutrality(neutral) ==
  /\ at = "build" /\ todo = <<>> /\ Control \in binaries
  /\ lines' = IF Baseline \in binaries
              THEN Append(lines, Event("plugin-neutrality", Control, neutral)) ELSE lines
  /\ Costs(~neutral)
  /\ at' = "measure" /\ cycle' = 1
  /\ todo' = RunnableOrder
  /\ UNCHANGED <<directory, lab, code, opt, building, sampling, winner, cases>>

-----------------------------------------------------------------------------
(* measure_variants.                                                       *)

LastCycle  == IF opt.objective = "size" THEN 1 ELSE Warmups + Runs
WarmupOver == opt.objective = "size" \/ cycle > Warmups

\* The order rotates by one in every measured cycle.
Rotated(c) ==
  LET n == Len(RunnableOrder)
      r == IF c > Warmups THEN (c - Warmups - 1) % n ELSE 0
  IN  SubSeq(RunnableOrder, r + 1, n) \o SubSeq(RunnableOrder, 1, r)

\* Who is passed over.  Faulty variant: nobody, a run that fails is made up for.
NeverSkipped(s) == FALSE
Skipped(s) == s \in errors

\* The next binary runs: does it pass, and what does it print?
Sample(passed, output) ==
  /\ at = "measure" /\ todo # <<>>
  /\ LET s     == Head(todo)
         first == IF outputs[s] = "none" THEN output ELSE outputs[s]
         good  == passed /\ output = first
     IN  /\ ~Skipped(s)
         /\ outputs' = [outputs EXCEPT ![s] = first]
         /\ errors' = IF good THEN errors ELSE errors \cup {s}
         /\ samples' = IF good /\ WarmupOver
                       THEN [samples EXCEPT ![s] = Append(@, cycle)] ELSE samples
  /\ todo' = Tail(todo) /\ Costs(~passed \/ output # "usual")
  /\ UNCHANGED <<directory, lab, at, code, opt, cycle, lines, building, winner, cases>>

Skip ==
  /\ at = "measure" /\ todo # <<>> /\ Skipped(Head(todo))
  /\ todo' = Tail(todo)
  /\ UNCHANGED <<directory, lab, at, code, opt, cycle, lines, building, sampling,
                 winner, cases, trouble>>

NextCycle ==
  /\ at = "measure" /\ todo = <<>> /\ cycle < LastCycle
  /\ cycle' = cycle + 1 /\ todo' = Rotated(cycle')
  /\ UNCHANGED <<directory, lab, at, code, opt, lines, building, sampling,
                 winner, cases, trouble>>

Measured == at = "measure" /\ todo = <<>> /\ cycle = LastCycle

NoSamples ==
  /\ Measured /\ samples[Control] = <<>>
  /\ Returns(1, lines)
  /\ UNCHANGED <<best, telemetry, lab, opt, todo, cycle, building, sampling,
                 winner, cases, trouble>>

-----------------------------------------------------------------------------
(* Verdicts and the decision.                                              *)

\* classify, for an improvement over the control (0: none, Margin: enough), and
\* whether the interval of the paired deltas lies above zero (sizes have none).
OutputEqual(s) == outputs[s] = outputs[Control]

\* Faulty variant: the behaviour is not looked at.
ClassifyByGain(s, gain, above) ==
  IF s \notin gated THEN "not-gated"
  ELSE IF gain >= Margin /\ above THEN "improves"
  ELSE IF gain <= 0 THEN "regresses" ELSE "within-noise"

Classify(s, gain, above) ==
  IF ~OutputEqual(s) THEN "invalid-behavior"
  ELSE IF s \notin gated THEN "not-gated"
  ELSE IF gain >= Margin /\ above THEN "improves"
  ELSE IF gain <= 0 THEN "regresses" ELSE "within-noise"

Verdict(s, gain, above) ==
  IF s \notin binaries THEN "build-failed"
  ELSE IF s \in errors \/ samples[s] = <<>> THEN "run-failed"
  ELSE IF s = Baseline THEN "pure-gcc-reference"
  ELSE IF s = Control THEN "control"
  ELSE Classify(s, gain, above \/ opt.objective = "size")

\* The first of the policies that improve most.
RankImproving(improving, gain) ==
  LET top == {p \in improving : \A q \in improving : gain[q] <= gain[p]}
  IN  IF top = {} THEN Nobody
      ELSE Policies[Min({k \in DOMAIN Policies : Policies[k] \in top})]

Judge(gain, above) ==
  /\ Measured /\ samples[Control] # <<>>
  /\ LET verdict == [s \in Range(Specs) |->
                       IF s \in Range(Policies) THEN Verdict(s, gain[s], above[s])
                                                ELSE Verdict(s, 0, FALSE)]
     IN  /\ winner' = RankImproving({p \in Range(Policies) : verdict[p] = "improves"}, gain)
         /\ lines' = lines \o [k \in DOMAIN Specs |-> Event("result", Specs[k], verdict[Specs[k]])]
  /\ at' = "decide"
  /\ todo' = IF ~opt.repro THEN <<>>
             ELSE IF winner' = Nobody THEN <<Control>> ELSE <<winner', Control>>
  /\ UNCHANGED <<directory, lab, code, opt, cycle, building, sampling, cases, trouble>>

\* check_reproducible: the winner and the control, sorted by name, are built again.
Rebuild(match) ==
  /\ at = "decide" /\ todo # <<>>
  /\ lines' = Append(lines, Event("reproducibility", Head(todo), match))
  /\ todo' = Tail(todo) /\ Costs(~match)
  /\ UNCHANGED <<directory, lab, at, code, opt, cycle, building, sampling, winner, cases>>

\* The evidence with the decision is written before the gate.
Decide ==
  /\ at = "decide" /\ todo = <<>>
  /\ LET told == Append(lines, Decision(winner, "measured"))
     IN  IF winner = Nobody
         THEN Returns(0, told)
         ELSE /\ evidence' = told /\ lines' = told
              /\ at' = IF opt.gate /\ opt.objective = "runtime" THEN "compare" ELSE "promote"
              /\ UNCHANGED code
  /\ UNCHANGED <<best, telemetry, lab, opt, todo, cycle, building, sampling,
                 winner, cases, trouble>>

-----------------------------------------------------------------------------
(* run_differential.                                                       *)

\* What _run_one reports beside the exit code and the output.
Message(o) == IF o = "slow" THEN "timeout after"
              ELSE IF o = "missing" THEN "binary not found" ELSE "none"

\* Is the case skipped, a mismatch, or the same on both sides?
Kind(r, c) ==
  IF "timeout" \in {Message(r), Message(c)}
  THEN IF Message(r) = Message(c) THEN "skipped" ELSE "timeout"
  ELSE IF Message(r) # "none" \/ Message(c) # "none" THEN "error"
  ELSE IF "exit" \in {r, c} /\ r # c THEN "exit-code"
  ELSE IF r # c THEN "stdout" ELSE "same"

MoreCases == Len(cases) < Trials

Compare(r, c) ==
  /\ at = "compare" /\ MoreCases
  /\ cases' = Append(cases, [ref |-> r, cand |-> c])
  /\ Costs(<<r, c>> # <<"usual", "usual">>)
  /\ UNCHANGED <<directory, lab, at, code, opt, todo, cycle, lines, building,
                 sampling, winner>>

Equivalent == \A k \in DOMAIN cases : Kind(cases[k].ref, cases[k].cand) \in {"same", "skipped"}

\* The record of the differential test is appended, in memory.
Compared ==
  /\ at = "compare" /\ ~MoreCases
  /\ lines' = Append(lines, Event("differential", winner, Equivalent))
  /\ at' = IF Equivalent THEN "promote" ELSE "reject"
  /\ UNCHANGED <<directory, lab, code, opt, todo, cycle, building, sampling,
                 winner, cases, trouble>>

-----------------------------------------------------------------------------
(* The end of a lab.                                                       *)

\* evidence_lines[-1] = decision
LastReplaced(d) == Append(Front(lines), d)

\* Faulty variant: only "rejected_by" is added, the winner stays.
StillWinner == Decision(winner, "differential")
Rejection == Decision(Nobody, "differential")

Reject ==
  /\ at = "reject"
  /\ Returns(1, LastReplaced(Rejection))
  /\ UNCHANGED <<best, telemetry, lab, opt, todo, cycle, building, sampling,
                 winner, cases, trouble>>

Promote ==
  /\ at = "promote"
  /\ best' = [of |-> winner, lab |-> lab]
  /\ at' = "tell"
  /\ UNCHANGED <<evidence, telemetry, lab, code, opt, todo, cycle, lines, building,
                 sampling, winner, cases, trouble>>

Tell ==
  /\ at = "tell"
  /\ Returns(0, LastReplaced(Decision(winner, "artifact")))
  /\ UNCHANGED <<best, telemetry, lab, opt, todo, cycle, building, sampling,
                 winner, cases, trouble>>

\* A file cannot be read or written, or the process is killed: main returns 1
\* and what is on the disk stays; a file that was being written holds a part.
Stop ==
  /\ ~Between /\ trouble < MaxTrouble
  /\ at' = "stopped" /\ code' = 1 /\ trouble' = trouble + 1
  /\ evidence' \in {evidence} \cup
       (IF at \in {"decide", "reject", "tell"} THEN {SubSeq(lines, 1, k) : k \in {0, Len(lines)}} ELSE {})
  /\ best' \in {best} \cup (IF at = "promote" THEN {NoPolicy} ELSE {})
  /\ UNCHANGED <<telemetry, lab, opt, todo, cycle, lines, building, sampling, winner, cases>>

-----------------------------------------------------------------------------
Options == [objective : {"runtime", "size"}, repro : BOOLEAN, gate : BOOLEAN]
Gains == 0 .. Margin + 1      \* of the medians over that of the control
Above == BOOLEAN              \* is the interval of the paired deltas above zero?
Shown == {"usual", "other"}
Behaviours == Shown \cup {"exit", "slow", "missing"}

Next ==
  \/ Refuse \/ \E o \in Options : Start(o)
  \/ \E ok, gates \in BOOLEAN : Build(ok, gates)
  \/ NoControl \/ \E neutral \in BOOLEAN : Neutrality(neutral)
  \/ \E passed \in BOOLEAN, output \in Shown : Sample(passed, output)
  \/ Skip \/ NextCycle \/ NoSamples
  \/ \E gain \in [Range(Policies) -> Gains], above \in [Range(Policies) -> Above] :
       Judge(gain, above)
  \/ \E match \in BOOLEAN : Rebuild(match)
  \/ Decide \/ \E r, c \in Behaviours : Compare(r, c)
  \/ Compared \/ Reject \/ Promote \/ Tell \/ Stop

Spec == Init /\ [][Next]_vars

-----------------------------------------------------------------------------
(* Properties.                                                             *)

TypeOK ==
  /\ lab \in 0 .. MaxLabs /\ code \in 0 .. 2 /\ opt \in Options
  /\ at \in {"idle", "stopped", "build", "measure", "decide", "compare", "reject", "promote", "tell"}
  /\ cycle \in 0 .. Warmups + Runs /\ trouble \in 0 .. MaxTrouble
  /\ best.of \in Range(Policies) \cup {Nobody} /\ best.lab \in 0 .. lab
  /\ winner \in Range(Policies) \cup {Nobody}
  /\ errors \subseteq binaries /\ gated \subseteq binaries /\ gated \subseteq telemetry
  /\ telemetry \subseteq Range(Policies) /\ active \subseteq telemetry
  /\ Range(todo) \subseteq Range(Specs)

\* "Sample i of every variant comes from the same measurement cycle": the delta of
\* two specs pairs what was measured together, whatever failed in which cycle.
PairedSamples ==
  \A s, t \in Range(Specs) :
    \A i \in DOMAIN samples[s] \cap DOMAIN samples[t] : samples[s][i] = samples[t][i]

\* The lab keeps its types, and its samples stay paired.
LabConsistent == TypeOK /\ PairedSamples

\* What a lab promotes it built, ran in every cycle with the output of the
\* control, and, with the gate on, saw behave as the control in every case:
\* same exit code and same output, and no side that was slow or missing.
PromotedIsSound ==
  best.lab = lab /\ best.of # Nobody =>
    /\ best.of \in binaries \ errors
    /\ outputs[best.of] = outputs[Control] /\ samples[best.of] # <<>>
    /\ opt.gate /\ opt.objective = "runtime" =>
         /\ Len(cases) = Trials
         /\ \A k \in DOMAIN cases : cases[k].ref = cases[k].cand
                                    /\ cases[k].ref \in {"usual", "other", "exit"}

\* The decision that ends the evidence of a lab that came to its end names the
\* policy that best.policy then holds, or nobody and best.policy is not its own.
EvidenceTellsArtifact ==
  at = "idle" /\ evidence # <<>> /\ Last(evidence).event = "decision" =>
    LET named == Last(evidence).about
    IN  IF named = Nobody THEN best.lab # lab
                          ELSE best = [of |-> named, lab |-> lab]
=============================================================================
