--------------------------- MODULE VirtualComputer ---------------------------
(***************************************************************************)
(* The unified virtual computer (virtual_computer/): the ledger of exact   *)
(* oracle calls and the probes of computer.py, the vertical slice of       *)
(* vertical.py with the lowering and the trust checks behind its gates,    *)
(* and the certification of levels.py, driven by the command line or by a  *)
(* library caller.                                                         *)
(*                                                                         *)
(* The compiler probe and the compiler leg of the slice use an environment *)
(* of VirtualCompiler with the stub oracle.  The programs of the slice are *)
(* executed by the meaning of the instructions (VmicroISA).  Programs that *)
(* use the compiler, the kernel or the drift manager alone run as          *)
(* processes of their own.                                                 *)
(*                                                                         *)
(* Choices: the operands, what fails in a run of a CPU, the load of the    *)
(* kernel simulator, what raises, which evidence lies on disk.  Medians,   *)
(* intervals, the learned ensemble and the ridge model are left out.       *)
(***************************************************************************)
EXTENDS VirtualCompiler, Lowering, VirtualKernel, DriftManager

CONSTANTS
  Inputs,        \* [slice, micro, compiler]: the factorial of the slice
                 \* [seeds, ns, controls, gains, steps] and the budgets of two probes
  Limits,        \* the oracle budgets a computer may be given, by unit
  Beam,          \* plans the probe's search keeps
  ProbeSteps,    \* steps of either arm of the kernel probe
  TrainSteps,    \* simulator steps that train the ensemble of the slice
  Latencies,     \* latencies of the simulator before they are clamped
  MaxCases       \* bound on the calls of a library caller

Units == <<"compiler", "micro", "vmarch", "kernel">>   \* in charging order
UnitSet == Range(Units)
Counts == UnitSet \cup {"unseen"}   \* "unseen": compiler probes that may take no view

ASSUME LimitsAssumption == Limits \subseteq [UnitSet -> Nat]
ASSUME ProbeAssumption ==
  /\ \A i \in Inputs : {i.micro, i.compiler, i.slice.steps} \subseteq Nat
  /\ \A i \in Inputs : /\ IsFiniteSet(i.slice.seeds) /\ IsFiniteSet(i.slice.ns)
                       /\ IsFiniteSet(i.slice.controls) /\ IsFiniteSet(i.slice.gains)
                       /\ i.slice.seeds # {} /\ i.slice.ns # {}   \* without a unit a median raises
  /\ {Beam, ProbeSteps, TrainSteps, MaxCases} \subseteq Nat /\ Latencies \subseteq Int

-----------------------------------------------------------------------------
VARIABLES
  worlds,     \* _branches of the computer: name to configuration
  active,     \* _active
  limit,      \* oracle_budget
  ledger,     \* oracle_used
  exact,      \* exact calls made since the ledger was reset, and "unseen"
  caller,     \* "cli", "library" or, between calls, "nobody"
  step,       \* where the call stands
  input,      \* the slice, and the budgets of the probes
  pipeline,   \* is the call a whole pipeline?
  probes,     \* the results of its probes: layer to ok
  slice,      \* what the slice has gathered
  report,     \* of the last slice that was charged for
  disk,       \* the committed evidence
  cert,       \* the certificate
  manifests,  \* what was emitted
  cases       \* calls so far

callVars == <<limit, caller, input, pipeline, cases>>
fileVars == <<disk, manifests>>
computerVars == <<worlds, active, ledger, exact, step, probes, slice, report, cert, callVars, fileVars>>
allVars == <<vars, computerVars, kernelVars, driftVars>>

None == [none |-> TRUE]
NoUse == [u \in UnitSet |-> 0]
NoCalls == [u \in Counts |-> 0]
NoSlice == [runs |-> NoUse, problems |-> {}, faults |-> {}, views |-> {}, charged |-> 0]

\* A world of the computer: flags, sysctl setting and control bundle.
RootWorld == [flags |-> "O2", sysctl |-> "balanced", control |-> "balanced"]
TightWorld == [flags |-> "O3", sysctl |-> "tight", control |-> "latency"]
WithWorld(name, world) ==
  [n \in DOMAIN worlds \cup {name} |-> IF n = name THEN world ELSE worlds[n]]

\* A grading source newer than the kernel artifact, or a configuration that no
\* longer gives the recorded hash, makes the artifact stale.
Stale(art) == art.edited \/ art.drifted
KernelArtifact == [state : {"missing", "garbled", "there"}, level : 0 .. 2,
                   edited : BOOLEAN, drifted : BOOLEAN]
Evidence == [micro : {"missing", "garbled", "skill", "no skill"}, compiler : BOOLEAN,
             kernel : KernelArtifact]

NoDisk == [micro |-> "missing", compiler |-> FALSE,
           kernel |-> [state |-> "missing", level |-> 0, edited |-> FALSE, drifted |-> FALSE]]

CONSTANT Disks   \* the evidence a computer may find

ASSUME DisksAssumption == Disks \subseteq Evidence

ComputerInit ==
  /\ Init /\ KernelInit /\ DriftInit
  /\ worlds = [n \in {"root"} |-> RootWorld] /\ active = "root"
  /\ limit = NoUse /\ ledger = NoUse /\ exact = NoCalls
  /\ caller = "nobody" /\ step = "off" /\ input = None /\ pipeline = FALSE
  /\ probes = <<>> /\ slice = NoSlice /\ report = None /\ cert = None
  /\ disk = NoDisk /\ manifests = <<>> /\ cases = 0

-----------------------------------------------------------------------------
(* The ledger.                                                             *)

\* _spend: a unit is charged in full or not at all.  Faulty variant: refused only
\* when the budget is used up already.
NotUsedUp(u, n) == ledger[u] < limit[u] \/ n = 0
CanSpend(u, n) == ledger[u] + n <= limit[u]
Spend(u, n) == ledger' = [ledger EXCEPT ![u] = @ + n]
Ran(u, n) == exact' = [exact EXCEPT ![u] = @ + n]

\* A probe charges what it ran and reports that it worked; a refusal, like any
\* other exception, makes it report that it did not.
ChargeProbe(layer, u, n, ok) ==
  /\ IF CanSpend(u, n) THEN Spend(u, n) ELSE UNCHANGED ledger
  /\ probes' = (layer :> (ok /\ CanSpend(u, n))) @@ probes

-----------------------------------------------------------------------------
(* Calls.  A pipeline is the three probes, with a fresh ledger, and the    *)
(* slice; the command line makes one and certifies it.                     *)

FirstStep ==
  [pipeline |-> "probe micro", micro |-> "probe micro", compiler |-> "probe compiler",
   kernel |-> "probe kernel", slice |-> "lower", certify |-> "read"]

\* Sessions of the compiler and of the computer are processes of their own: one
\* begins where none has run.
Free == caller = "nobody" /\ at = "idle" /\ saved = NoFile /\ sessions = 0 /\ sessions' = 1

Begin(what, inp) ==
  /\ step' = FirstStep[what] /\ input' = inp /\ pipeline' = (what = "pipeline")
  /\ IF what = "pipeline" THEN ledger' = NoUse /\ exact' = NoCalls ELSE UNCHANGED <<ledger, exact>>
  /\ probes' = <<>> /\ slice' = NoSlice
  /\ cases' = cases + 1 /\ cases' <= MaxCases

Computer(who, most) ==
  /\ Free /\ caller' = who /\ limit' = most
  /\ UNCHANGED <<envVars, saved, at, cmd, job, reports, code, calls, trouble, active, report, cert,
                 fileVars>>

CommandLine(inp, most) ==
  /\ Computer("cli", most) /\ Begin("pipeline", inp)
  /\ worlds' = WithWorld("o3-tight", TightWorld)

Import(most) ==
  /\ Computer("library", most)
  /\ UNCHANGED <<worlds, ledger, exact, step, input, pipeline, probes, slice, cases>>

LibraryCall(what, inp) ==
  /\ step = "off" /\ caller = "library"
  /\ Begin(what, inp)
  /\ UNCHANGED <<vars, worlds, active, limit, caller, report, cert, fileVars>>

\* branch, switch, intervene: worlds are made, entered and changed.
Fork(name, source) ==
  /\ step = "off" /\ caller = "library" /\ cases < MaxCases
  /\ name \notin DOMAIN worlds
  /\ worlds' = WithWorld(name, [worlds[source] EXCEPT !.flags = "O3"])
  /\ cases' = cases + 1
  /\ UNCHANGED <<vars, active, ledger, exact, step, probes, slice, report, cert, limit, caller,
                 input, pipeline, fileVars>>

Switch(name) ==
  /\ step = "off" /\ caller = "library" /\ cases < MaxCases
  /\ active' = name /\ cases' = cases + 1
  /\ UNCHANGED <<vars, worlds, ledger, exact, step, probes, slice, report, cert, limit, caller,
                 input, pipeline, fileVars>>

Intervene(name, sysctl) ==
  /\ step = "off" /\ caller = "library" /\ cases < MaxCases
  /\ worlds' = [worlds EXCEPT ![name].sysctl = sysctl]
  /\ cases' = cases + 1
  /\ UNCHANGED <<vars, active, ledger, exact, step, probes, slice, report, cert, limit, caller,
                 input, pipeline, fileVars>>

\* What an exception that no probe catches leaves: the command line is over.
Raise == step' = IF caller = "cli" THEN "over" ELSE "off"
Done(next) == step' = IF pipeline THEN next ELSE "off"

-----------------------------------------------------------------------------
(* The probes.                                                             *)

ProbeSame == UNCHANGED <<worlds, active, slice, report, cert, callVars, fileVars>>
EnvSame == UNCHANGED <<envVars, saved, taskVars, calls>>

\* validate_micro: the search validates as many plans as the budget and the beam
\* allow; with none there is no best one, which raises after the charge.
ProbeMicro(fails) ==
  /\ step = "probe micro" /\ Costs(fails)
  /\ IF fails
     THEN probes' = ("micro" :> FALSE) @@ probes /\ UNCHANGED <<ledger, exact>>
     ELSE /\ Ran("micro", 1 + (IF input.micro < Beam THEN input.micro ELSE Beam))
          /\ ChargeProbe("micro", "micro", 1, input.micro > 0)
  /\ Done("probe compiler") /\ EnvSame /\ ProbeSame

\* validate_compiler: a screen of one branch in an environment with the stub oracle.
O0 == [kind |-> "flags", arg |-> "O0"]
O3 == [kind |-> "flags", arg |-> "O3"]
StubTime(config) ==
  IF config.flags = PresetFlags["O3"] THEN 1 ELSE IF config.flags = PresetFlags["O0"] THEN 3 ELSE 2
StubFact(n) == Fact(TRUE, StubTime(branches[n].config))
ASSUME StubAssumption == MaxRuntime >= 3   \* what the stub says is within the bound

Fresh3(b) == used' = 0 /\ budget' = b /\ experience' = {} /\ views' = {}
ForkName(no) == Name("branch", NoAction, no)
PresetName(a) == Name("perturb", a, 1)

ProbeCompiler(fails) ==
  /\ step = "probe compiler" /\ Costs(fails)
  /\ IF fails
     THEN /\ probes' = ("compiler" :> FALSE) @@ probes
          /\ Done("probe kernel") /\ UNCHANGED <<envVars, at, cmd, job>>
     ELSE /\ branches' = [n \in {Root, ForkName(1), PresetName(O3)} |->
               IF n = PresetName(O3) THEN NewBranch(Apply(InitialConfig, O3), ForkName(1))
               ELSE NewBranch(InitialConfig, IF n = Root THEN Nowhere ELSE Root)]
          /\ current' = PresetName(O3) /\ Fresh3(input.compiler)
          /\ at' = "start" /\ cmd' = "surrogate" /\ job' = NoJob
          /\ step' = "search" /\ UNCHANGED probes
  /\ UNCHANGED <<saved, reports, code, sessions, calls, ledger, exact>> /\ ProbeSame

Search ==
  /\ step = "search" /\ at # "idle"
  /\ \/ at = "start" /\ \E acts \in Tried : Expand(acts)
     \/ at = "rank" /\ \E s \in Shortlists : Rank(s)
     \/ at = "validate" /\ job.todo # <<>> /\ ValidateNext(StubFact(Head(job.todo)))
     \/ PassOver \/ EndScreen \/ Return
  /\ UNCHANGED computerVars

\* One view is charged, also where the budget allowed none.
EndSearch ==
  /\ step = "search" /\ at = "idle"
  /\ exact' = [exact EXCEPT !["compiler"] = @ + used,
                            !["unseen"] = @ + IF input.compiler = 0 THEN 1 ELSE 0]
  /\ ChargeProbe("compiler", "compiler", 1, TRUE)
  /\ Done("probe kernel") /\ UNCHANGED vars /\ ProbeSame

\* validate_kernel: two arms of simulator steps, charged before the ensemble is
\* trained, which may fail; the worlds are a virtual kernel's.
ProbeKernel(fails) ==
  /\ step = "probe kernel" /\ fails \in {"no", "at once", "late"} /\ Costs(fails # "no")
  /\ IF fails = "at once"
     THEN probes' = ("kernel" :> FALSE) @@ probes /\ UNCHANGED <<ledger, exact>>
     ELSE /\ Ran("kernel", 2 * ProbeSteps)
          /\ ChargeProbe("kernel", "kernel", 2 * ProbeSteps, fails = "no")
  /\ IF fails = "no" /\ CanSpend("kernel", 2 * ProbeSteps)
     THEN futures' = [n \in {"main", "tight-world"} |-> NewFuture(Booted)] /\ focus' = "main"
     ELSE UNCHANGED <<futures, focus>>
  /\ UNCHANGED <<oracle, pool, stage, work, walks, said, procedures>>
  /\ Done("lower") /\ EnvSame /\ ProbeSame

-----------------------------------------------------------------------------
(* The vertical slice: every leg runs its factorial, counts its exact      *)
(* calls and notes its problems; the gates are read off the problems.      *)

S == input.slice
Conservation == "conservation"
Equivalence == "equivalence"

\* At most one thing goes wrong in a leg.
AtMostOne(F) == {{}} \cup {{f} : f \in F}
Problem(leg, kind) == [leg |-> leg, kind |-> kind]

SliceSame == UNCHANGED <<worlds, active, ledger, probes, report, cert, callVars, fileVars>>

\* Every leg has a counter of its own.  Faulty variant: a run of any CPU counts as
\* one of the first.
CountedForBoth(runs, u, n) ==
  [runs EXCEPT ![u] = @ + n, !["micro"] = IF u = "vmarch" THEN @ + n ELSE @]
Counted(runs, u, n) == [runs EXCEPT ![u] = @ + n]

Gather(u, n, problems, faults) ==
  /\ Ran(u, n)
  /\ slice' = [slice EXCEPT !.runs = Counted(@, u, n), !.problems = @ \cup problems,
                            !.faults = @ \cup faults]

\* The blocks of the optimised program are two wide: an odd size is refused.
LowerAll ==
  /\ step = "lower"
  /\ IF \E n \in S.ns : n % 2 = 1
     THEN Raise /\ UNCHANGED slice
     ELSE /\ step' = "views"
          /\ slice' = [slice EXCEPT !.problems =
               IF \E n \in S.ns : MemOps("O3", n) >= MemOps("O0", n)
               THEN {Problem("lowering", "structural")} ELSE {}]
  /\ UNCHANGED <<vars, exact>> /\ SliceSame

\* The compiler leg: fork, perturb the fork, fork what that made current, perturb
\* again; then the forks are measured, not what the perturbations made of them.
LowView == Apply(InitialConfig, O0)
ViewPath == <<Root, ForkName(1), PresetName(O0), ForkName(2), PresetName(O3)>>
ViewConfig == <<InitialConfig, InitialConfig, LowView, LowView, Apply(LowView, O3)>>
Viewed(k) ==
  LET made == NewBranch(ViewConfig[k], IF k = 1 THEN Nowhere ELSE ViewPath[k - 1])
  IN  IF k \in {2, 4}
      THEN [made EXCEPT !.fact = Fact(TRUE, StubTime(ViewConfig[k])), !.bin = TRUE]
      ELSE made

StubViews ==
  /\ step = "views"
  /\ branches' = [n \in Range(ViewPath) |-> Viewed(CHOOSE k \in 1 .. 5 : ViewPath[k] = n)]
  /\ experience' = {<<Built(c), Fact(TRUE, StubTime(c))>> : c \in {InitialConfig, LowView}}
  /\ Ran("compiler", 2)
  /\ slice' = [slice EXCEPT !.runs["compiler"] = 2,
                   !.views = {[preset |-> "O0", config |-> InitialConfig],
                              [preset |-> "O3", config |-> LowView]}]
  /\ views' = experience' /\ current' = PresetName(O3) /\ used' = 2 /\ budget' = 4
  /\ step' = "in order"
  /\ UNCHANGED <<saved, taskVars, calls, trouble>> /\ SliceSame

\* check_functional_equivalence: both programs leave the dot product in the
\* accumulator and in memory.
Sizes == UNION {i.slice.ns : i \in Inputs}
Right ==
  [n \in Sizes |-> {v \in Vectors(n) : \A p \in Presets :
     LET r == Result(p, n, v) IN r.acc = Expected(v, n) /\ r.out = Expected(v, n)}]
Draws == [S.seeds -> Vectors(CHOOSE n \in S.ns : \A k \in S.ns : k <= n)]

\* The vectors of a seed begin alike for every size.
Prefix(v, n) == [a |-> [i \in 0 .. n - 1 |-> v.a[i]], b |-> [i \in 0 .. n - 1 |-> v.b[i]]]

\* A run may go wrong in what it computes, or in what check_cpu_conservation sees:
\* status, retired instructions, counters.
CpuLeg(leg, u, n, draw, bad) ==
  LET wrong == \/ Equivalence \in bad
               \/ \E s \in S.seeds, m \in S.ns : Prefix(draw[s], m) \notin Right[m]
  IN  Gather(u, n,
             {Problem(leg, k) : k \in (bad \ {Equivalence}) \cup (IF wrong THEN {Equivalence} ELSE {})},
             {Problem(leg, k) : k \in bad})

InOrderLeg(draw, bad) ==
  /\ step = "in order" /\ Costs(bad # {})
  /\ CpuLeg("vmicro", "micro",
            2 * Cardinality(S.seeds) * Cardinality(S.ns) * Cardinality(S.controls), draw, bad)
  /\ step' = "out of order"
  /\ EnvSame /\ SliceSame

\* The second CPU is compared with the balanced runs of the first: without them
\* next() raises StopIteration after both programs of the first unit.
OutOfOrderLeg(draw, bad) ==
  /\ step = "out of order" /\ Costs(bad # {})
  /\ IF "balanced" \in S.controls
     THEN /\ CpuLeg("vmarch", "vmarch", 2 * Cardinality(S.seeds) * Cardinality(S.ns), draw, bad)
          /\ step' = "rerun"
     ELSE Ran("vmarch", 2) /\ Raise /\ UNCHANGED slice
  /\ EnvSame /\ SliceSame

Rerun(differs) ==
  /\ step = "rerun" /\ Costs(differs)
  /\ LET bad == IF differs THEN {Problem("vmicro", "determinism")} ELSE {}
     IN  Gather("micro", 4, bad, bad)
  /\ step' = "loads" /\ EnvSame /\ SliceSame

\* check_kernel_invariants, at a step of a simulator whose effective latency and
\* switch rate come out of any load.
SimStep(kir, lat, rate) == Kir(kir.t + 1, kir.sw + rate, Clamp(MinLat, lat, MaxLat), kir.util)
KernelInvariant(kir, next) == next.lat \in MinLat .. MaxLat /\ next.sw >= kir.sw

\* The seeds, workloads, sizes, gains, arms and steps of the kernel leg.
LoadsLeg(lat, rate) ==
  /\ step = "loads"
  /\ Gather("kernel",
            4 * Cardinality(S.seeds) * Cardinality(S.ns) * Cardinality(S.gains) * S.steps,
            IF KernelInvariant(Booted, SimStep(Booted, lat, rate)) THEN {}
            ELSE {Problem("kernel", "invariant")}, {})
  /\ step' = "score" /\ UNCHANGED vars /\ SliceSame

Score ==
  /\ step = "score" /\ Gather("kernel", TrainSteps, {}, {})
  /\ step' = "charge" /\ UNCHANGED vars /\ SliceSame

\* An exception in a leg leaves the slice.
Fails ==
  /\ step \in {"views", "in order", "out of order", "rerun", "loads", "score"}
  /\ Costs(TRUE) /\ Raise
  /\ EnvSame /\ UNCHANGED <<exact, slice>> /\ SliceSame

\* Which words the problem strings hold: none says "conservation".
Says(p, word) ==
  \/ word = p.leg
  \/ word = "structural fail" /\ p.kind = "structural"
  \/ word = "equivalence fail" /\ p.kind = Equivalence

Silent(word) == \A p \in slice.problems : ~Says(p, word)
Gates ==
  [lowering_structural |-> Silent("structural fail"),
   functional_equivalence |-> Silent("equivalence fail"),
   cpu_conservation |-> Silent("conservation"),
   vmarch |-> Silent("vmarch"),
   kernel_invariants |-> Silent("kernel"),
   determinism |-> \A p \in slice.problems : p.kind # "determinism"]

\* run_vertical_slice of the computer charges unit after unit, after the work; a
\* refusal leaves the earlier units charged and loses the report.  Faulty variant:
\* the last unit is forgotten.
AllButLast == Len(Units) - 1
LastUnit == Len(Units)

Charge ==
  /\ step = "charge"
  /\ LET u == Units[slice.charged + 1]
     IN  IF ~CanSpend(u, slice.runs[u])
         THEN Raise /\ UNCHANGED <<ledger, slice, report>>
         ELSE /\ Spend(u, slice.runs[u])
              /\ slice' = [slice EXCEPT !.charged = @ + 1]
              /\ IF slice.charged + 1 = LastUnit
                 THEN /\ report' = [gates |-> Gates, runs |-> slice.runs, paid |-> ledger',
                                    faults |-> slice.faults, views |-> slice.views]
                      /\ step' = IF caller = "cli" THEN "read" ELSE "off"
                 ELSE UNCHANGED <<report, step>>
  /\ UNCHANGED <<vars, worlds, active, exact, probes, cert, callVars, fileVars>>

-----------------------------------------------------------------------------
(* Certification: the least of the grades of the layers and of the slice.  *)

MicroGrade(d) == IF d.micro = "skill" THEN 1 ELSE 0
CompilerGrade(d) == IF d.compiler THEN 1 ELSE 0
KernelGrade(art) == IF art.state = "there" THEN art.level ELSE 0
IntegrationGrade ==
  IF report = None THEN 0
  ELSE IF \A g \in DOMAIN report.gates : report.gates[g] THEN 1 ELSE 0

CertSame == UNCHANGED <<vars, worlds, active, ledger, exact, probes, slice, report, callVars>>

\* The artifacts are read; what the first certification finds stays there.
Read(evidence) ==
  /\ step = "read" /\ step' = "fresh"
  /\ disk # NoDisk => evidence = disk
  /\ disk' = evidence
  /\ cert' = [micro |-> MicroGrade(evidence), compiler |-> CompilerGrade(evidence),
              kernel |-> KernelGrade(evidence.kernel),
              art |-> evidence.kernel, level |-> 0, blockers |-> {}, faults |-> {}]
  /\ CertSame /\ UNCHANGED manifests

\* kernel_evidence_freshness looks at the files again.  Faulty variant: only at
\* the recorded hash.
HashOnly(art) == ~art.drifted
IsFresh(art) == ~Stale(art)

\* The command line goes on to the manifest; certify alone reads no report.
Certify ==
  /\ step = "fresh"
  /\ LET blocked ==
           (IF disk.micro = "no skill" THEN {"micro"} ELSE {})
           \cup (IF cert.art.state # "there" \/ ~IsFresh(disk.kernel) THEN {"kernel"} ELSE {})
           \cup (IF IntegrationGrade = 0 THEN {"integration"} ELSE {})
         grades == {cert.micro, cert.compiler, cert.kernel, IntegrationGrade}
     IN  cert' = [cert EXCEPT !.level = CHOOSE g \in grades : \A k \in grades : g <= k,
                              !.blockers = blocked,
                              !.faults = IF report = None THEN {} ELSE report.faults]
  /\ step' = IF caller = "cli" THEN "emit" ELSE "off"
  /\ CertSame /\ UNCHANGED fileVars

Emit ==
  /\ step = "emit" /\ step' = "over"
  /\ manifests' = Append(manifests, [costs |-> ledger, level |-> cert.level])
  /\ UNCHANGED <<cert, disk>> /\ CertSame

\* Exit of the command line, or of the program that used the library.
Exit ==
  /\ caller # "nobody"
  /\ step = "over" \/ (step = "off" /\ caller = "library" /\ cases = MaxCases)
  /\ caller' = "nobody" /\ step' = "off"
  /\ UNCHANGED <<vars, worlds, active, ledger, exact, probes, slice, report, cert, limit, input,
                 pipeline, cases, fileVars>>

\* Somebody edits a grading source between the two looks at the artifact.  (Nobody
\* re-runs the kernel benchmark between them.)
EditSource(drifts) ==
  /\ step = "fresh" /\ ~disk.kernel.edited /\ Costs(TRUE)
  /\ disk' = [disk EXCEPT !.kernel.edited = TRUE, !.kernel.drifted = @ \/ drifts]
  /\ EnvSame /\ UNCHANGED <<worlds, active, ledger, exact, step, probes, slice, report, cert,
                            callVars, manifests>>

-----------------------------------------------------------------------------
Probing == \/ \E fails \in BOOLEAN : ProbeMicro(fails) \/ ProbeCompiler(fails)
           \/ Search \/ EndSearch

Slicing ==
  \/ LowerAll \/ StubViews
  \/ /\ step \in {"in order", "out of order"}
     /\ \E draw \in Draws, bad \in AtMostOne({Conservation, Equivalence}) :
          InOrderLeg(draw, bad) \/ OutOfOrderLeg(draw, bad)
  \/ \E differs \in BOOLEAN : Rerun(differs)
  \/ \E lat \in Latencies, rate \in 0 .. 1 : LoadsLeg(lat, rate)
  \/ Score \/ Fails \/ Charge

Certifying ==
  \/ \E evidence \in Disks \cup {disk} : Read(evidence)
  \/ Certify \/ Emit \/ \E drifts \in BOOLEAN : EditSource(drifts)

Calling ==
  \/ \E inp \in Inputs, most \in Limits : CommandLine(inp, most)
  \/ \E most \in Limits : Import(most)
  \/ \E inp \in Inputs, what \in DOMAIN FirstStep : LibraryCall(what, inp)
  \/ Exit
  \/ \E n \in DOMAIN worlds : Fork("copy", n) \/ Switch(n) \/ Intervene(n, "tight")

\* Programs that use the kernel alone, each a process of its own.
KernelSame == UNCHANGED <<kernelVars, driftVars>>
Alone == UNCHANGED <<envVars, saved, at, cmd, job, reports, code, calls, trouble, computerVars>>

KernelProgram ==
  /\ UNCHANGED driftVars /\ Alone
  /\ \/ Free /\ \E seed \in OracleSeeds, kir \in Starts : Boot(seed, kir)
     \/ KernelWork /\ UNCHANGED sessions

DriftProgram ==
  /\ UNCHANGED kernelVars /\ Alone
  /\ \/ Free /\ \E who \in {"demo", "library"} : Manage(who)
     \/ DriftWork /\ UNCHANGED sessions

ComputerNext ==
  \/ (Calling \/ Probing \/ Slicing \/ Certifying) /\ KernelSame
  \/ \E fails \in {"no", "at once", "late"} : ProbeKernel(fails) /\ UNCHANGED driftVars
  \/ /\ caller = "nobody" /\ stage = "off" /\ phase = "none"
     /\ CompilerNext /\ UNCHANGED computerVars /\ KernelSame
  \/ KernelProgram \/ DriftProgram

ComputerSpec == ComputerInit /\ [][ComputerNext]_allVars

-----------------------------------------------------------------------------
(* Properties.                                                             *)

\* Type invariant of the computer and of the environments it uses.
TypeOK ==
  /\ CompilerTypeOK /\ KernelTypeOK /\ DriftTypeOK
  /\ active \in DOMAIN worlds /\ limit \in Limits \cup {NoUse}
  /\ \A u \in UnitSet : ledger[u] \in 0 .. limit[u] /\ exact[u] \in Nat
  /\ caller \in {"cli", "library", "nobody"} /\ pipeline \in BOOLEAN
  /\ slice.charged \in 0 .. Len(Units) /\ disk \in Evidence /\ cases \in 0 .. MaxCases

\* The ledger tells of no call nobody made, but for one kind: computer.py:22 has "every
\* counted unit corresponds to an exact-oracle call", and a compiler probe whose budget
\* is 0 is charged a view that its search could not take (computer.py:238).  Whatever
\* fails, is refused or is repeated, the ledger holds of the compiler at most one view
\* for every such probe, and of no other unit any, beyond the exact calls since its reset.
Unseen(u) == IF u = "compiler" THEN exact["unseen"] ELSE 0
NoPhantomSpends == \A u \in UnitSet : ledger[u] <= exact[u] + Unseen(u)

\* A slice is charged in full or gives no report (computer.py:179-186): a report was
\* paid for in every unit it used, and so was every manifest.
ChargedInFull ==
  /\ report # None => \A u \in UnitSet : report.paid[u] >= report.runs[u]
  /\ step = "emit" => \A u \in UnitSet : ledger[u] >= report.runs[u]

\* Wrong results, of either CPU; lost instructions, of the second; a rerun that differs.
Gated == {Problem(leg, Equivalence) : leg \in {"vmicro", "vmarch"}}
         \cup {Problem("vmarch", Conservation), Problem("vmicro", "determinism")}

\* What the gates can see lets no grade through (levels.py:6): in the slice that a level
\* above 0 rests on both CPUs computed the dot product with both programs, the second one
\* conserved its instructions and a rerun agreed.  And kernel evidence that was stale when
\* it was read is told, whoever edits a source after that.  (SliceConserves is the rest.)
CertificateIsSound ==
  cert # None /\ step # "fresh" =>
    /\ cert.level > 0 => cert.faults \cap Gated = {}
    /\ cert.art.state = "there" /\ Stale(cert.art) => "kernel" \in cert.blockers

\* "it is valid only while the live integration gate (vertical slice: equivalence +
\* determinism + conservation + invariants) passes.  A failed gate caps the grade at L0"
\* (levels.py:4-7): no level above 0 where a CPU broke conservation.
SliceConserves ==
  cert # None /\ step # "fresh" /\ cert.level > 0 => \A p \in cert.faults : p.kind # Conservation

\* When nothing went wrong every gate holds: the two lowerings agree with the
\* dot product, use less memory when optimised, and the simulator stays in range.
CleanSlicePasses ==
  report # None /\ report.faults = {} => \A g \in DOMAIN report.gates : report.gates[g]
=============================================================================
