# Verification of Virtual-Computer

TLA+ models of the parts of this repository whose correctness depends on order,
interleaving and failure, the TLC runs that check them, and TLAPS proofs about
them. `PROJECT.json` holds the same facts for tools: which definition stands for
which lines (`map`), the runs, the faulty variants each property rejects
(`mutants`), the hazards, the theorems.

Contents: 1 the system, 2 what is modelled and how it corresponds to the code,
3 the runs, 4 the proofs, 5 findings, 6 seen while modelling, 7 not modelled,
8 plan.


## 1 The system

Three layers and a program that ties them together. Nearly all of it is Python;
each layer is made of an exact "oracle", learned models that imitate it, agents
that search with both, and a ledger of what was spent.

| Component | State it keeps | Operations | Talks to | What is hard | Correct when |
|---|---|---|---|---|---|
| **vmicro CPU** `microarchitecture/vmicro/machine.py` | registers, memory, list of operations in flight, scoreboard of pending registers, 2-bit predictor, fetch slots, control bundle | `step_cycle`: issue up to the width, count down, write back; `run`; snapshot/fork | control plan and governor choose a bundle per interval | operations finish out of order; HALT and fences; end of program with work in flight; bundle changes under a loop | it computes what the instructions mean, one at a time, and finishes |
| **vmarch core** `microarchitecture/vmarch/core.py` | architectural state, physical registers, alias table, free and pending-free lists, reorder buffer, reservation stations, load/store queue, executing list, fetch queue | `step_cycle`: commit, execute, issue, rename, fetch; squash, redirect, reclaim; `run` with a watchdog | caches (`cache.py`), predictors (`branch.py`), governor | speculation and recovery, store-to-load forwarding, recycling of registers, queues at their limit, compaction | the same, and no register is lost, no queue disagrees with the window |
| **repair loop** `compiler/self_compiler/modes.py`, `patch.py` | the source file, a staged candidate, a rollback copy, attempt counter, texts seen, `_promoted` | `run`: compile, propose, stage, gates, promote, verify again, commit or revert, publish | compiler, debugger, tests, AI engine; an editor shares the file | exceptions, Ctrl-C and kills between any two steps; noisy gates; an editor racing with the promotion | the file changes atomically, only to a gated text, and can be recovered |
| **actuation loop** `kernel/learned_kernel/runtime/loop.py`, `validator/core.py`, `policy/` | files under `/proc/sys`, the policy's mode and last proposal, the batch under way with its old values | `step`: observe, decide, validate, apply, inform; `swap_policy`; rollback | monitors, an administrator who shares the files | a write fails in the middle, the rollback fails too, the process dies, the policy believes what it proposed | each file holds a safe value or its owner's; batches are all or nothing; settings follow the load |
| **audit trails** `learned_kernel/telemetry/provenance.py`, `virtual_kernel/provenance.py`, `virtual_computer/provenance.py` | a hash-chained JSONL file, sequence number, last hash | append, recover the tail, verify | every decision and every campaign | torn line after a crash, two writers, a failed write | an intact history verifies, a changed one does not |
| **unified computer** `virtual_computer/computer.py`, `vertical.py`, `levels.py`, `lowering.py`, `trust.py` | named worlds, budgets per unit, what was spent, the report of a slice, evidence read from disk | worlds; three probes; the vertical slice, leg by leg; `_spend`; certification; manifests | all three layers | a slice works first and is charged afterwards, unit by unit; a leg raises; evidence is read and looked at again later; gates search texts for words | no phantom spend, charged in full, a grade is earned, the two lowerings agree |
| **virtual compiler** `virtual_compiler/environment.py`, `oracle.py`, `search.py`, `agents.py`, `campaign.py`, `benchmark.py` | branches with configurations and facts, the current branch, the oracle's budget, what the surrogate has seen, a session file | perturb, branch, validate, compare, diff_gate, save, load; six strategies; campaign; benchmark | GCC or a stub through the oracle | measured against predicted values; a budget that runs out inside a search; failed builds; pruned trees; loaded sessions | a fact was measured for what it is told of; the best branch is there and is the fastest |
| **policy laboratory** `self_compiler/policy_lab.py`, `differential.py` | output directory with evidence, binaries, telemetry and `best.policy`; samples by cycle | build, check neutrality, sample in rotation, judge, decide, compare, reject, promote | GCC plugin | a variant fails in the middle of the sampling; the decision is written before the gate ran; labs share a directory | samples stay paired; what is promoted was gated; evidence and artifact agree |
| **kernel simulator and oracle** `learned_kernel/simulator/env.py`, `trainer/reward.py`, `virtual_kernel/oracle.py`, `conservation.py` | simulated time, switches, latency, utilisation; the workload's random stream; calls made | step, reset, evaluate a sequence, search exactly, check invariants | the ladder, the agents, the ensemble | one simulator and one stream are used again and again, by several callers | its answers do not depend on what it was used for before |
| **virtual kernel** `virtual_kernel/environment.py`, `agents.py`, `active.py`, `levels.py` | futures with histories, the active one, training transitions | branch, switch, intervene, step, reset; ladder; VirtualLab; active learning; certification | simulator oracle, ensemble | futures share what they were branched from; vetoes replace a validated candidate | futures are apart; reports tell the oracle's value |
| **drift and adaptation** `learned_kernel/runtime/adaptation.py`, `online_demo.py` | a ring of rewards, the alarm | add, check, consume, train | actuation loop (`swap_policy`) | an alarm not consumed fires again; training fails | one alarm per shift |
| **fix-its, locating, synthesis** `self_compiler/fixits.py`, `locate.py`, `synthesis.py` | none | text to text | repair loop | overlapping edits | only what the diagnostics name changes |
| caches and predictors, drivers, plugin, surrogates and trainers, workloads, statistics, searches of the processors | see section 7 | | | | |

How they interact. The repair loop calls the tool drivers synchronously and
learns only a verdict. The actuation loop calls monitor, policy, validator and
actuator in turn, in one thread; the administrator and the kernel are outside.
The two CPUs call governor, predictor and caches inside a cycle. The unified
computer calls the layers through their Python interfaces: it makes an
environment of the virtual compiler with a stub oracle, runs lowered programs on
both CPUs, steps the kernel simulator, trains an ensemble, charges a ledger and
appends a manifest. The drift manager is told of rewards by the demo that owns
it and answers with a new policy. There are no threads in the implementation:
the concurrency is that of other processes (editor, administrator, second writer
of a log, kill) and of the hardware being simulated.

The hazards that follow are in `PROJECT.json`, each at its line.


## 2 What is modelled

Seven groups of modules. In every one an action is one pass of a loop body or
one step between two effects another process can see; a guard is the code's
condition; numbers that only a statistic or the temperature depends on are
left out, and what they decide is a choice.

### In-order CPU: `VmicroISA`, `SeqISA`, `InOrderCPU`

`VmicroISA` is `vmicro/isa.py`: instructions, what they read and write, values,
addresses. `SeqISA` executes one instruction per step: the abstract
specification. `InOrderCPU` is `machine.py`:

| Code | Model |
|---|---|
| `CPU.run` loop, end of program | `Stop`, `EndOfProgram` |
| head of `step_cycle`: plan, governor, flush bubbles | `StartCycle` |
| `_try_issue_one` | `Issuable`, `MemoryFree`, `Drained`, and `IssueHalt`, `IssueBranch`, `IssueLoad`, `IssueStore`, `IssueAlu`, `IssuePastEnd`, `EndIssue` |
| the retirement loop | `Tick`, `Retire`, `EndCycle` |
| `pending_writes` | `pending` with `Claimed` and `Released` |

A load misses or not by choice, because the cache holds tags and no data; the
energy and thermal equations only decide what the governor may impose, which is
a choice too. Registers are unbounded integers as in the code.

### Out-of-order core: `VmarchISA`, `SeqVmarch`, `OoOCore`

`VmarchISA` adds FENCE, PREFETCH, ECALL and words of fixed width (`SignBit` is
2^31 there) to `VmicroISA`. `OoOCore` is `vmarch/core.py`, a stage at a time in
the code's order (commit, execute, issue, rename, fetch), an action per loop
pass:

| Code | Model |
|---|---|
| `run`, head and tail of `step_cycle`, watchdog | `StartCycle`, `EndCycle`, `Deadlock`, `Stop` |
| `_commit`, compaction, `_reclaim` | `CommitStore`, `CommitHalt`, `CommitOther`, `EndCommit`, `Reclaimed`, `Moved` |
| `_squash`, `_rebuild_free_list` | `Squash`, `RebuiltFree`, `RebuiltReady`, `Truncate` |
| `_advance_exec`, `_complete`, `_resolve_branch` | `ExecDropped`, `Tick`, `Complete`, `ResolveBranch`, `Redirect`, `Astray` |
| `_issue`, `_lsu_ready`, `_dispatch` | `IssueAlu`, `IssueBranch`, `IssueStore`, `IssueLoad`, `Forward`, `IssuePrefetch`, `EndIssue` |
| `_rename` | `CanRename`, `NewEntry`, `Rename`, `EndRename` |
| `_fetch` | `FetchPlain`, `FetchPredicted`, `FetchUnpredicted`, `FetchHalt`, `FetchMiss`, `FetchWaits`, `FetchBubble`, `FetchOutside`, `EndFetch` |

Values, register numbers and queues are exact. Choices are: which of its
latencies the memory answers a load or a missing line with (2, 9, 20 or 45
cycles, from a first-level hit to another row of DRAM, `cache.py:78`, `:112-113`), the
accelerator's set-up time, and the predictor's verdict. The miss registers are a
guard, as in `_lsu_ready` and `_dispatch`: a load waits, or is refused, while the
table of outstanding misses is full (`TableFull`). It never is in this repository:
nothing enters a line into the table (`cache.py:121` creates it, `:166`, `:171` and
`core.py:219`, `:559` look lines up, `:230-234` counts them down), so `Outstanding`
is empty in every state, and no load joins a miss under way.

A redirect marks the slots of the executing list whose entries it dropped after
its pass had gone by them (`gone`; the code has no such mark) and the core goes
on, as `core.py:651-668` does. The behaviour ends when such a slot completes
(`Astray`): the code then completes an entry that has taken the place
(`status = "CORRUPT"`) or raises an IndexError (`"RAISED"`). Up to there every
property is asked.

### Repair loop: `SourceUpdate`, `RepairLoop`

`SourceUpdate` says what the owner of the file may rely on. `RepairLoop` is
`RepairLoop.run` and `PatchManager`, all four modes and every combination of
`--test`, debugger and `--output`. A text is a model value that knows the gates
it passes; a gate may fail a good text.

| Code | Model |
|---|---|
| `run`, the loop over attempts | `Start`, `PrepareBaseline`, `Propose`, `RejectDuplicate`, `AcceptNew`, `NoCandidate`, `Exhausted` |
| `PatchManager.stage` | `Stage` (the file is there), `ListStaged` (the manager knows of it), `StageFails` |
| `_validate_candidate` | `Compile`, and `Analyze`, `Test`, `Benchmark`, each a `Gate` |
| the comparison with the text read at the start | `CheckSource` |
| `backup` | `CopySource`, `RegisterCopy`, `CopyFails` |
| `promote` | `Replace`, `MarkPromoted`, `ReplaceFails` |
| `revert`, `commit`, `_publish_binary` | `Revert`, `RevertFails`, `Commit`, `Publish` |
| an exception in a tool | `Raise` |
| `__exit__`, `cleanup` | `Exit`, `ExitCleanup`, `CleanupFails` |
| KeyboardInterrupt, kill, an editor | `Interrupt`, `InterruptExit`, `Crash`, `ExternalEdit` |

Making a file and noting its name are separate steps, and so are the rename and
its mark, because a kill or Ctrl-C may fall between them; `listed`, `backupPath` and
`promoted` are kept beside the disk because the cleanup reads them and not the
disk. The editor writes at any time, also between the source check and the
rename. `Faults` selects the rest of the environment: exceptions in any tool,
KeyboardInterrupt, a rename back that fails, kill. Nothing is excluded from the
behaviours; `mishaps` remembers, for the properties, which of the few things
happened in this run that the code cannot make good: "late edit" (the editor
wrote during a promotion), "unmarked" (Ctrl-C between the rename and
`_promoted = True`), "not undone" (the rename back failed or was cut off on the way
out), "unnamed" (cut off between making a file and noting its name), "uncleaned"
(cut off in `cleanup`).

### Actuation loop: `AtomicTuning`, `ActuationLoop`

`AtomicTuning` says that the settings change by whole safe batches.
`ActuationLoop` is `LearnedKernelRuntime.step` with the heuristic and the joint
policy, the validator with all of its bounds, the actuator that reads and writes
one file at a time and rolls back in reverse order, and the simulated monitor.
An action is a function from the fields it sets to values, in the units of the
schema; `Rendered` multiplies them into the kernel's units. An observation is
the band of CPU utilisation, the memory telemetry and whether packets wait.
A policy that is not in the repository proposes anything of `Proposals`.

### Audit trails: `HashChainLog`

One file of lines, each with the hash of the line before, and the processes that
append to it. `log` chooses between `ProvenanceLogger` (and `ManifestLog`, which
does the same) and the manifests of the unified computer. What a record says is
a number of its own, and so is its hash.

| Code | Model |
|---|---|
| `_recover_tail`, `_recover` | `Open` |
| `record_decision`, `append` up to the write | `Seal`, `SealFails` |
| `append_manifest` up to the write | `Load` |
| the write, and the update of the tail after it | `Write`, `WriteStops` (nothing, a part, all but the newline, or all of the line is in the file; the process lives or dies) |
| `verify_chain`, `verify` | `Bad`, `FirstBad` |

The manifests of the unified computer have no verifier in the repository;
`Bad` judges their parents and hashes as the other two are judged.
`alone`, `faulty`, `damage` and `acked` remember what happened, for the properties.

### Policy laboratory: `PolicyLab`

| Code | Model |
|---|---|
| `main`, `run_lab` up to the builds | `Refuse`, `Start` |
| `_build` per spec, no control, neutrality | `Build`, `NoControl`, `Neutrality` |
| the rotating sampling loop | `Sample`, `Skip`, `NextCycle`, `NoSamples` |
| `paired_delta_stats`, `rank_improving`, reproducibility | `Judge`, `Rebuild` |
| the evidence, the decision | `Decide` |
| `run_differential` | `Compare`, `Compared` |
| rejection, promotion, the last lines | `Reject`, `Promote`, `Tell` |
| an exception, at any step | `Stop` |

A sample is the cycle it was taken in, because pairing is what can go wrong;
whether a policy improves is a choice of its gain and of its interval. The
output directory outlives the lab: evidence, `best.policy` and telemetry.

### Computer, compiler and kernel: `VirtualCompiler`, `Lowering`, `KernelSimulator`, `VirtualKernel`, `DriftManager`, `VirtualComputer`

`VirtualComputer` EXTENDS the other five: the computer's actions change their
variables too, and `ComputerNext` is their composition. A behaviour is one
process: the command line of the computer, a caller of its library, a session
of the virtual compiler, or a program that uses the virtual kernel or the drift
manager alone. `Free` says that one begins where none has run, since processes
share no memory; compiler sessions may follow one another through a session file.

`VirtualCompiler` is the environment (`Perturb`, `Branch`, `Validate`,
`DiffGate`, `Save`, `Load`), the oracle (`Measure`: a view is charged first, and
what raises afterwards leaves no facts), and the strategies as rounds of
`Expand`, `Think`, `Rank`, `ValidateNext`, `PassOver` and one of `EndScreen`,
`EndTree`, `EndScreenOfSwarm` with `Refute` and `Advise`, `EndCampaignRound`; the
benchmark runs one after the other (`Report`). A configuration is its set of
flags, policies and source transforms. `Built` leaves the policy out, as the
oracle does. What the surrogate ranks is any order.

`Lowering` builds both programs of the slice for every size and executes them
with the meaning `VmicroISA` gives the instructions: the vertical slice is where
the compiler's and the CPU's models meet.

`KernelSimulator` computes step, reset, step reward and the conservation checks
over small integers, with a workload whose stream depends on its seed and
position; `TruthOracle` is a simulator and a stream (`NewOracle`, `Reset`,
`Step`). `ExactReward` says what an oracle that was never used before answers:
the reference definition that every reward told by the models is compared with.

| Code | Model (`VirtualKernel`) |
|---|---|
| `environment.py` | `Boot` and the disjuncts of `Futures` |
| `run_ladder` | `Laddering`: exact search with its budget, beam, tree, what is told |
| `VirtualLab` with proposer, critic, adversary | `Debating` |
| `active_loop` | `Learning` |
| `certify`, the levels | `Assessing` |

| Code | Model (`VirtualComputer`) |
|---|---|
| `__init__`, `branch`, `switch`, `intervene` | `Import`, `Fork`, `Switch`, `Intervene` |
| `_spend` | `CanSpend`, `Spend`, `ChargeProbe` |
| `validate_micro`, `_compiler`, `_kernel` | `ProbeMicro`; `ProbeCompiler`, `Search`, `EndSearch`; `ProbeKernel` |
| `vertical.run_vertical_slice` | `LowerAll`, `StubViews`, `InOrderLeg`, `OutOfOrderLeg`, `Rerun`, `LoadsLeg`, `Score`, `Fails`, `Gates` |
| the charging loop of `computer.run_vertical_slice` | `Charge` |
| `certify_unified`, freshness | `Read`, `Certify`, `EditSource` (somebody else) |
| `_emit_manifest`, end of the process | `Emit`, `Exit` |

`exact` counts the oracle calls that were really made, for the properties; the
code has no such counter. Under "unseen" it counts the compiler probes that were
called with budget 0 and so may have taken no view, though they charge one. Gates
are read off the problems by the words in them, as the code does.

`DriftManager` computes Welch's statistic exactly over integer rewards: a
comparison of squares.

### MC modules

`MCInOrderCPU`, `MCOoOCore`, `MCRepairLoop`, `MCActuationLoop`,
`MCHashChainLog`, `MCPolicyLab` and `MCVirtualComputer` give the constants their
values.


## 3 The runs

Every passing run ends with the whole state space explored. Deadlock is not
checked anywhere because every program here stops: CPUs halt, a repair run
exits, the actuation loop can be killed.

| Run | Question | Bounds and why they suffice |
|---|---|---|
| `inorder_computes` | Does the pipeline compute what the instructions mean, keep its scoreboard exact and finish? | Every program of three instructions from seven (every latency class, a load, two stores, a branch) whose writes do not overlap, and five with loops or no HALT; three registers, two words; a miss takes 9 cycles (20 in the code) and still outlasts the slowest operation; at most 8 in flight, never reached by these programs; the plan may change every 8 cycles; 120 cycles, more than any of them needs, so `Completes` is not cut off. |
| `inorder_overwrite` | The same for two writes to one register. Violated: finding 1. | One program. |
| `ooo_computes` | Does the core compute what the instructions mean, keep its registers and queues consistent, and finish? | All 125 straight programs of three out of five instructions after one that sets r1; loops and branches under every prediction; control bundles that change; three registers on six physical ones, so renaming runs out; reorder buffer 4, stations 3, load/store queue 3, widths 2, so each fills; words of 5 bits, so products wrap; compaction after 3 committed entries instead of 256, so it happens several times; loads take 2 or 9 cycles, longer than DIV. Two programs with the slowest memory, loads of 45 cycles one behind the other and a wrong path that fetches a line while the right one waits, on a buffer of 16, the smallest of the design points: the core is idle for up to 84 cycles against a watchdog of 128 (4 * 16 + 64). A buffer of 4 would have a watchdog of 80 and end such a run as DEADLOCK. Four programs the core does not run exactly, for what is asked of all; 300 cycles, more than any of them needs. |
| `ooo_redirects` | Does a redirect keep every register that is in use off the free list? Violated: finding 3. | One program; five physical registers, so that the register is handed out at once. With 64 it takes a loop. |
| `repair` | Is the source replaced atomically, to nothing ungated, recoverable and clean afterwards, is what is published verified and does a run end, when tools raise, Ctrl-C falls anywhere, renames fail, processes die and an editor writes at any time? | Three revisions, each lacking the gates that tell the modes apart, one sound; an editor's text; three attempts, so the loop repeats, meets duplicates and runs out; all 32 command lines. |
| `repair_overwrites` | Does what an editor saves survive? Violated: finding 4. | One attempt, no fault. |
| `tuning` | Can an unsafe value reach a file, are batches all or nothing, and do the settings follow the policy through its deadband, whatever is proposed or fails, and with an administrator in the middle of a batch? | Proposals on each limit and just beyond it; idle, deadband, busy, busy and short of memory, and no memory telemetry; up to two faults, so a write and its rollback both fail; an administrator who writes what no validator would let pass; policies swapped at any time, and a caller that skips the validator. |
| `chain_log` | Can a restart continue the chain, can a record that was acknowledged get lost without verification noticing, and does verification name the right line? | Two processes, which is what a fork takes; four records, so that a restart, a torn line and a record spoiled by it fit with one more after them; two faults; both kinds of file. |
| `tuning_stuck` | Do the tight settings arrive after one failed write? Violated: finding 2. | One fault. |
| `lab_promotes` | With builds, runs, cases and files that go wrong, do samples stay paired, is what is promoted gated, and do evidence and artifact agree? | Two policies, the least that can be ranked or pair with each other; three measured cycles and a warm-up, so that the rotation comes round and a failure falls in the middle; two cases; two things go wrong. One lab: labs that follow one another in a directory are in the model and were explored while it was written; section 6 says what they show. |
| `worlds_graded` | Are facts measured, futures apart and the oracle's answers exact, does the ledger hold no more than ran, are slices charged in full, grades earned and alarms fresh? | One intervention of every kind; oracle budgets 0 (nothing can be measured) and 3; rounds and depth so that every strategy repeats once; two arms of the kernel and sequences of two steps, all of which the exact search can or cannot afford (budgets 1, 6, 8); a compiler probe that may take its view and one with budget 0; slices of a size the lowering takes and one it refuses, and controls the second CPU can and cannot be compared with; limits that suffice and limits too small for the second CPU and for the kernel probe; a ring of two times two rewards of three values, the least with a variance; one thing going wrong anywhere. |
| `slice_conserves` | Does a level above 0 rest on a slice in which both CPUs conserved their instructions? Violated: finding 5. | Those of `worlds_graded`. |

The properties in one line each; the comments above them say more.

* `InOrderCPU`: `ImplementsSeqISA` (refinement of `SeqISA`), `Interlocks`
  (`NoPhantomPending`: who waits for a register waits for a writer;
  `MemorySerialized`: one memory operation at a time; `HaltDrains`),
  `ScoreboardExact` (the pending set is the destinations in flight),
  `Completes` (HALT is reached with nothing left in flight).
* `OoOCore`: `ImplementsSeqVmarch` (refinement of `SeqVmarch`: an instruction
  happens when it commits), `RegistersAccounted` (each physical register has
  one owner), `WindowConsistent` (`NoOrphanWaits`: who waits for a register waits
  for a producer; `QueuesAgree`: stations, load/store queue and executing list
  agree with the reorder buffer after squash, redirect and compaction),
  `Completes`. `ImplementsSeqVmarch` and `Completes` speak of `ExactSetups`, the
  programs and bundles outside section 6's list; `RegistersAccounted` and
  `NoOrphanWaits` of those in which every taken branch was predicted
  (`TakenArePredicted`), which finding 3 shows to be needed; `QueuesAgree` of all,
  except that only without redirects it says that nothing but live entries
  executes: what a redirect leaves behind is in section 6.
* `RepairLoop`: `ImplementsSourceUpdate`, `OriginalRecoverable`,
  `FailureLeavesSource`, `OnlyGatedInstalled`, `AcceptedBinaryVerified`,
  `NothingLeftBehind`, `Returns`; refuted: `EditsSurvive`. `OnlyGatedInstalled`,
  `AcceptedBinaryVerified` and `Returns` hold whatever happens; each of the others
  names the mishaps after which it asks nothing more of the run.
* `ActuationLoop`: `ImplementsAtomicTuning`, `ReachesOnlyValidated` (no file
  holds an unsafe value its owner did not choose, and the largest queue needs the
  memory telemetry of the same cycle), `NoFlapping`, `TightModeFollows`; refuted:
  `TightModeEngages`. The first two speak of a run until a caller has skipped the
  validator; `ImplementsAtomicTuning` also until a file could not be put back or the
  administrator wrote a file of the batch under way (`mishaps`), and lets a kill leave
  a part of a safe batch, since nothing in the code undoes it.
* `HashChainLog`: `AloneIntact` (one process at a time, restarted and killed at
  will, leaves a chain that verifies), `ChainConsistent` (a chain that verifies
  holds every record whose hash was returned, whatever happened),
  `DamagePinpointed` (the docstring's promise: verification names the line that
  was lost, moved or changed).
* `PolicyLab`: `LabConsistent` (the samples of two variants pair cycle by cycle),
  `PromotedIsSound`, `EvidenceTellsArtifact`.
* `VirtualCompiler`: `FactsAreMeasured` (what a branch says was measured for what
  is built from it, and paid for), `LineageIntact` (pruning and loading cut no
  branch off), `BestIsFastest`.
* `VirtualComputer`: `NoPhantomSpends` (the ledger holds no more of a unit than
  calls were made; the claim of `computer.py:22` but for the probes `exact` counts as
  "unseen"), `ChargedInFull`, `CertificateIsSound` (a level above 0 rests on right
  results of both CPUs, instructions conserved by the second one and a rerun that
  agreed; stale evidence is told), `CleanSlicePasses` (with nothing wrong, every gate
  holds: in particular both lowerings leave the dot product); refuted:
  `SliceConserves`, the same of instructions lost by the first CPU.
* `VirtualKernel`: `OracleIsTruth` (rewards do not depend on what the oracle was
  used for before; exact steps conserve; an exact search that can afford
  everything is not beaten), `FuturesAreApart`.
* `DriftManager`: `AlarmsAreFresh`.

**Fairness.** `InOrderCPU` and `OoOCore` assume `WF_vars(Next)`: `run()` is one
thread in a `while` loop, and each step of it ends. `RepairLoop` assumes weak
fairness of the program's own steps (`Run`) and none of the environment: tools
run under a timeout, so each call returns. `ActuationLoop` assumes weak fairness
of the loop's steps (`Loop`); observations are free, so `TightModeFollows` says
what must follow if the machine stays busy and nothing fails. The other modules
have safety properties only and assume no fairness.


## 4 The proofs

`InOrderCPUProofs`, `OoOCoreProofs`, `RepairLoopProofs`, `ActuationLoopProofs`,
`HashChainLogProofs`, `PolicyLabProofs` and `VirtualComputerProofs` (the
computer and the components it is composed of) hold theorems that TLAPS checks
for every value of the constants. `Folding` holds the two theorems about folds
that `VirtualComputerProofs` instantiates. Every invariant and every action
property of a passing run is stated by one of these theorems, the four
refinements among them; what is left to TLC is liveness.

**InOrderCPU.** `TypeCorrect`: `TypeOK` is inductive; the lemmas are that
removing an element of a sequence and replacing one keep its type
(`RemoveAtFacts`, `ExceptFacts`) and that values, addresses and latencies have
theirs. On it rests `OrderKept`, that the three parts of `Interlocks` hold. Every
step that changes the list of operations does one of three things, append one,
decrement one, remove one, so each invariant is proved against those three
facts and not against eleven actions. Neither assumes that writes do not
overlap: the lost update of finding 1 leaves them true.

The other two do assume it (`NoOverlappingWrites`, of every program), and finding 1
shows that they must. `ScoreboardIsExact` rests on `Exact`: without a branch
backwards, what is in flight lies before the next fetch (`ProgramOrder`), and each
destination in flight is pending and has one writer (`OneWriter`). Here the kinds
of step are four, `Executes`, `Tick`, `Retire` and `Quiet`, whichever action takes
them. `PipelineComputes` is the refinement of `SeqISA`. The mapping `Overlaid` puts
the one writer in flight over a committed register, and the store in flight over
committed memory; then issuing is an instruction of the sequential machine, and
ticking and retiring are stutters. `OneWriter` makes the overlay a function of
the state, and a retiring operation commits what the overlay already
said. It assumes besides that nothing follows a HALT (`HaltIsLast`, as
`programs.py:69` sees to): section 6 says what could issue behind one.

**OoOCore.** Everything is for any program, sizes, control plan and thermal history.
`TypeCorrect` and the unconditional half of `WindowIsConsistent` read off `Inv`,
which joins the types with one part per structure: what an entry holds at each
point of its life (`Fits`), who waits (`WaitingOK`), that the load/store queue
lists the window's loads and stores in ascending order (`LsqOK`), and that what
executes, the slots marked `gone` apart, is of an entry that is neither waiting nor
done, or, in the middle of the execute stage, of one a redirect has dropped and the
pass will still come to (`ExecutingOK`, `DroppedOK`). A list like `Kept` or `Ascending` is defined by
counting; `Ranks`, `AscendingIs` and `AtFacts` turn that into positions, by the
well-foundedness of the natural numbers.

The register theorems assume `TakenArePredicted`, as `RegistersAccounted` and
`NoOrphanWaits` do and finding 3 shows they must: an earlier form of
`NoOrphanWaits` that spoke of all programs held in every run and was not
inductive, and the step that broke it is finding 3. Their invariant is
`Orderly`. Its first half, `Predicted`, says that nothing in flight is without a
prediction, so no redirect happens (`NoRedirect`). Its second half, `Registers`,
says that there is a table of maps, one for each position of the window
(`Mapped`): the map an entry was renamed with, from which its sources, the
register it replaces and the checkpoint of a branch are read. The first map is that
of the committed registers, the last the alias table. By `Parted` each
physical register is free, pending, committed or held by one entry, and by
`Delivered` what is committed or done is ready. Against it the steps are of
five kinds (`StepKinds`): they leave the roles alone, rename, retire, squash or end
the commit stage; a squash restores the first map because a mispredicted branch
is the oldest entry. `OriginHolds` follows a register back through the maps to the
committed one or to the older entry that will deliver it, which gives
`NoOrphanWaits`; counting the four roles gives `RegistersAreAccounted`.
`NothingInUseIsHandedOut` and `NeverCorrupt` say that without redirects
neither the double allocation of finding 3 nor a stale operation occurs; the
latter, and the last part of `WindowIsConsistent`, rest on `Unmarked`, that no slot
was then left behind.

`ExactlySequential` is the refinement of `SeqVmarch`, for the setups that
section 6's list leaves (`ExactSetups`: registers start at 0, taken branches are
predicted, a load waits for one store at most, nothing loads into r0 and no
branch leaves the program at its start). Two invariants are added to the maps.
`Path`: what is in flight is a chain of program counters from the next one to
commit to the next one to fetch, in which each branch that is done went where it
was predicted to go, and nothing follows a HALT. `Values`: a committed register
holds what the sequential machine has in it (`CommittedRight`), an operation
that was issued read what its sources will hold when it is the oldest
(`IssuedRight`), and a register that will be written has the result as soon as
it is ready (`Results`). What "will hold" means needs no history: an operation's
result is what its instruction makes of its sources' results, and `OriginHolds`
leads each source back to an older operation or to a committed register. For
loads the older store is forwarded or has committed. A commit then is the
instruction of the sequential machine that `SeqStep` names, `EndCycle` with
everything drained is its leaving the program, and all other steps are stutters.

**RepairLoop.** The invariant `Inv` joins `TypeOK` with `Gating` (which gates the
candidate has passed at each step), `Promotion` (what the file holds while a
promotion is open), `Backup` (what the rollback copy holds) and `Marked` (what the
flags say of the disk). A candidate is known to be gated only from the verdicts along
the way, so `NothingUngated` is not inductive without `Gating`. No theorem assumes
anything of faults or of the editor. `Recoverable` and `FailureRestores` rest on
`Undone`, that unless a promotion was left unmarked or not undone the flags agree with
the disk; `Implementation`, that the loop implements `SourceUpdate` until such a
promotion or a late edit, besides on `NoRace`, that without a late edit the file and the
copy hold what the promotion put there. `PublishedIsVerified` needs `BinaryInv`,
which follows the binary through the final verification, so that what is published
passed each gate that reads a binary as it is, and not as the text that happened to be
in the file. `RunsAreTidy` needs `TidyInv`: what lies beside the source is known to the
manager, or being made, or a mishap has been noted. That nobody's edit is lost is not a
theorem: finding 4 refutes it.

**ActuationLoop.** `TypeInv` strengthens `TypeOK` by what is known of the action
and the old value inside a batch. The theorems hold for every policy, fault and
administrator, and each says until which mishap: `Validated`, that
`ReachesOnlyValidated` holds, until a caller has skipped the validator (`Guarded`);
its inductive part (`SafeInv`) is that old values to be restored are acceptable too,
which is why a rollback, even a partial one, cannot install anything unsafe.
`Implementation` besides until an old value could not be put back, or the
administrator has written a file that the batch under way has in hand (`Alone`).
`BatchInv` says that the files written so far and those still to be written make up
the action, so a batch maps to one `Tune`, a rollback to a stutter, and a kill to a
part of a safe batch. `DeadbandHolds`, that the tight target comes and goes only with
a busy and an idle machine (`NoFlapping`), needs none of these. Its `FlapInv` ties what
the policy remembers to what it last emitted, the batch under way to what its cycle
saw, and the file of the target to the batch. It is about machines on which only the
loop sets the target, while the heuristic policy, which alone has a deadband, has run
from the start.

**HashChainLog.** `Inv` joins `TypeOK` with one part for each promise, and
everything is for any number of processes and for interleavings of them: what a
process is about to append was sealed by it (`Drafts`), a line that can be read
says something (`LinesSpeak`), `ReadableIsComplete`, `DamageFirst`, and
`SoloIntact`, that as long as processes come one after the other each knows the
last line. `DamageIsPinpointed` needs that a set of bad lines has a first one
(`MinOfNaturals`, from the well-foundedness of the natural numbers), that
appending changes no verdict before the end (`GrowsVerdicts`), and that what comes
after the first bad line leaves it first (`DamageStaysFirst`). `AloneIsIntact` is for any number of restarts: what a process reads
of the file when it opens it is what the process before it knew.

**PolicyLab.** `Inv` joins the types with `Sampling` (sample i of every variant
that did not fail is of the i-th measured cycle; within a cycle, those that had
their turn are one ahead), `Deciding` (who may be the winner, phase by phase, and
which of its comparisons were made) and `Telling` (what `best.policy` and the end
of the evidence are, phase by phase). The three theorems read off one conjunct
each; none is inductive without the types of the queue of variants, which hold
each variant once. It assumes that the policies have distinct names, other
than those of the baseline and the control, and at least three runs, as
`policy_lab.py` checks of its input.

**VirtualCompiler**, in `VirtualComputerProofs`. `OracleFeedsSurrogate` proves
`FactsAreMeasured`. It is not inductive alone, because a session file may be loaded later: `FactsInv` says the
same of the file (`SavedInv`), and that the views are finite. Every step is a
rearrangement (no branch then knows what none knew), a restart, a measurement, a
save or a load; each of the five keeps `FactsInv`, and a save does because a file
holds no more facts than the branches, whose facts are among the views.
`LineageKept` and `FastestReported` share `WorldInv`: the tree is whole, in memory
(`Whole`) and in the file (`FileInv`), what a round made hangs on the branch it
began at (`MadeInv`), so that what is pruned is never a parent of what is kept, no
kid is validated twice (`TodoInv`), and the best so far is the fastest of those
validated (`FastSoFar`). That a new name is always free is the pigeonhole
principle over a finite tree. The search space is finite (`SearchAssumption`:
`SEARCH_SPACE` is a list in the source, `search.py:44`).

**VirtualComputer.** `FactsMeasured`, `WorldsStayWhole` and `ProbeReportsFastest`
carry the three theorems of `VirtualCompiler` over to the computer, whose probe
and slice make environments of their own; `AtInv` says that outside a probe's
search no strategy is at work. `PaidInFull` proves `ChargedInFull`:
`ComputerInv` says which units of a slice are in the ledger while it is charged,
that only the command line emits, and that nobody spends between the charge and
the manifest. `NeverOverBudget` adds `BudgetInv`: a ledger is empty when a
computer begins. `SpendsAreReal` proves the other direction, `NoPhantomSpends`, from
`PhantomInv` (every unit in the ledger was run, and so was what a slice will
charge) and `SearchInv` (a probe's search has taken its view before it is done, unless
its budget is 0). It assumes nothing of the budgets: a probe with budget 0 is what
`exact` counts as "unseen", and is the only one the ledger holds without a call.
`GradesAreEarned` proves `CertificateIsSound` from `GradeInv`: every fault of a
slice left a problem of its own (`SliceInv`), so a report whose gates all hold
tells of none but the one no gate sees (`ReportInv`, finding 5), and between the two
looks at it an artifact may grow stale and never fresh (`CertInv`).
`FuturesStayApart` proves `FuturesAreApart` for the virtual kernel: each future
owns its history and its actions (`OwnStory`), also while it is explored; it
assumes a horizon and a beam of at least 1, because an exploration takes the first
result (`agents.py:96`). `DriftReportedOnce` proves `AlarmsAreFresh` for
every window and threshold, from the invariant that the ring holds what came since
the last alarm was dealt with. All of them assume of the constants that limits and
costs are natural numbers and that the factorial of a slice is finite.

`OracleTellsTheTruth` proves `OracleIsTruth`. An oracle is reset before it is asked, and
its state after a reset depends on its seed alone (`OracleOK`); so what a walk computes is
what a fresh oracle computes for the same actions (`TruthInv`, with one part for what each
procedure has under way: the candidates of the exact search, the beam, the branches that
were told, the pool). The walks are folds, and what a fold keeps is proved in
`Folding` by the well-foundedness of the natural numbers, over the table of
partial folds that the library's definition computes; a fold with a step of its own takes
it by `INSTANCE Folding WITH Next <- ..., Fact <- ...`. That the exact steps conserve
(`Follows`, `NothingBroken`) needs the workload to ask for 1 to `MaxDemand` units
(`Demands`), as the workload of the simulator clamps its demand (`env.py:62`).

`CleanSlicesPass` proves `CleanSlicePasses` from `CleanInv`: a problem is put
down only beside a fault. The step that matters is that the two programs compute
the same: executing a lowering is a fold of `Execute`, the scalar one adds up
the products one element at a time (`ScalarFact`) and the blocked one two at a
time (`VectorFact`), and both leave the sum that `Summing` folds from the
operands. The blocked one has fewer memory operations (`FewerAccesses`). It
assumes `SmallSlices`, sizes of at most 100: `lowering.py` puts the vectors at
100 and at 200, and beyond that they overlap.

`TypesHold` proves `TypeOK` of the composition. Its invariant `AllInv` joins
nine of the invariants above with what none of them needed: budgets, jobs and
branches of the environments (`EnvGood`), who calls and which world is active
(`DeskInv`), the counters (`Exactly`, `ChargedInv`, `ProcedureInv`) and the ring
of the drift manager (`DriftInv`). It is more than types: `TypeOK` says that no
ledger exceeds its limit, that the active world and the future in focus exist,
and that what a branch knows is a measurement the oracle can make.

**Assumptions.** Each is named in the module that declares the constant, and TLC
evaluates it on the runs: `ArmsAssumption`, `SeedsAssumption`, `KernelAssumption`,
`SearchesAssumption` (the kernel's arms are distinct and not empty, seeds are integers,
a horizon and a beam are at least 1), `OperandsAssumption`, `SearchAssumption`,
`BudgetsAssumption`, `BoundsAssumption` (the flags of the compiler are finite, budgets
are natural numbers, a strategy has a round or more), `LimitsAssumption`,
`ProbeAssumption`, `DisksAssumption`, `StubAssumption` (the stub's three run times are
within `MaxRuntime`) and `DriftAssumption`. `Demands` and `SmallSlices` are hypotheses
of the theorems that need them.

**Only model-checked.** Liveness under fairness, which the prover does not do:
`Completes` of both processors, `Returns` of the repair loop, `TightModeFollows` of
the actuation loop.


## 5 Findings

1. `vmicro/machine.py:547`, run `inorder_overwrite`. There is no check of two
   writes to one register. `DIV r1` then `ADDI r1` leaves DIV's value in r1.
2. `policy/core.py:127`, run `tuning_stuck`. The policy remembers what it
   proposed. After one failed write it believes the tight settings are in force
   and never proposes them again.
3. `vmarch/core.py:687`, run `ooo_redirects`. The rebuilt free list leaves out the
   registers that writers in flight replace (`prev_phys`). After the redirect of a
   taken branch that was not predicted the alias table stays as the dropped
   entries left it, so such a register is handed out, and is freed once more when
   the older writer commits. Two instructions then share it, or one waits for
   itself: loops with slow writers before such branches end as DEADLOCK under
   `thermal_recovery`, also with the 64 registers of the default design. The
   attempt to prove `NoOrphanWaits` for every setup led here.
4. `modes.py:177`, run `repair_overwrites`. The source is compared with the text read
   at the start (`:167`), then copied and replaced without another look. What an editor
   saves in between is replaced by the candidate, and may be lost with the rollback
   copy, although `:169` says the loop refuses to overwrite it.
5. `vertical.py:301`, run `slice_conserves`. The gate looks for "conservation" in the
   problems, and what a failed check of the first CPU writes (`vertical.py:137`) does
   not hold the word. A slice that lost instructions there keeps its level, although
   `levels.py:4-7` says the grade is valid only while conservation passes.


## 6 Seen while modelling

Behaviour the models contain or exclude by name, and no run is spent on.

* vmicro: running off the end drops what is in flight (`machine.py:384`, `:586`).
  Instructions behind a HALT may issue in the same cycle (`:401`, `:410`).
* vmarch: `reg_init` does not reach the physical registers (`core.py:113-125`);
  `Core` without a configuration raises in its constructor (`core.py:153`);
  a load takes the datum of the oldest matching store and not of the youngest
  (`core.py:531-545`), so `OneStorePerLoad` leaves programs with two of them out of
  the refinement; `LOAD r0` writes the last physical register
  (`core.py:427`). A taken branch without a
  prediction drops the younger entries and leaves the alias table as they renamed
  it (`core.py:643`), so the `branch_like` workload ends with other registers
  under the bundles `irregular` and `thermal_recovery`; operations of dropped entries
  that stand before it in the executing list are not "retired via the
  _drop_redirect set" as `core.py:651-655` says, and complete an entry that was
  renamed into their place, or raise (`Astray`). A branch below 0 ends as DEADLOCK although
  `isa.py:135` promises fall-through and halt; loads do not wait for a FENCE
  (`isa.py:4`); words wrap although `isa.py:3` says identical semantics. These
  are what `Exact` excludes. The table of outstanding misses is always empty, so
  `mshr_entries` changes nothing (section 2).
* Repair: Ctrl-C between the rename and `_promoted = True` (`patch.py:60`) leaves the
  candidate in the file and deletes the original with the copy ("unmarked");
  a failing rename back on the way out does the same (`patch.py:97`, "not undone");
  Ctrl-C between making a candidate or a copy and noting its name leaves the file
  (`patch.py:29`, `:46`: "unnamed", as does a copy that fails), and one in `cleanup`
  leaves the rest ("uncleaned"). In noop mode
  the binary is published without a test (`modes.py:413`); self-correct with
  only a debugger accepts what it does not test (`modes.py:493`).
* Actuation: wakeup against target granularity is compared only within one
  action (`validator/core.py:53`), so two actions may leave them at odds; the
  simulator is told None after a rejected action (`loop.py:234`); `CUBIC` passes
  the validator and is written as such (`loop.py:98`); `approved` defaults to
  True (`loop.py:111`); a failing rollback is swallowed (`loop.py:148`); an
  exception of `observe` leaves `step` (`loop.py:189`).
* Audit trails: a failed append uses up a number, and verification calls the gap
  tampering (`telemetry/provenance.py:64`); a torn line makes the next start and
  the verification raise instead of reporting a line (`:43`, `:105`); two
  processes fork the chain (`:82`), also of manifests, where reading the parent
  and appending are two steps (`virtual_computer/provenance.py:99`). A lost last
  line is not noticed, which the docstring does not exclude. The strict mode of
  `append_manifest` (`virtual_computer/provenance.py:9`) is not in the code.
* Policy laboratory: a lab in a directory that another used reads its telemetry,
  which the plugin appends to, so a policy that gated nothing may count as one
  that did (`policy_lab.py:232`); a rejection replaces the last line, which by
  then is the differential result, and the first decision stays (`:811`), so
  `EvidenceTellsArtifact` speaks of the last one; `best.policy` of an earlier lab
  survives a rejection; two timeouts are compared as two errors because their
  texts differ from what `differential.py:109` expects; a control that fails in
  the middle still serves as reference; with objective "size", or no trials,
  promotion is ungated; a plugin that is not neutral is only told of.
* Virtual compiler: a view that raises is charged and leaves no evidence, contra
  `oracle.py:11-13`; the policy never reaches the compiler, so two branches that
  differ in it are the same program; the campaign's incumbent is the best of its
  round only and may be slower than the one before; a search reports the branches
  it evaluated as its calls and not what it was charged; loading an older file
  refunds views; the campaign's veto cannot be cast; each arm of the benchmark
  measures its own root; the swarm ignores what its proposer proposes, and a
  branch its validator finds faster never becomes current.
* Unified computer: the slice measures forks and not what the perturbations made
  of them, so "O0" is measured at -O2 and "O3" at -O0 (`vertical.py:117-122`); the
  compiler's probe charges one view although with a budget of 0 it makes none
  (`computer.py:238`), against "No phantom spends: every counted unit corresponds to an
  exact-oracle call" (`:22`): `NoPhantomSpends` is the claim with these counted apart; the
  processor's probe charges 1 for several runs and the kernel's none for the
  training; a refused unit leaves the earlier ones charged and loses the report;
  an odd size, and controls without "balanced", raise after part of the work (two runs
  of the second CPU, `vertical.py:174`);
  certification alone passes no report, so its integration grade is 0. Between
  the two looks at the kernel artifact a grading source may be edited; that
  somebody re-runs the kernel's benchmark there is not modelled.
* Kernel: a reset restores everything but the time (`env.py:121`), so a start in
  the middle of an episode breaks the invariant of the time that
  `conservation.py:10-11` says holds by construction, and its first reward uses a
  time step of its own (`reward.py:63-65`): `StepsConserve` names it. After a veto the
  agents report a sequence nobody validated beside the reward of the one it
  replaced (`agents.py:132`, `:150`), and a second veto may bring back a candidate
  that was vetoed (`:148`): `RewardsAreExact` speaks of sequences they checked. An
  `intervene` gives the first member of the ensemble the latent state of whichever
  was best; the ladder's budget limits only its second rung; `branch` overwrites
  a name that exists; a level's "unseen" combinations were all trained on
  (`levels.py:46`, `:224-227`).
* Drift: without variance the statistic is 0, so an abrupt shift without noise is
  seen only while it passes through a window; a training that raises leaves the
  ring full and the alarm fires again.


## 7 Not modelled

* Surrogates, predictors, trainers, statistics, studies: floating point,
  sequential, without control a checker could tell apart. Wherever a module asks
  them, any answer is a choice.
* Tool drivers, the GCC plugin, logging, command lines: process launches and
  parsing. Their verdicts are choices of the repair loop, their telemetry a file
  of `PolicyLab`.
* Caches and branch predictors of vmarch: their answers are choices of `OoOCore`.
  They carry no data. What they decide is how long a load or a line takes, which is
  any of the memory's latencies in `OoOCore`, and whether a load is held back or refused
  for want of a miss register, which the module keeps as a guard (section 2).
* Snapshots and forks of the CPUs: deep copies.
* Fix-its, locating and synthesis: pure functions over source text, whose result
  is open in `RepairLoop`.
* The compiler and surrogate legs of the slice: one needs GCC and is off by
  default, the other gates nothing.
* Beam and tree searches of the processors, workload generators, traces: no
  state another part reads but the number of runs, which `ProbeMicro` charges.


## 8 Plan

Done: `InOrderCPU` and `SeqISA`; `RepairLoop` and `SourceUpdate`;
`ActuationLoop` and `AtomicTuning`; `OoOCore` and `SeqVmarch`; `HashChainLog`;
`PolicyLab`; `VirtualCompiler`, `Lowering`, `KernelSimulator`, `VirtualKernel`,
`DriftManager` and their composition `VirtualComputer`.

Left, in this order:

1. `HashChainLog` under the manifests of `VirtualComputer`: two command lines
   that certify at the same time.
2. Overlapping fix-its as an operator, against a reference definition.
