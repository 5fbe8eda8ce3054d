----------------------------- MODULE InOrderCPU -----------------------------
(***************************************************************************)
(* The in-order pipelined CPU of microarchitecture/vmicro/machine.py: the  *)
(* "exact oracle" the surrogates are trained on and validated against.     *)
(*                                                                         *)
(* run() calls step_cycle() until the machine halts or the cycle budget is *)
(* spent.  One cycle is one StartCycle (control plan, safety governor,     *)
(* flush bubble), up to `width' issue steps in program order, and one pass *)
(* over the in-flight list that decrements each operation and writes back  *)
(* those that are finished, so operations complete out of order.           *)
(*                                                                         *)
(* Values are exact.  What only affects timing is a choice: a cache access *)
(* hits or misses, the accelerator pays its setup or not, and the thermal  *)
(* headroom the governor reads is any of its three classes.                *)
(***************************************************************************)
EXTENDS VmicroISA, FiniteSets, SequencesExt

CONSTANTS
  InitStates,    \* reg_init and mem_init of the constructor: [regs, mem] pairs
  Bundles,       \* control bundles: what set_control and the governor may install
  Recovery,      \* ACTION_LIBRARY["thermal_recovery"]
  Interval,      \* cycles between two entries of the control plan
  MissLatency,   \* DRAM_MISS_LATENCY (20)
  InFlightCap,   \* structural limit on operations in flight (8)
  MaxCycles      \* max_cycles: run() stops there and reports TIMEOUT

PowerModes == {"eco", "balanced", "turbo"}
SpecModes  == {"off", "conservative", "aggressive"}
Bundle     == [power : PowerModes, spec : SpecModes, accel : BOOLEAN]

ASSUME InitStatesAssumption ==
  \A s \in InitStates : /\ s.regs \in [Reg -> Int] /\ s.regs[0] = 0
                        /\ s.mem \in [Addr -> Int]
ASSUME BundlesAssumption ==
  /\ Bundles \subseteq Bundle
  /\ Recovery \in Bundles
  /\ \A b \in Bundles :
       b.power = "turbo" => [b EXCEPT !.power = "balanced"] \in Bundles
ASSUME LimitsAssumption ==
  {Interval, MissLatency, InFlightCap, MaxCycles} \subseteq Nat \ {0}

VARIABLES
  prog,       \* the program
  regs,       \* committed registers
  mem,        \* committed memory
  fetchPc,    \* fetch_pc
  inFlight,   \* issued, not yet retired operations, in issue order
  pending,    \* pending_writes: registers the RAW check waits for
  btable,     \* branch_table: the 2-bit counter of each pc
  control,    \* the applied control bundle
  bubble,     \* _bubble: mispredict flush cycles left
  halted,     \* the machine has halted
  phase,      \* where run()/step_cycle() stands
  slots,      \* issue slots left in this cycle
  cursor,     \* position of the retire loop in inFlight
  cycles      \* stats.cycles

cpuVars == <<regs, mem, fetchPc, inFlight, pending, halted>>
vars == <<prog, cpuVars, btable, control, bubble, phase, slots, cursor, cycles>>

InFlightOp == [pc : Nat, left : Int, val : Int, addr : Addr]

TypeOK ==
  /\ prog \in Seq(Instr)
  /\ regs \in [Reg -> Int]
  /\ mem \in [Addr -> Int]
  /\ fetchPc \in Int
  /\ inFlight \in Seq(InFlightOp)
  /\ \A k \in 1 .. Len(inFlight) : inFlight[k].pc < Len(prog)
  /\ pending \subseteq Reg
  /\ btable \in [0 .. Len(prog) - 1 -> 0 .. 3]
  /\ control \in Bundles
  /\ bubble \in Nat
  /\ halted \in BOOLEAN
  /\ phase \in {"run", "issue", "retire", "done"}
  /\ slots \in 0 .. 3
  /\ cursor \in Nat \ {0}
  /\ cycles \in Nat

InstrOf(op) == prog[op.pc + 1]

-----------------------------------------------------------------------------
(* Timing: POWER_CHARACTERISTICS, with latency scales in hundredths.       *)

Width(b) == CASE b.power = "eco" -> 1 [] b.power = "balanced" -> 2 [] OTHER -> 3
Scale(b) == CASE b.power = "eco" -> 125 [] b.power = "balanced" -> 100 [] OTHER -> 78

CeilDiv(a, b) == (a + b - 1) \div b

AluBase(i, b) ==
  CASE i.op = "MUL"        -> 3
    [] i.op = "DIV"        -> 6
    [] i.op \in VectorOps  -> IF b.accel THEN 2 ELSE 4
    [] OTHER               -> 1

\* _alu_latency_energy: an idle accelerator costs two setup cycles more.
AluLatency(i, b, setup) ==
  CeilDiv(AluBase(i, b) * Scale(b), 100)
    + IF setup /\ b.accel /\ i.op \in VectorOps THEN 2 ELSE 0

\* _cache_access and the partial scaling of memory latencies.
MemLatency(b, hit) ==
  CeilDiv((IF hit THEN 2 ELSE MissLatency) * (600 + 4 * Scale(b)), 1000)

MispredictPenalty == 4

\* _update_predictor: a 2-bit saturating counter.
TrainedNoSaturation(c, taken) == IF taken THEN c + 1 ELSE c - 1
Trained(c, taken) ==
  IF taken THEN (IF c = 3 THEN 3 ELSE c + 1) ELSE (IF c = 0 THEN 0 ELSE c - 1)

-----------------------------------------------------------------------------
(* The hard safety governor, applied by set_control and every cycle.       *)

Governed(b, headroom) ==
  CASE headroom = "exhausted"                   -> Recovery
    [] headroom = "low" /\ b.power = "turbo"    -> [b EXCEPT !.power = "balanced"]
    [] OTHER                                    -> b

Init ==
  /\ prog \in Programs
  /\ \E s \in InitStates : regs = s.regs /\ mem = s.mem
  /\ fetchPc = 0
  /\ inFlight = <<>>
  /\ pending = {}
  /\ btable = [p \in 0 .. Len(prog) - 1 |-> 1]
  /\ control \in Bundles
  /\ bubble = 0
  /\ halted = FALSE
  /\ phase = "run"
  /\ slots = 0
  /\ cursor = 1
  /\ cycles = 0

-----------------------------------------------------------------------------
(* run(): the loop around step_cycle.                                      *)

PastEnd == fetchPc >= Len(prog)

\* The loop condition fails: the result is HALTED or TIMEOUT.
Stop ==
  /\ phase = "run"
  /\ halted \/ cycles >= MaxCycles
  /\ phase' = "done"
  /\ UNCHANGED <<prog, cpuVars, btable, control, bubble, slots, cursor, cycles>>

\* Nothing left to fetch and nothing in flight: the program has ended.
EndOfProgram ==
  /\ phase = "run" /\ ~halted /\ cycles < MaxCycles
  /\ PastEnd /\ inFlight = <<>>
  /\ halted' = TRUE
  /\ phase' = "done"
  /\ UNCHANGED <<prog, regs, mem, fetchPc, inFlight, pending, btable, control,
                 bubble, slots, cursor, cycles>>

\* The head of step_cycle.  At an interval boundary the control plan may
\* request another bundle; the governor then has the last word on it.  A
\* flush bubble costs the whole issue stage of the cycle.
StartCycle(requested, headroom) ==
  /\ phase = "run" /\ ~halted /\ cycles < MaxCycles
  /\ ~(PastEnd /\ inFlight = <<>>)
  /\ requested # control => cycles % Interval = 0
  /\ control' = Governed(requested, headroom)
  /\ IF bubble > 0
       THEN /\ bubble' = bubble - 1
            /\ phase' = "retire"
            /\ UNCHANGED slots
       ELSE /\ phase' = "issue"
            /\ slots' = Width(control')
            /\ UNCHANGED bubble
  /\ cursor' = 1
  /\ UNCHANGED <<prog, cpuVars, btable, cycles>>

-----------------------------------------------------------------------------
(* _try_issue_one: the oldest instruction not yet issued.                  *)

Fetched == prog[fetchPc + 1]

InProgram == 0 <= fetchPc /\ fetchPc < Len(prog)

MemInFlight == \E k \in 1 .. Len(inFlight) : IsMem(InstrOf(inFlight[k]))

\* Faulty variants, for the mutation runs: a check the code could have missed.
Unchecked == TRUE

\* RAW hazard: no source register has a pending write.
SourcesReady == Reads(Fetched) \cap pending = {}

\* Memory operations go one at a time.
MemoryFree == IsMem(Fetched) => ~MemInFlight

\* HALT waits until everything older has retired.
Drained == Fetched.op = "HALT" => inFlight = <<>>

Issuable ==
  /\ InProgram
  /\ SourcesReady
  /\ MemoryFree
  /\ Len(inFlight) < InFlightCap
  /\ Drained

IssueSlot == phase = "issue" /\ slots > 0 /\ ~halted /\ bubble = 0

\* The registers an issued instruction makes pending.  Faulty variants: rd of
\* whatever instruction, and loads forgotten.
ClaimedAlways(i) == {i.rd}
ClaimedButLoads(i) == IF i.op = "LOAD" THEN {} ELSE Writes(i)
Claimed(i) == Writes(i)

\* Enter the instruction with its result, its latency and its destination.
Enter(left, val, addr) ==
  /\ inFlight' = Append(inFlight,
                   [pc |-> fetchPc, left |-> left, val |-> val, addr |-> addr])
  /\ pending' = pending \cup Claimed(Fetched)
  /\ slots' = slots - 1

\* HALT waits until the pipeline has drained.
IssueHalt ==
  /\ IssueSlot /\ Issuable
  /\ Fetched.op = "HALT"
  /\ Enter(1, 0, 0)
  /\ fetchPc' = fetchPc + 1
  /\ UNCHANGED <<prog, regs, mem, btable, control, bubble, halted, phase, cursor, cycles>>

\* A branch is resolved when it issues; a misprediction is paid in latency
\* and bubbles, and the predictor is trained unless speculation is off.
IssueBranch ==
  /\ IssueSlot /\ Issuable
  /\ IsBranch(Fetched)
  /\ LET taken      == Taken(Fetched, regs)
         speculates == control.spec # "off"
         miss       == speculates /\ (btable[fetchPc] >= 2) # taken
     IN  /\ Enter(IF ~speculates THEN 2 ELSE IF miss THEN 1 + MispredictPenalty ELSE 1,
                  0, 0)
         /\ bubble' = CASE ~miss                            -> bubble
                        [] miss /\ control.spec = "conservative" -> bubble + MispredictPenalty
                        [] OTHER                            -> bubble + MispredictPenalty - 2
         /\ btable' = IF speculates
                        THEN [btable EXCEPT ![fetchPc] = Trained(@, taken)]
                        ELSE btable
         /\ fetchPc' = IF taken THEN fetchPc + Fetched.imm ELSE fetchPc + 1
  /\ UNCHANGED <<prog, regs, mem, control, halted, phase, cursor, cycles>>

\* A load reads memory when it issues.
IssueLoad(hit) ==
  /\ IssueSlot /\ Issuable
  /\ Fetched.op = "LOAD"
  /\ LET a == EffAddr(Fetched, regs) IN Enter(MemLatency(control, hit), mem[a], a)
  /\ fetchPc' = fetchPc + 1
  /\ UNCHANGED <<prog, regs, mem, btable, control, bubble, halted, phase, cursor, cycles>>

\* A store captures address and datum when it issues, writes when it retires.
IssueStore(hit) ==
  /\ IssueSlot /\ Issuable
  /\ Fetched.op = "STORE"
  /\ Enter(MemLatency(control, hit), regs[Fetched.rs2], EffAddr(Fetched, regs))
  /\ fetchPc' = fetchPc + 1
  /\ UNCHANGED <<prog, regs, mem, btable, control, bubble, halted, phase, cursor, cycles>>

\* Every other instruction computes its result when it issues.
IssueAlu(setup) ==
  /\ IssueSlot /\ Issuable
  /\ Fetched.op \in ScalarOps \cup VectorOps
  /\ Enter(AluLatency(Fetched, control, setup),
           AluValue(Fetched, regs[Fetched.rs1], regs[Fetched.rs2]), 0)
  /\ fetchPc' = fetchPc + 1
  /\ UNCHANGED <<prog, regs, mem, btable, control, bubble, halted, phase, cursor, cycles>>

\* Fetching outside the program halts the machine on the spot, whatever is
\* still in flight.
IssuePastEnd ==
  /\ IssueSlot /\ ~InProgram
  /\ halted' = TRUE
  /\ phase' = "retire"
  /\ UNCHANGED <<prog, regs, mem, fetchPc, inFlight, pending, btable, control,
                 bubble, slots, cursor, cycles>>

\* No slot left, a hazard, or a bubble opened by the branch just issued.
EndIssue ==
  /\ phase = "issue"
  /\ slots = 0 \/ bubble > 0 \/ (InProgram /\ ~Issuable)
  /\ phase' = "retire"
  /\ UNCHANGED <<prog, cpuVars, btable, control, bubble, slots, cursor, cycles>>

-----------------------------------------------------------------------------
(* The tail of step_cycle: one pass over the in-flight operations.         *)

AtCursor == phase = "retire" /\ cursor <= Len(inFlight)

Tick ==
  /\ AtCursor
  /\ inFlight[cursor].left > 1
  /\ inFlight' = [inFlight EXCEPT ![cursor].left = @ - 1]
  /\ cursor' = cursor + 1
  /\ UNCHANGED <<prog, regs, mem, fetchPc, pending, halted, btable, control,
                 bubble, phase, slots, cycles>>

\* The registers a retiring operation releases.  Faulty variant: loads keep theirs.
ReleasedButLoads(i) == IF i.op = "LOAD" THEN {} ELSE Writes(i)
Released(i) == Writes(i)

\* A finished operation takes effect and leaves.  Its destination is
\* released whether or not a younger operation will write it too.
Retire ==
  /\ AtCursor
  /\ inFlight[cursor].left <= 1
  /\ LET op == inFlight[cursor]
         i  == InstrOf(op)
     IN  /\ halted' = (halted \/ i.op = "HALT")
         /\ regs' = WriteBack(regs, i, op.val)
         /\ mem' = IF i.op = "STORE" THEN [mem EXCEPT ![op.addr] = op.val] ELSE mem
         /\ pending' = pending \ Released(i)
  /\ inFlight' = RemoveAt(inFlight, cursor)
  /\ UNCHANGED <<prog, fetchPc, btable, control, bubble, phase, slots, cursor, cycles>>

EndCycle ==
  /\ phase = "retire"
  /\ cursor > Len(inFlight)
  /\ cycles' = cycles + 1
  /\ phase' = "run"
  /\ UNCHANGED <<prog, cpuVars, btable, control, bubble, slots, cursor>>

-----------------------------------------------------------------------------
Next ==
  \/ Stop
  \/ EndOfProgram
  \/ \E b \in Bundles, h \in {"exhausted", "low", "ample"} : StartCycle(b, h)
  \/ IssueHalt
  \/ IssueBranch
  \/ \E hit \in BOOLEAN : IssueLoad(hit) \/ IssueStore(hit)
  \/ \E setup \in BOOLEAN : IssueAlu(setup)
  \/ IssuePastEnd
  \/ EndIssue
  \/ Tick
  \/ Retire
  \/ EndCycle

Spec == Init /\ [][Next]_vars

\* run() is a loop of one thread: it takes its next step until it returns.
FairSpec == Spec /\ WF_vars(Next)

-----------------------------------------------------------------------------
(* What the pipeline means as a sequential machine: an operation counts as *)
(* executed when it issues, so the architectural state is the committed    *)
(* one overlaid with the results still in flight, the youngest last.       *)

Writers(r) == {k \in 1 .. Len(inFlight) : r \in Writes(InstrOf(inFlight[k]))}

StoresTo(a) == {k \in 1 .. Len(inFlight) :
                  InstrOf(inFlight[k]).op = "STORE" /\ inFlight[k].addr = a}

ArchRegs == [r \in Reg |-> IF Writers(r) = {} THEN regs[r]
                           ELSE inFlight[Max(Writers(r))].val]

ArchMem == [a \in Addr |-> IF StoresTo(a) = {} THEN mem[a]
                           ELSE inFlight[Max(StoresTo(a))].val]

\* Is a HALT in flight?
HaltInFlight == \E k \in 1 .. Len(inFlight) : InstrOf(inFlight[k]).op = "HALT"

Seq_ == INSTANCE SeqISA
  WITH pc <- fetchPc, regs <- ArchRegs, mem <- ArchMem,
       stopped <- halted \/ HaltInFlight

\* The programs the machine executes exactly.  No write can overtake an older
\* one to the same register: the younger instruction reads its destination
\* first, or both wait for the memory port.
HasBackEdge(p) == \E k \in 1 .. Len(p) : IsBranch(p[k]) /\ p[k].imm <= 0

NoOverlappingWrites(p) ==
  \A j, k \in 1 .. Len(p) :
    /\ j < k \/ HasBackEdge(p)
    /\ Writes(p[j]) \cap Writes(p[k]) # {}
    => \/ Writes(p[k]) \subseteq Reads(p[k])
       \/ IsMem(p[j]) /\ IsMem(p[k])

\* Out-of-order completion, speculation, control changes and thermal
\* overrides never change what a program computes (machine.py, "Exact oracle
\* CPU"): every step is a step of the sequential machine or none at all.
ImplementsSeqISA == Seq_!Spec

\* A register the RAW check waits for has a writer in flight: no instruction
\* can wait for a release that will never come.
NoPhantomPending == \A r \in pending : Writers(r) # {}

\* "Program-order memory": a memory operation in flight is the only one, so a
\* load cannot have read memory before an older store reached it.
MemorySerialized ==
  \A j, k \in 1 .. Len(inFlight) :
    IsMem(InstrOf(inFlight[j])) /\ IsMem(InstrOf(inFlight[k])) => j = k

\* "HALT is a barrier": nothing older is in flight beside a HALT.
HaltDrains ==
  \A k \in 1 .. Len(inFlight) : InstrOf(inFlight[k]).op = "HALT" => k = 1

\* The three interlocks that keep the order of a program although its operations
\* complete out of order.
Interlocks == NoPhantomPending /\ MemorySerialized /\ HaltDrains

\* For programs in which no write can overtake an older one, the scoreboard is
\* exact: pending holds the destinations in flight, and each has one writer.
ScoreboardExact ==
  \A r \in Reg : /\ r \in pending <=> Writers(r) # {}
                  /\ \A j, k \in Writers(r) : j = k

\* The machine does not starve itself: a terminating program reaches HALT
\* within the cycle budget whatever the control plan and the governor do, and
\* every operation it issued has been written back, so that the registers and
\* the memory run() leaves are the program's results.
Completes == <>(phase = "done" /\ halted /\ inFlight = <<>>)
=============================================================================
