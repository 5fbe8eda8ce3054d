------------------------------ MODULE OoOCore ------------------------------
(***************************************************************************)
(* The out-of-order core of microarchitecture/vmarch/core.py: fetch with   *)
(* prediction, renaming onto physical registers, out-of-order issue with   *)
(* store-to-load forwarding, in-order commit, recovery by squash.          *)
(*                                                                         *)
(* run() calls step_cycle(), which runs the stages backwards: commit,      *)
(* execute, issue, rename, fetch.  Each stage is a loop; an action is one  *)
(* pass through its body.                                                  *)
(*                                                                         *)
(* Values, registers and queues are exact.  What only affects timing is a  *)
(* choice: which of its latencies the memory answers a load or a missing   *)
(* instruction line with, the set-up of the accelerator, what the branch   *)
(* predictor says.                                                         *)
(***************************************************************************)
EXTENDS VmarchISA, FiniteSets, SequencesExt

CONSTANTS
  Setups,         \* what a Core is constructed and run with
  Recovery,       \* ACTION_LIBRARY["thermal_recovery"]
  Cfg,            \* MicroarchConfig: widths and sizes
  LineWords,      \* cfg.line_words
  CompactAt,      \* committed entries kept before the buffer is compacted (256)
  Interval,       \* cycles between two entries of the control plan
  MaxCycles       \* cfg.max_cycles

PowerModes == {"eco", "balanced", "turbo"}
SpecModes  == {"off", "conservative", "aggressive"}
Bundle     == [power : PowerModes, spec : SpecModes, accel : BOOLEAN]
Headrooms  == {"exhausted", "low", "ample"}

Phys == 0 .. Cfg.phys - 1
NoReg == -1

\* Cycles of the memory: a hit in the first or second level, an open or another row
\* of DRAM.  An instruction line that hits costs nothing.
LoadCycles == {2, 9, 20, 45}
LineCycles == LoadCycles \ {2}

\* A setup: the program, reg_init, mem_init, the bundles the control plan may
\* ask for, the thermal headroom the governor may see, cfg.rob_size, and the cycles
\* loads and missing lines may take.
SetupOK(s) ==
  /\ s.prog \in Seq(Instr) \ {<<>>}
  /\ s.regs \in [Reg -> Word] /\ s.regs[0] = 0
  /\ s.mem \in [Addr -> Word]
  /\ s.plan \subseteq Bundle /\ s.plan # {}
  /\ s.headroom \subseteq Headrooms /\ s.headroom # {}
  /\ s.rob \in Nat \ {0}
  /\ s.loads \subseteq LoadCycles /\ s.lines \subseteq LineCycles

ASSUME SetupsAssumption == \A s \in Setups : SetupOK(s)
ASSUME CfgAssumption ==
  /\ {Cfg.fetch, Cfg.decode, Cfg.issue, Cfg.commit, Cfg.rs, Cfg.lsq, Cfg.mshr}
       \subseteq Nat \ {0}
  /\ Cfg.phys \in Nat /\ Cfg.phys > NumRegs
ASSUME TimingAssumption ==
  /\ Recovery \in Bundle
  /\ {LineWords, Interval, MaxCycles} \subseteq Nat \ {0}
  /\ CompactAt \in Nat

VARIABLES
  setup,        \* what the core was built with
  regs, mem, exitCode, halted,
  physVal, physReady,   \* the physical register file
  rat,          \* register alias table
  free,         \* free_list; the last element is handed out
  pendingFree,  \* _pending_free: superseded registers not yet reclaimed
  rob,          \* the reorder buffer; positions are indices of it
  head,         \* rob_head: how many entries have committed
  rs,           \* positions waiting to issue
  lsq,          \* positions of loads and stores, in program order
  executing,    \* what is executing, in issue order
  dropped,      \* _drop_redirect
  fetchQ,       \* fetched, not yet renamed: [pc, pred]
  fetchPc, bubble, fetchHalted,
  line,         \* the instruction line fetched last
  control,      \* the applied control bundle
  stage,        \* where run() and step_cycle() stand
  cursor,       \* position of the stage's loop
  done,         \* what the stage has done in this cycle
  used,         \* units used by the issue stage
  progress,     \* something was committed or issued in this cycle
  idle,         \* _no_progress: cycles without progress
  cycle,
  status        \* completion_status

arch   == <<regs, mem, exitCode, halted>>
rename == <<physVal, physReady, rat, free, pendingFree>>
window == <<rob, head, rs, lsq, executing, dropped>>
front  == <<fetchQ, fetchPc, bubble, fetchHalted, line>>
loop   == <<stage, cursor, done, used, progress>>
clock  == <<idle, cycle, status>>
vars   == <<setup, arch, rename, window, front, control, loop, clock>>

prog == setup.prog
InstrAt(pc) == prog[pc + 1]
InstrOf(p) == InstrAt(rob[p].pc)
Live == head + 1 .. Len(rob)

-----------------------------------------------------------------------------
(* Lists.                                                                  *)

\* The members of a finite set of numbers in ascending order.
Ascending(S) ==
  [j \in 1 .. Cardinality(S) |-> CHOOSE x \in S : Cardinality({y \in S : y <= x}) = j]

\* The elements of q at the positions I, and those in S, in their order.
At(q, I) == LET order == Ascending(I) IN [j \in 1 .. Cardinality(I) |-> q[order[j]]]
Kept(q, S) == At(q, {k \in DOMAIN q : q[k] \in S})

-----------------------------------------------------------------------------
(* Timing.                                                                 *)

\* round() of m halves: to even.
RoundHalf(m) == IF m % 2 = 0 THEN m \div 2
                ELSE LET q == m \div 2 IN q + (q % 2)

\* _widths: width_scale is 0.5, 1.0, 1.5.
Scaled(w) ==
  LET halves == CASE control.power = "eco" -> 1 [] control.power = "balanced" -> 2 [] OTHER -> 3
  IN  Max({1, RoundHalf(w * halves)})

CeilDiv(a, b) == (a + b - 1) \div b

\* latency_scale, in hundredths.
LatencyScale ==
  CASE control.power = "eco" -> 125 [] control.power = "balanced" -> 100 [] OTHER -> 78

AluBase(i) ==
  CASE i.op = "MUL"              -> 3
    [] i.op = "DIV"              -> 6
    [] i.op \in {"VADD", "VMUL"} -> IF control.accel THEN 2 ELSE 4
    [] OTHER                     -> 1

\* An accelerator that was idle for 16 cycles costs two cycles more.
AluCycles(i, setUp) ==
  CeilDiv(AluBase(i) * LatencyScale, 100)
    + IF setUp /\ control.accel /\ i.op \in {"VADD", "VMUL"} THEN 2 ELSE 0

StepCycles == CeilDiv(LatencyScale, 100)

LoadLatency(c) == CeilDiv(c * (600 + 4 * LatencyScale), 1000)

MispredictPenalty == 4

\* Faulty variant: no more of them in a larger buffer.
WatchdogTight == 64
Watchdog == 4 * setup.rob + 64

-----------------------------------------------------------------------------
(* run().                                                                  *)

Init ==
  /\ setup \in Setups
  /\ regs = setup.regs /\ mem = setup.mem /\ exitCode = 0 /\ halted = FALSE
  /\ physVal = [p \in Phys |-> 0] /\ physReady = [p \in Phys |-> TRUE]
  /\ rat = [r \in Reg |-> r]
  /\ free = [k \in 1 .. Cfg.phys - NumRegs |-> Cfg.phys - k]
  /\ pendingFree = <<>>
  /\ rob = <<>> /\ head = 0 /\ rs = {} /\ lsq = <<>> /\ executing = <<>> /\ dropped = {}
  /\ fetchQ = <<>> /\ fetchPc = 0 /\ bubble = 0 /\ fetchHalted = FALSE /\ line = NoReg
  /\ control \in setup.plan
  /\ stage = "run" /\ cursor = 0 /\ done = 0 /\ used = [u \in {} |-> 0] /\ progress = FALSE
  /\ idle = 0 /\ cycle = 0 /\ status = "RUNNING"

\* The loop condition of run() fails.
Stop ==
  /\ stage = "run"
  /\ halted \/ cycle >= MaxCycles
  /\ stage' = "done"
  /\ status' = IF halted THEN "HALTED" ELSE "TIMEOUT"
  /\ UNCHANGED <<setup, arch, rename, window, front, control, cursor, done, used,
                 progress, idle, cycle>>

\* SafetyGovernor.apply.
Governed(b, headroom) ==
  CASE headroom = "exhausted"                -> Recovery
    [] headroom = "low" /\ b.power = "turbo" -> [b EXCEPT !.power = "balanced"]
    [] OTHER                                 -> b

\* The next stage begins its loop.
Enter(s) == stage' = s /\ cursor' = 0 /\ done' = 0

\* A cycle begins: at an interval boundary the control plan may ask for another
\* bundle; the governor has the last word.
StartCycle(requested, headroom) ==
  /\ stage = "run" /\ ~halted /\ cycle < MaxCycles
  /\ requested # control => cycle % Interval = 0
  /\ control' = Governed(requested, headroom)
  /\ Enter("commit") /\ progress' = FALSE
  /\ UNCHANGED <<setup, arch, rename, window, front, used, clock>>

-----------------------------------------------------------------------------
(* Recovery, shared by the squash of a misprediction and by the redirect   *)
(* of a taken branch that was not predicted.                               *)

\* The free registers once the buffer ends at position p and the map is m.
\* Faulty variant: the superseded registers are forgotten.
RebuiltFreeAll(p, m) ==
  LET live == Range(m) \cup UNION {{rob[k].dst} \cup Range(rob[k].srcs) : k \in head + 1 .. p}
  IN  Ascending(Phys \ live)
RebuiltFree(p, m) ==
  LET live == Range(m) \cup Range(pendingFree)
                \cup UNION {{rob[k].dst} \cup Range(rob[k].srcs) : k \in head + 1 .. p}
  IN  Ascending(Phys \ live)

\* A live register is ready unless a kept producer is still to deliver it.
RebuiltReady(p, m) ==
  LET kept    == head + 1 .. p
      freed   == Range(RebuiltFree(p, m))
      Owners(d) == {k \in kept : rob[k].dst = d}
  IN  [d \in Phys |-> IF d \in freed THEN physReady[d]
                      ELSE Owners(d) = {} \/ rob[Max(Owners(d))].done]

\* Everything younger than position p goes.
Truncate(p) ==
  /\ rob' = SubSeq(rob, 1, p)
  /\ rs' = {k \in rs : k \in head + 1 .. p}
  /\ lsq' = Kept(lsq, head + 1 .. p)
  /\ fetchQ' = <<>> /\ fetchHalted' = FALSE

-----------------------------------------------------------------------------
(* _commit.                                                                *)

Oldest == rob[head + 1]
OldestInstr == InstrAt(Oldest.pc)

CanCommit ==
  /\ stage = "commit" /\ ~halted
  /\ done < Scaled(Cfg.commit)
  /\ head < Len(rob) /\ Oldest.done

\* One entry leaves the window.
Committed ==
  /\ head' = head + 1 /\ done' = done + 1 /\ progress' = TRUE
  /\ UNCHANGED <<setup, control, stage, cursor, used, clock>>

\* A mispredicted branch is oldest: fetch restarts at its real target.
Squash ==
  /\ CanCommit /\ Oldest.mispredicted
  /\ LET m == Oldest.checkpoint
         penalty == IF control.spec = "conservative" THEN MispredictPenalty
                                                     ELSE MispredictPenalty - 2
     IN  /\ rat' = m
         /\ free' = RebuiltFree(head + 1, m)
         /\ physReady' = RebuiltReady(head + 1, m)
         /\ bubble' = Max({bubble, penalty})
  /\ Truncate(head + 1)
  /\ executing' = At(executing, {k \in DOMAIN executing : executing[k].pos = head + 1})
  /\ fetchPc' = Oldest.val
  /\ Committed
  /\ UNCHANGED <<arch, physVal, pendingFree, dropped, line>>

\* The destination becomes architectural; the register it replaces is retired.
CommitResult ==
  /\ regs' = [r \in Reg |-> IF WritesRd(OldestInstr) /\ r = OldestInstr.rd
                            THEN physVal[Oldest.dst] ELSE regs[r]]
  /\ pendingFree' = IF Oldest.prev # NoReg THEN Append(pendingFree, Oldest.prev)
                                           ELSE pendingFree

\* Committed loads and stores leave the queue.
LeaveLsq == lsq' = IF lsq # <<>> /\ Head(lsq) = head + 1 THEN Tail(lsq) ELSE lsq

\* A store reaches memory.
CommitStore ==
  /\ CanCommit /\ ~Oldest.mispredicted
  /\ OldestInstr.op = "STORE"
  /\ mem' = [mem EXCEPT ![Oldest.addr] = Oldest.val]
  /\ LeaveLsq
  /\ Committed
  /\ UNCHANGED <<regs, exitCode, halted, rename, rob, rs, executing, dropped, front>>

CommitHalt ==
  /\ CanCommit /\ ~Oldest.mispredicted
  /\ IsHalt(OldestInstr)
  /\ halted' = TRUE
  /\ exitCode' = IF OldestInstr.op = "ECALL" THEN regs[OldestInstr.rs1] ELSE exitCode
  /\ Committed
  /\ UNCHANGED <<regs, mem, rename, rob, rs, lsq, executing, dropped, front>>

\* Everything else.
CommitOther ==
  /\ CanCommit /\ ~Oldest.mispredicted
  /\ OldestInstr.op # "STORE" /\ ~IsHalt(OldestInstr)
  /\ CommitResult
  /\ IF IsMem(OldestInstr) THEN LeaveLsq ELSE UNCHANGED lsq
  /\ Committed
  /\ UNCHANGED <<mem, exitCode, halted, physVal, physReady, rat, free, rob, rs,
                 executing, dropped, front>>

\* The registers that no waiting instruction reads go back to the free list.
\* Faulty variant: none does.
NoneReclaimed(needed) == free
Reclaimed(needed) ==
  free \o At(pendingFree,
              {k \in DOMAIN pendingFree :
                 /\ pendingFree[k] \notin needed \cup Range(free)
                 /\ \A j \in 1 .. k - 1 : pendingFree[j] # pendingFree[k]})

\* Faulty variant: the load/store queue keeps its positions.
NotMoved(q, n) == q
Moved(q, n) == [k \in DOMAIN q |-> q[k] - n]

\* The stage ends: compaction of the buffer, and _reclaim.
EndCommit ==
  /\ stage = "commit" /\ ~CanCommit
  /\ LET needed == UNION {Range(rob[p].srcs) : p \in rs}
     IN  /\ free' = Reclaimed(needed)
         /\ pendingFree' = Kept(pendingFree, needed)
  /\ IF head > CompactAt
       THEN /\ rob' = SubSeq(rob, head + 1, Len(rob)) /\ head' = 0
            /\ rs' = {p - head : p \in rs}
            /\ lsq' = Moved(lsq, head)
            /\ executing' = [k \in DOMAIN executing |->
                               [executing[k] EXCEPT !.pos = @ - head]]
       ELSE UNCHANGED <<rob, head, rs, lsq, executing>>
  /\ Enter("exec")
  /\ UNCHANGED <<setup, arch, physVal, physReady, rat, dropped, front, control, used,
                 progress, clock>>

-----------------------------------------------------------------------------
(* _advance_exec: one pass over what is executing.  A finished operation   *)
(* leaves the list, so cursor counts those that stay.  [pos, left] is the  *)
(* code's slot; gone is a mark of the model: the entry at pos when it was  *)
(* issued is no more, the slot is still there.                             *)

AtExec == stage = "exec" /\ cursor < Len(executing)
Current == executing[cursor + 1]
Ending == AtExec /\ Current.pos \notin dropped /\ Current.left <= 1
Finishing == Ending /\ ~Current.gone
LeaveExec == executing' = RemoveAt(executing, cursor + 1)

\* What a redirect dropped never completes.
ExecDropped ==
  /\ AtExec /\ Current.pos \in dropped
  /\ LeaveExec
  /\ UNCHANGED <<setup, arch, rename, rob, head, rs, lsq, dropped, front, control, loop, clock>>

Tick ==
  /\ AtExec /\ Current.pos \notin dropped /\ Current.left > 1
  /\ executing' = [executing EXCEPT ![cursor + 1].left = @ - 1]
  /\ cursor' = cursor + 1
  /\ UNCHANGED <<setup, arch, rename, rob, head, rs, lsq, dropped, front, control,
                 stage, done, used, progress, clock>>

\* _complete: the result goes to the destination register.  A load that has none
\* writes phys_val[-1], the last register of the file.
ResultReg(e) ==
  IF InstrAt(e.pc).op = "LOAD" /\ e.dst = NoReg THEN Cfg.phys - 1 ELSE e.dst

Complete ==
  /\ Finishing /\ ~IsBranch(InstrOf(Current.pos))
  /\ LET e == rob[Current.pos]
         d == ResultReg(e)
     IN  /\ rob' = [rob EXCEPT ![Current.pos].done = TRUE]
         /\ physVal' = IF d = NoReg THEN physVal ELSE [physVal EXCEPT ![d] = e.val]
         /\ physReady' = IF d = NoReg THEN physReady ELSE [physReady EXCEPT ![d] = TRUE]
  /\ LeaveExec
  /\ UNCHANGED <<setup, arch, rat, free, pendingFree, head, rs, lsq, dropped, front,
                 control, loop, clock>>

\* _resolve_branch, from the operands captured when the branch issued.
Taken(e) == TakenOn(InstrAt(e.pc), e.operands[1], e.operands[2])

Resolved(e) ==
  [e EXCEPT !.done = TRUE,
            !.val = IF Taken(e) THEN e.pc + InstrAt(e.pc).imm ELSE e.pc + 1,
            !.mispredicted = e.pred # "none" /\ (e.pred = "taken") # Taken(e)]

\* A taken branch that was not predicted: fetch went on behind it.
Redirects(e) == e.pred = "none" /\ Taken(e)

ResolveBranch ==
  /\ Finishing /\ IsBranch(InstrOf(Current.pos)) /\ ~Redirects(rob[Current.pos])
  /\ rob' = [rob EXCEPT ![Current.pos] = Resolved(@)]
  /\ LeaveExec
  /\ UNCHANGED <<setup, arch, rename, head, rs, lsq, dropped, front, control, loop, clock>>

\* Slots of younger entries that this pass has already gone by stay in the list:
\* dropped is looked at by the rest of this pass only.
PassedBy(p) == {k \in 1 .. cursor : executing[k].pos > p}
Marked(p) ==
  [k \in DOMAIN executing |-> [executing[k] EXCEPT !.gone = @ \/ k \in PassedBy(p)]]

\* The younger entries go and fetch restarts, without a squash: the map stays.
Redirect ==
  /\ Finishing /\ IsBranch(InstrOf(Current.pos)) /\ Redirects(rob[Current.pos])
  /\ LET p == Current.pos
         b == Resolved(rob[p])
     IN  /\ rob' = Append(SubSeq(rob, 1, p - 1), b)
         /\ rs' = {k \in rs : k \in head + 1 .. p}
         /\ lsq' = Kept(lsq, head + 1 .. p)
         /\ dropped' = dropped \cup p + 1 .. Len(rob)
         /\ executing' = RemoveAt(Marked(p), cursor + 1)
         /\ free' = RebuiltFree(p, rat)
         /\ physReady' = RebuiltReady(p, rat)
         /\ fetchPc' = b.val
  /\ fetchQ' = <<>> /\ fetchHalted' = FALSE
  /\ UNCHANGED <<setup, arch, physVal, rat, pendingFree, head, bubble, line, control,
                 loop, clock>>

\* A slot whose entry is gone completes rob[pos] all the same: an entry that has taken
\* its place, before its time, or none, an IndexError that run() does not catch (the
\* code's indices begin at 0, and a negative one counts from the end).  The model
\* ends here.
Astray ==
  /\ Ending /\ Current.gone
  /\ status' = IF Current.pos \in 1 - Len(rob) .. Len(rob) THEN "CORRUPT" ELSE "RAISED"
  /\ stage' = "done"
  /\ UNCHANGED <<setup, arch, rename, window, front, control, cursor, done, used,
                 progress, idle, cycle>>

Units == {"int", "mul", "div", "vec", "lsu", "bru"}

EndExec ==
  /\ stage = "exec" /\ cursor = Len(executing)
  /\ dropped' = {}
  /\ Enter("issue") /\ used' = [u \in Units |-> 0]
  /\ UNCHANGED <<setup, arch, rename, rob, head, rs, lsq, executing, front, control,
                 progress, clock>>

-----------------------------------------------------------------------------
(* _issue: the waiting entries from the oldest to the youngest.            *)

UnitOf(i) ==
  CASE i.op = "MUL"                           -> "mul"
    [] i.op = "DIV"                           -> "div"
    [] i.op \in {"VADD", "VMUL"}              -> "vec"
    [] i.op \in {"LOAD", "STORE", "PREFETCH"} -> "lsu"
    [] IsBranch(i)                            -> "bru"
    [] OTHER                                  -> "int"

UnitCount(u) == IF u = "int" /\ control.power # "eco" THEN 2 ELSE 1

\* The value of the k-th source of the entry at p.
Operand(p, k) == IF k \in DOMAIN rob[p].srcs THEN physVal[rob[p].srcs[k]] ELSE 0
AddressOf(p) == Address(InstrOf(p), Operand(p, 1))

SourcesReady(p) == \A s \in Range(rob[p].srcs) : physReady[s]

OlderFence(p) == \E k \in head + 1 .. p - 1 : InstrOf(k).op = "FENCE"

\* The older stores that decide what a load does: those whose address is not
\* known yet, and those to its own address.  Faulty variant: only the latter.
DecidingKnown(p) ==
  {k \in Range(lsq) : k < p /\ InstrOf(k).op = "STORE" /\ rob[k].addr = AddressOf(p)}
Deciding(p) ==
  {k \in Range(lsq) : /\ k < p /\ InstrOf(k).op = "STORE"
                      /\ rob[k].addr \in {NoReg, AddressOf(p)}}

\* The oldest of them decides.
Decider(p) == Min(Deciding(p))

\* memory.mshr, the lines on their way: looked up and counted down, but nothing in
\* the code enters one.  A load that misses while the table is full is not issued.
Outstanding == {}
TableFull == Cardinality(Outstanding) >= Cfg.mshr

\* _lsu_ready.
MemReady(p) ==
  LET i == InstrOf(p)
  IN  /\ i.op = "STORE" => ~OlderFence(p)
      /\ i.op = "LOAD" /\ Deciding(p) # {} =>
           rob[Decider(p)].addr # NoReg /\ physReady[rob[Decider(p)].srcs[2]]
      /\ i.op = "LOAD" /\ Deciding(p) = {} => ~TableFull

Issuable(p) ==
  /\ used[UnitOf(InstrOf(p))] < UnitCount(UnitOf(InstrOf(p)))
  /\ SourcesReady(p)
  /\ MemReady(p)

Candidates == {p \in rs : p > cursor /\ Issuable(p)}
CanIssue == stage = "issue" /\ done < Scaled(Cfg.issue) /\ Candidates # {}
Chosen == Min(Candidates)

\* The entry at p takes a unit for so many cycles.
Dispatch(p, cycles) ==
  /\ executing' = Append(executing, [pos |-> p, left |-> cycles, gone |-> FALSE])
  /\ used' = [used EXCEPT ![UnitOf(InstrOf(p))] = @ + 1]
  /\ done' = done + 1 /\ progress' = TRUE

LeaveRs(p) ==
  /\ rs' = rs \ {p} /\ cursor' = p
  /\ UNCHANGED <<setup, arch, rat, free, pendingFree, head, lsq, dropped, front,
                 control, stage, clock>>

\* The result is computed when the instruction issues.
IssueAlu(setUp) ==
  /\ CanIssue
  /\ LET p == Chosen
         i == InstrOf(p)
     IN  /\ UnitOf(i) \notin {"lsu", "bru"}
         /\ rob' = [rob EXCEPT ![p].val = Value(i, Operand(p, 1), Operand(p, 2))]
         /\ Dispatch(p, AluCycles(i, setUp))
         /\ LeaveRs(p)
  /\ UNCHANGED <<physVal, physReady>>

\* A branch captures its operands.
IssueBranch ==
  /\ CanIssue
  /\ LET p == Chosen
     IN  /\ IsBranch(InstrOf(p))
         /\ rob' = [rob EXCEPT ![p].operands = <<Operand(p, 1), Operand(p, 2)>>]
         /\ Dispatch(p, StepCycles)
         /\ LeaveRs(p)
  /\ UNCHANGED <<physVal, physReady>>

\* A store captures address and datum.
IssueStore ==
  /\ CanIssue
  /\ LET p == Chosen
     IN  /\ InstrOf(p).op = "STORE"
         /\ rob' = [rob EXCEPT ![p].addr = AddressOf(p), ![p].val = Operand(p, 2)]
         /\ Dispatch(p, StepCycles)
         /\ LeaveRs(p)
  /\ UNCHANGED <<physVal, physReady>>

\* A load that no older store decides reads memory, unless the cache takes no miss.
IssueLoad(cycles) ==
  /\ CanIssue
  /\ LET p == Chosen
     IN  /\ InstrOf(p).op = "LOAD" /\ Deciding(p) = {} /\ ~TableFull
         /\ rob' = [rob EXCEPT ![p].addr = AddressOf(p), ![p].val = mem[AddressOf(p)]]
         /\ Dispatch(p, LoadLatency(cycles))
         /\ LeaveRs(p)
  /\ UNCHANGED <<physVal, physReady>>

\* A load takes the datum of an older store and is done at once.
Forward ==
  /\ CanIssue
  /\ LET p == Chosen
         v == physVal[rob[Decider(p)].srcs[2]]
         d == rob[p].dst
     IN  /\ InstrOf(p).op = "LOAD" /\ Deciding(p) # {}
         /\ rob' = [rob EXCEPT ![p].val = v, ![p].done = TRUE]
         /\ physVal' = IF d = NoReg THEN physVal ELSE [physVal EXCEPT ![d] = v]
         /\ physReady' = IF d = NoReg THEN physReady ELSE [physReady EXCEPT ![d] = TRUE]
         /\ LeaveRs(p)
  /\ UNCHANGED <<executing, used, done, progress>>

\* A prefetch touches the cache and is done.
IssuePrefetch ==
  /\ CanIssue
  /\ LET p == Chosen
     IN  /\ InstrOf(p).op = "PREFETCH"
         /\ rob' = [rob EXCEPT ![p].done = TRUE]
         /\ LeaveRs(p)
  /\ UNCHANGED <<physVal, physReady, executing, used, done, progress>>

EndIssue ==
  /\ stage = "issue" /\ ~CanIssue
  /\ Enter("rename")
  /\ UNCHANGED <<setup, arch, rename, window, front, control, used, progress, clock>>

-----------------------------------------------------------------------------
(* _rename.                                                                *)

Incoming == InstrAt(Head(fetchQ).pc)

CanRename ==
  /\ stage = "rename" /\ done < Scaled(Cfg.decode)
  /\ fetchQ # <<>>
  /\ Len(rob) - head < setup.rob
  /\ Cardinality(rs) < Cfg.rs
  /\ IsMem(Incoming) => Len(lsq) < Cfg.lsq
  /\ WritesRd(Incoming) => free # <<>>

\* The sources are looked up before the destination is renamed.
Sources(i) == [k \in DOMAIN Reads(i) |-> rat[Reads(i)[k]]]

NewEntry(f, i, d) ==
  [pc |-> f.pc, dst |-> d, prev |-> IF d = NoReg THEN NoReg ELSE rat[i.rd],
   srcs |-> Sources(i), done |-> IsHalt(i) \/ i.op = "FENCE", val |-> 0, addr |-> NoReg,
   pred |-> f.pred, mispredicted |-> FALSE, operands |-> <<0, 0>>,
   checkpoint |-> IF IsBranch(i) THEN rat ELSE <<>>]

Rename ==
  /\ CanRename
  /\ LET i == Incoming
         d == IF WritesRd(i) THEN Last(free) ELSE NoReg
         p == Len(rob) + 1
     IN  /\ rob' = Append(rob, NewEntry(Head(fetchQ), i, d))
         /\ free' = IF d = NoReg THEN free ELSE Front(free)
         /\ physReady' = IF d = NoReg THEN physReady ELSE [physReady EXCEPT ![d] = FALSE]
         /\ rat' = IF d = NoReg THEN rat ELSE [rat EXCEPT ![i.rd] = d]
         /\ lsq' = IF IsMem(i) THEN Append(lsq, p) ELSE lsq
         /\ rs' = IF IsHalt(i) \/ i.op = "FENCE" THEN rs ELSE rs \cup {p}
  /\ fetchQ' = Tail(fetchQ) /\ done' = done + 1
  /\ UNCHANGED <<setup, arch, physVal, pendingFree, head, executing, dropped, fetchPc,
                 bubble, fetchHalted, line, control, stage, cursor, used, progress, clock>>

EndRename ==
  /\ stage = "rename" /\ ~CanRename
  /\ Enter("fetch")
  /\ UNCHANGED <<setup, arch, rename, window, front, control, used, progress, clock>>

-----------------------------------------------------------------------------
(* _fetch.                                                                 *)

Fetched == InstrAt(fetchPc)
LineOf(pc) == pc \div LineWords
InProgram == 0 <= fetchPc /\ fetchPc < Len(prog)

\* The loop of the stage goes on.
Fetching ==
  /\ stage = "fetch" /\ bubble = 0 /\ ~fetchHalted
  /\ done < Scaled(Cfg.fetch) /\ Len(fetchQ) < 2 * Scaled(Cfg.fetch) + 4

LeaveStage == stage' = "end" /\ UNCHANGED <<cursor, done>>

FetchBubble ==
  /\ stage = "fetch" /\ bubble > 0
  /\ bubble' = bubble - 1
  /\ LeaveStage
  /\ UNCHANGED <<setup, arch, rename, window, fetchQ, fetchPc, fetchHalted, line, control,
                 used, progress, clock>>

\* Past the end fetch is over; below the start it just waits.
FetchOutside ==
  /\ Fetching /\ ~InProgram
  /\ fetchHalted' = (fetchPc >= Len(prog))
  /\ LeaveStage
  /\ UNCHANGED <<setup, arch, rename, window, fetchQ, fetchPc, bubble, line, control,
                 used, progress, clock>>

\* The line misses and is filled; the line fetched last is still there.
FetchMiss(cycles) ==
  /\ Fetching /\ InProgram /\ LineOf(fetchPc) # line
  /\ bubble' = Max({bubble, cycles - 1})
  /\ line' = LineOf(fetchPc)
  /\ LeaveStage
  /\ UNCHANGED <<setup, arch, rename, window, fetchQ, fetchPc, fetchHalted, control,
                 used, progress, clock>>

Speculates == control.spec # "off"

BranchInFlight == \E p \in Live : IsBranch(InstrOf(p)) /\ ~rob[p].done

\* Without speculation a branch waits until those before it are resolved.
FetchWaits ==
  /\ Fetching /\ InProgram
  /\ IsBranch(Fetched) /\ ~Speculates /\ BranchInFlight
  /\ line' = LineOf(fetchPc)
  /\ LeaveStage
  /\ UNCHANGED <<setup, arch, rename, window, fetchQ, fetchPc, bubble, fetchHalted,
                 control, used, progress, clock>>

Fetch(pred, target) ==
  /\ fetchQ' = Append(fetchQ, [pc |-> fetchPc, pred |-> pred])
  /\ fetchPc' = target
  /\ line' = LineOf(fetchPc)
  /\ UNCHANGED <<setup, arch, rename, window, bubble, control, used, progress, clock>>

FetchPlain ==
  /\ Fetching /\ InProgram /\ ~IsBranch(Fetched) /\ ~IsHalt(Fetched)
  /\ Fetch("none", fetchPc + 1)
  /\ done' = done + 1
  /\ UNCHANGED <<fetchHalted, stage, cursor>>

\* What the predictor says; a JUMP is always predicted taken.
FetchPredicted(taken) ==
  /\ Fetching /\ InProgram /\ IsBranch(Fetched) /\ Speculates
  /\ Fetched.op = "JUMP" => taken
  /\ IF taken THEN Fetch("taken", fetchPc + Fetched.imm) ELSE Fetch("fall", fetchPc + 1)
  /\ done' = done + 1
  /\ UNCHANGED <<fetchHalted, stage, cursor>>

\* Without speculation fetch stops behind the branch for this cycle.
FetchUnpredicted ==
  /\ Fetching /\ InProgram /\ IsBranch(Fetched) /\ ~Speculates /\ ~BranchInFlight
  /\ Fetch("none", fetchPc + 1)
  /\ LeaveStage
  /\ UNCHANGED fetchHalted

FetchHalt ==
  /\ Fetching /\ InProgram /\ IsHalt(Fetched)
  /\ Fetch("none", fetchPc + 1)
  /\ fetchHalted' = TRUE
  /\ LeaveStage

EndFetch ==
  /\ stage = "fetch" /\ bubble = 0 /\ ~Fetching
  /\ LeaveStage
  /\ UNCHANGED <<setup, arch, rename, window, front, control, used, progress, clock>>

-----------------------------------------------------------------------------
(* The tail of step_cycle.                                                 *)

\* Everything fetched has committed and there is nothing to fetch.
Drained == fetchHalted /\ head = Len(rob) /\ executing = <<>> /\ fetchQ = <<>>

Stalled == IF progress THEN 0 ELSE idle + 1
Barks == Stalled > Watchdog /\ ~halted /\ ~Drained

EndCycle ==
  /\ stage = "end" /\ ~Barks
  /\ halted' = (halted \/ Drained)
  /\ cycle' = cycle + 1
  /\ idle' = Stalled
  /\ stage' = "run"
  /\ UNCHANGED <<setup, regs, mem, exitCode, rename, window, front, control, cursor, done,
                 used, progress, status>>

\* No progress for too long: run() returns.
Deadlock ==
  /\ stage = "end" /\ Barks
  /\ status' = "DEADLOCK" /\ stage' = "done"
  /\ cycle' = cycle + 1 /\ idle' = Stalled
  /\ UNCHANGED <<setup, arch, rename, window, front, control, cursor, done, used, progress>>

-----------------------------------------------------------------------------
Next ==
  \/ Stop
  \/ \E b \in setup.plan \cup {control}, h \in setup.headroom : StartCycle(b, h)
  \/ Squash \/ CommitStore \/ CommitHalt \/ CommitOther \/ EndCommit
  \/ ExecDropped \/ Tick \/ Complete \/ ResolveBranch \/ Redirect \/ Astray
  \/ EndExec
  \/ \E s \in BOOLEAN : IssueAlu(s)
  \/ IssueBranch \/ IssueStore \/ Forward \/ IssuePrefetch \/ EndIssue
  \/ \E c \in setup.loads : IssueLoad(c)
  \/ Rename \/ EndRename
  \/ FetchBubble \/ FetchOutside \/ FetchWaits \/ FetchPlain \/ FetchUnpredicted
  \/ FetchHalt \/ EndFetch
  \/ \E c \in setup.lines : FetchMiss(c)
  \/ \E t \in BOOLEAN : FetchPredicted(t)
  \/ EndCycle \/ Deadlock

Spec == Init /\ [][Next]_vars

\* run() is a loop of one thread.
FairSpec == Spec /\ WF_vars(Next)

-----------------------------------------------------------------------------
(* Properties.                                                             *)

Entry ==
  [pc : 0 .. Len(prog) - 1, dst : Phys \cup {NoReg}, prev : Phys \cup {NoReg},
   srcs : Seq(Phys), done : BOOLEAN, val : Int, addr : Addr \cup {NoReg},
   pred : {"none", "taken", "fall"}, mispredicted : BOOLEAN, operands : Int \X Int,
   checkpoint : [Reg -> Phys] \cup {<<>>}]

TypeOK ==
  /\ setup \in Setups
  /\ regs \in [Reg -> Word] /\ regs[0] = 0 /\ mem \in [Addr -> Word]
  /\ exitCode \in Word /\ halted \in BOOLEAN
  /\ physVal \in [Phys -> Word] /\ physReady \in [Phys -> BOOLEAN]
  /\ rat \in [Reg -> Phys] /\ rat[0] = 0
  /\ free \in Seq(Phys) /\ pendingFree \in Seq(Phys)
  /\ rob \in Seq(Entry) /\ head \in 0 .. Len(rob) /\ Len(rob) - head <= setup.rob
  /\ rs \subseteq Live /\ Cardinality(rs) <= Cfg.rs
  /\ Range(lsq) \subseteq Live /\ Len(lsq) <= Cfg.lsq
  /\ executing \in Seq([pos : Int, left : Nat, gone : BOOLEAN]) /\ dropped \subseteq Nat
  /\ fetchQ \in Seq([pc : 0 .. Len(prog) - 1, pred : {"none", "taken", "fall"}])
  /\ fetchPc \in Int /\ bubble \in Nat /\ fetchHalted \in BOOLEAN /\ line \in Int
  /\ control \in Bundle
  /\ stage \in {"run", "commit", "exec", "issue", "rename", "fetch", "end", "done"}
  /\ cursor \in Nat /\ done \in Nat /\ progress \in BOOLEAN
  /\ \A u \in DOMAIN used : used[u] \in 0 .. UnitCount(u) \/ stage # "issue"
  /\ idle \in 0 .. Watchdog + 1 /\ cycle \in 0 .. MaxCycles
  /\ status \in {"RUNNING", "HALTED", "TIMEOUT", "DEADLOCK", "CORRUPT", "RAISED"}

\* The machine as a sequential one: an instruction is executed when it commits.
NextPc == IF head < Len(rob) THEN Oldest.pc
          ELSE IF fetchQ # <<>> THEN Head(fetchQ).pc ELSE fetchPc

Seq_ == INSTANCE SeqVmarch WITH Starts <- Setups, pc <- NextPc, stopped <- halted

\* The setups the core runs exactly: registers start at zero, which is what the
\* physical file holds; every taken branch is predicted; at most one store in
\* flight may match a load; no load without a destination; no branch below 0.
HasBackEdge(p) == \E k \in DOMAIN p : IsBranch(p[k]) /\ p[k].imm <= 0
NeverTaken(i) == i.op = "BNE" /\ i.rs1 = i.rs2
MayMatch(i, j) == i.rs1 = 0 /\ j.rs1 = 0 => Address(i, 0) = Address(j, 0)

TakenArePredicted(s) ==
  \/ \A b \in s.plan : b.spec # "off" /\ "exhausted" \notin s.headroom
  \/ \A i \in Range(s.prog) : IsBranch(i) => NeverTaken(i)

OneStorePerLoad(p) ==
  \A l, j, k \in DOMAIN p :
    /\ p[l].op = "LOAD" /\ p[j].op = "STORE" /\ p[k].op = "STORE"
    /\ MayMatch(p[j], p[l]) /\ MayMatch(p[k], p[l])
    => j = k /\ ~HasBackEdge(p)

Exact(s) ==
  /\ \A r \in Reg : s.regs[r] = 0
  /\ TakenArePredicted(s)
  /\ OneStorePerLoad(s.prog)
  /\ \A k \in DOMAIN s.prog : /\ s.prog[k].op = "LOAD" => s.prog[k].rd # 0
                              /\ IsBranch(s.prog[k]) => k - 1 + s.prog[k].imm >= 0

ExactSetups == {s \in Setups : Exact(s)}

\* Out-of-order issue, speculation, forwarding, recycling of registers and
\* control changes never change what a program the core runs exactly computes:
\* every step is a step of the sequential machine or none.
ImplementsSeqVmarch ==
  /\ (setup \in ExactSetups) => Seq_!Init
  /\ [][(setup \in ExactSetups) => Seq_!Next \/ UNCHANGED Seq_!vars]_vars

\* Where no redirect happens no physical register is lost or has two owners: each is
\* free, waits to be reclaimed, holds a committed register, or is the destination of
\* a live entry.
Writers(r) == {p \in Live : WritesRd(InstrOf(p)) /\ InstrOf(p).rd = r}
CommittedReg(r) == IF Writers(r) = {} THEN rat[r] ELSE rob[Min(Writers(r))].prev

RegistersAccounted ==
  TakenArePredicted(setup) =>
    LET live == {p \in Live : rob[p].dst # NoReg}
    IN  /\ Range(free) \cup Range(pendingFree) \cup {CommittedReg(r) : r \in Reg}
              \cup {rob[p].dst : p \in live} = Phys
        /\ Len(free) + Len(pendingFree) + NumRegs + Cardinality(live) = Cfg.phys

\* "double-freed here and double-allocated later" (core.py:688) is what the rebuilt
\* list of free registers must not lead to: none of them is in use.
NoneInUseIsFree ==
  Range(free) \cap (Range(rat) \cup {rob[p].dst : p \in Live}) = {}

\* An instruction that waits for a register waits for a producer: an older entry
\* that is still to deliver it.
NoOrphanWaits ==
  TakenArePredicted(setup) => \A p \in rs : \A s \in Range(rob[p].srcs) :
    physReady[s] \/ \E k \in Live : k < p /\ rob[k].dst = s /\ ~rob[k].done

\* The queues agree with the window: an entry that is not done waits or executes,
\* once; the load/store queue has the window's loads and stores in program order.
\* Nothing else executes, unless a taken branch that was not predicted dropped the
\* entries of operations its pass had already gone by: these are not "retired via the
\* _drop_redirect set" (core.py:655).
QueuesAgree ==
  stage \notin {"exec", "done"} =>
    LET own == {k \in DOMAIN executing : ~executing[k].gone}
    IN  /\ \A p \in Live : Cardinality({k \in own : executing[k].pos = p})
                           = IF rob[p].done \/ p \in rs THEN 0 ELSE 1
        /\ \A p \in rs : ~rob[p].done
        /\ {executing[k].pos : k \in own} \subseteq Live
        /\ TakenArePredicted(setup) => own = DOMAIN executing
        /\ lsq = Ascending({p \in Live : IsMem(InstrOf(p))})

\* The window is consistent after every squash, redirect and compaction, except that
\* a redirect may leave operations behind that belong to no entry, and entries that
\* wait for a producer that is gone.
WindowConsistent == TypeOK /\ NoOrphanWaits /\ QueuesAgree

\* A terminating program reaches HALT within the budget: nothing waits for ever,
\* and the watchdog takes no wait for the memory for a deadlock, not even that for
\* a line fetched on a wrong path and, after the squash, for the right one.
Completes == (setup \in ExactSetups) => <>(status = "HALTED")
=============================================================================
