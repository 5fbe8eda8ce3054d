------------------------------- MODULE SeqISA -------------------------------
(***************************************************************************)
(* What vmicro promises: a program is executed one instruction at a time,  *)
(* in program order, each reading the registers and the memory its         *)
(* predecessors left (the opcode table of isa.py).  Nothing happens after  *)
(* HALT, and a program counter outside the program stops the machine.      *)
(***************************************************************************)
EXTENDS VmicroISA

CONSTANT
  InitStates   \* the [regs, mem] pairs a run may start from

VARIABLES
  prog,      \* the program
  pc,        \* the next instruction
  regs,      \* architectural registers
  mem,       \* data memory
  stopped    \* HALT was executed, or the program counter left the program

vars == <<prog, pc, regs, mem, stopped>>

Init ==
  /\ prog \in Programs
  /\ \E s \in InitStates : regs = s.regs /\ mem = s.mem
  /\ pc = 0
  /\ stopped = FALSE

InProgram == pc \in 0 .. Len(prog) - 1

\* The opcode's register, memory and control effect, in one step.
Execute ==
  /\ ~stopped
  /\ InProgram
  /\ LET i == prog[pc + 1]
     IN  /\ pc' = IF IsBranch(i) /\ Taken(i, regs) THEN pc + i.imm ELSE pc + 1
         /\ stopped' = (i.op = "HALT")
         /\ mem' = IF i.op = "STORE"
                     THEN [mem EXCEPT ![EffAddr(i, regs)] = regs[i.rs2]]
                     ELSE mem
         /\ regs' = WriteBack(regs, i,
                      IF i.op = "LOAD" THEN mem[EffAddr(i, regs)]
                      ELSE AluValue(i, regs[i.rs1], regs[i.rs2]))
  /\ UNCHANGED prog

LeaveProgram ==
  /\ ~stopped
  /\ ~InProgram
  /\ stopped' = TRUE
  /\ UNCHANGED <<prog, pc, regs, mem>>

Next == Execute \/ LeaveProgram

Spec == Init /\ [][Next]_vars
=============================================================================
