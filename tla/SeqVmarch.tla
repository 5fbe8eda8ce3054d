------------------------------ MODULE SeqVmarch ------------------------------
(***************************************************************************)
(* What vmarch promises: a program is executed one instruction at a time,  *)
(* in program order.  FENCE and PREFETCH change nothing, HALT and ECALL    *)
(* stop the machine, ECALL with an exit code.                              *)
(***************************************************************************)
EXTENDS VmarchISA

CONSTANTS
  Starts       \* the records with fields prog, regs, mem a run may start from

VARIABLES
  prog, pc, regs, mem,
  exitCode,    \* exit_code
  stopped      \* halted, or the program counter left the program

vars == <<prog, pc, regs, mem, exitCode, stopped>>

Init ==
  /\ \E s \in Starts : prog = s.prog /\ regs = s.regs /\ mem = s.mem
  /\ pc = 0 /\ exitCode = 0 /\ stopped = FALSE

InProgram == pc \in 0 .. Len(prog) - 1

Execute ==
  /\ ~stopped /\ InProgram
  /\ LET i == prog[pc + 1]
         a == regs[i.rs1]
         b == regs[i.rs2]
     IN  /\ pc' = IF IsBranch(i) /\ TakenOn(i, a, b) THEN pc + i.imm ELSE pc + 1
         /\ stopped' = IsHalt(i)
         /\ exitCode' = IF i.op = "ECALL" THEN a ELSE exitCode
         /\ mem' = IF i.op = "STORE" THEN [mem EXCEPT ![Address(i, a)] = b] ELSE mem
         /\ regs' = IF WritesRd(i)
                      THEN [regs EXCEPT ![i.rd] =
                              IF i.op = "LOAD" THEN mem[Address(i, a)] ELSE Value(i, a, b)]
                      ELSE regs
  /\ UNCHANGED prog

LeaveProgram ==
  /\ ~stopped /\ ~InProgram
  /\ stopped' = TRUE
  /\ UNCHANGED <<prog, pc, regs, mem, exitCode>>

Next == Execute \/ LeaveProgram

Spec == Init /\ [][Next]_vars
=============================================================================
