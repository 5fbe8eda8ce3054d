---------------------------- MODULE MCInOrderCPU ----------------------------
(***************************************************************************)
(* Instances of InOrderCPU for TLC: three registers, two words of memory,  *)
(* and programs that bring operations of every latency into flight at once.*)
(***************************************************************************)
EXTENDS InOrderCPU

I(op, rd, rs1, rs2, imm) ==
  [op |-> op, rd |-> rd, rs1 |-> rs1, rs2 |-> rs2, imm |-> imm]

Halt == I("HALT", 0, 0, 0, 0)

MCInitStates ==
  {[regs |-> <<5, 7>> @@ (0 :> 0), mem |-> (0 :> 11) @@ (1 :> 4)]}

B(power, spec, accel) == [power |-> power, spec |-> spec, accel |-> accel]

MCRecovery == B("eco", "off", FALSE)

\* "latency" and what the governor makes of it, and "thermal_recovery".
MCBundles ==
  {MCRecovery, B("turbo", "aggressive", TRUE), B("balanced", "aggressive", TRUE)}

-----------------------------------------------------------------------------
Alphabet ==
  { I("DIV",   1, 1, 2, 0),
    I("VMUL",  2, 1, 1, 0),
    I("ADDI",  2, 0, 0, 3),
    I("LOAD",  1, 0, 0, 1),
    I("STORE", 0, 2, 1, 0),
    I("STORE", 0, 0, 2, 1),
    I("BEQ",   0, 1, 2, 2) }

\* Every such program of three instructions, ended by HALT.
StraightPrograms ==
  { p \in { Append(q, Halt) : q \in [1 .. 3 -> Alphabet] } :
      /\ NoOverlappingWrites(p)
      /\ \A k \in 1 .. 3 : IsBranch(p[k]) => k + p[k].imm <= 4 }

\* Loops that count down and go through memory, and a program without HALT.
LoopPrograms ==
  { << I("ADDI", 1, 1, 0, -2), I("STORE", 0, 0, 1, 0), I("BNE", 0, 1, 2, 2),
       I("NOP", 0, 0, 0, 0), I("BNE", 0, 1, 2, 1), Halt >>,
    << I("SUB", 1, 1, 1, 0), I("ADDI", 1, 1, 0, 1), I("LOAD", 2, 0, 0, 1),
       I("BNE", 0, 1, 1, 2), I("BNE", 0, 1, 2, -3), Halt >>,
    << I("ADDI", 1, 1, 0, -1), I("MUL", 2, 2, 1, 0), I("BNE", 0, 1, 0, -2), Halt >>,
    << I("LOAD", 2, 0, 0, 1), I("ADDI", 1, 1, 0, -5), I("BEQ", 0, 1, 0, 2),
       I("JUMP", 0, 0, 0, -2), I("STORE", 0, 1, 2, 0), Halt >>,
    << I("NOP", 0, 0, 0, 0), I("NOP", 0, 0, 0, 0) >> }

AllPrograms == StraightPrograms \cup LoopPrograms

-----------------------------------------------------------------------------
\* Outside that class: DIV is six cycles, ADDI one; both write r1.
OverlappingWrites == { << I("DIV", 1, 1, 2, 0), I("ADDI", 1, 0, 0, 3), Halt >> }
=============================================================================
