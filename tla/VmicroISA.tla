------------------------------ MODULE VmicroISA ------------------------------
(***************************************************************************)
(* The instruction set of microarchitecture/vmicro/isa.py and the value    *)
(* each instruction computes (machine.py, _try_issue_one), shared by the   *)
(* sequential machine SeqISA and the pipelined machine InOrderCPU.         *)
(*                                                                         *)
(* A program is a sequence of instructions; program counters are 0-based   *)
(* as in the code, so the instruction at pc is prog[pc + 1].               *)
(***************************************************************************)
EXTENDS Integers, Sequences

CONSTANTS
  NumRegs,    \* registers of the machine (32 in CPU.__init__)
  MemWords,   \* MEM_WORDS, words of data memory (4096 in the code)
  Programs    \* the programs the machine may be started with

Reg  == 0 .. NumRegs - 1
Addr == 0 .. MemWords - 1

ScalarOps == {"NOP", "ADD", "SUB", "ADDI", "MOV", "MUL", "DIV"}
VectorOps == {"VADD", "VMUL"}
BranchOps == {"BEQ", "BNE", "JUMP"}
MemOps    == {"LOAD", "STORE"}
Ops == ScalarOps \cup VectorOps \cup BranchOps \cup MemOps \cup {"HALT"}

Instr == [op : Ops, rd : Reg, rs1 : Reg, rs2 : Reg, imm : Int]

ASSUME RegsAssumption == NumRegs \in Nat \ {0} /\ MemWords \in Nat \ {0}
ASSUME ProgramsAssumption == Programs \subseteq Seq(Instr) \ {<<>>}

\* Instruction.reads: the source registers of an instruction.
Reads(i) ==
  CASE i.op \in {"ADD", "SUB", "MUL", "DIV", "VADD", "VMUL",
                 "BEQ", "BNE", "STORE"}    -> {i.rs1, i.rs2}
    [] i.op \in {"ADDI", "MOV", "LOAD"}    -> {i.rs1}
    [] i.op \in {"NOP", "JUMP", "HALT"}    -> {}

\* Instruction.writes: the destination, unless it is register 0.
Writes(i) ==
  IF i.op \in {"ADD", "SUB", "MUL", "DIV", "ADDI", "MOV",
               "LOAD", "VADD", "VMUL"}
    THEN {i.rd} \ {0}
    ELSE {}

IsMem(i)    == i.op \in MemOps
IsBranch(i) == i.op \in BranchOps

\* Python's // rounds towards minus infinity for either sign of the divisor,
\* and the machine defines division by zero as 0.
FloorDiv(a, b) ==
  IF b = 0 THEN 0
  ELSE IF b > 0 THEN a \div b
  ELSE (-a) \div (-b)

\* The value an arithmetic instruction computes from its source registers.
AluValue(i, a, b) ==
  CASE i.op \in {"ADD", "VADD"} -> a + b
    [] i.op = "SUB"             -> a - b
    [] i.op \in {"MUL", "VMUL"} -> a * b
    [] i.op = "DIV"             -> FloorDiv(a, b)
    [] i.op = "ADDI"            -> a + i.imm
    [] i.op = "MOV"             -> a
    [] OTHER                    -> 0

EffAddr(i, r) == (r[i.rs1] + i.imm) % MemWords

Taken(i, r) ==
  CASE i.op = "BEQ" -> r[i.rs1] = r[i.rs2]
    [] i.op = "BNE" -> r[i.rs1] # r[i.rs2]
    [] OTHER        -> TRUE

\* A register file after writing v to the destination of i; r0 stays 0.
WriteBack(r, i, v) == [x \in Reg |-> IF x \in Writes(i) THEN v ELSE r[x]]
=============================================================================
