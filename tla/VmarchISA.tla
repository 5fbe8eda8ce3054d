------------------------------ MODULE VmarchISA ------------------------------
(***************************************************************************)
(* VM-ISA-1, microarchitecture/vmarch/isa.py: the vmicro instructions on   *)
(* words of fixed width, with FENCE, PREFETCH and ECALL.  Shared by the    *)
(* sequential machine SeqVmarch and the out-of-order machine OoOCore.      *)
(***************************************************************************)
EXTENDS Integers, Sequences

CONSTANTS
  NumRegs,    \* architectural registers (32)
  MemWords,   \* mem_words (4096)
  SignBit     \* 0x80000000, half the number of words

Micro == INSTANCE VmicroISA WITH Programs <- {}

ASSUME WordAssumption == {NumRegs, MemWords, SignBit} \subseteq Nat \ {0}

Reg  == Micro!Reg
Addr == Micro!Addr
Word == -SignBit .. SignBit - 1

Instr == [op : Micro!Ops \cup {"FENCE", "PREFETCH", "ECALL"},
          rd : Reg, rs1 : Reg, rs2 : Reg, imm : Int]

\* _s32: two's complement.
Wrap(v) == LET u == v % (2 * SignBit)
           IN  IF u >= SignBit THEN u - 2 * SignBit ELSE u

IsMem(i)    == Micro!IsMem(i)
IsBranch(i) == Micro!IsBranch(i)
IsHalt(i)   == i.op \in {"HALT", "ECALL"}

\* Instruction.reads: the registers an instruction reads, in order.
Reads(i) ==
  CASE i.op \in {"NOP", "JUMP", "HALT", "FENCE"}          -> <<>>
    [] i.op \in {"ADDI", "MOV", "LOAD", "PREFETCH", "ECALL"} -> <<i.rs1>>
    [] OTHER                                              -> <<i.rs1, i.rs2>>

\* Instruction.writes: does the instruction write rd?
WritesRd(i) == Micro!Writes(i) # {}

\* The value computed from the operands a and b.
Value(i, a, b) == Wrap(Micro!AluValue(i, a, b))

\* The address accessed when the base register holds a.
Address(i, a) == (a + i.imm) % MemWords

\* Is the branch taken when its operands are a and b?
TakenOn(i, a, b) ==
  CASE i.op = "BEQ" -> a = b
    [] i.op = "BNE" -> a # b
    [] OTHER        -> TRUE
=============================================================================
