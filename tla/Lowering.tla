------------------------------- MODULE Lowering -------------------------------
(***************************************************************************)
(* The lowering of virtual_computer/lowering.py: the two programs that     *)
(* stand for one loop, the dot product of two vectors, built without and   *)
(* with optimisation.  An instruction means what VmicroISA says.           *)
(***************************************************************************)
EXTENDS Integers, Sequences, FiniteSets, SequencesExt

CONSTANT Operands   \* values of the vectors (1 .. 9 in the code)

ASSUME OperandsAssumption == Operands \subseteq Int

ISA == INSTANCE VmicroISA WITH NumRegs <- 12, MemWords <- 4096, Programs <- {}

Presets == {"O0", "O3"}

ABase == 100
BBase == 200
SpillAddr == 900
OutAddr == 910

Ins(op, rd, rs1, rs2, imm) == [op |-> op, rd |-> rd, rs1 |-> rs1, rs2 |-> rs2, imm |-> imm]
LoadReg(rd, addr) == Ins("LOAD", rd, 0, 0, addr)
StoreReg(rs, addr) == Ins("STORE", 0, 0, rs, addr)
ClearAcc == <<Ins("ADDI", 3, 0, 0, 0)>>
StoreAcc == <<StoreReg(3, OutAddr), Ins("HALT", 0, 0, 0, 0)>>

Element(i) == << LoadReg(5, ABase + i), LoadReg(6, BBase + i), Ins("MUL", 7, 5, 6, 0),
                 Ins("ADD", 3, 3, 7, 0), StoreReg(3, SpillAddr), LoadReg(3, SpillAddr) >>

\* Two elements.  Faulty variant: the second one is the first again.
SamePair(i) == << LoadReg(5, ABase + i), LoadReg(6, BBase + i), Ins("VMUL", 7, 5, 6, 0),
                  LoadReg(8, ABase + i), LoadReg(9, BBase + i), Ins("VMUL", 10, 8, 9, 0),
                  Ins("VADD", 11, 7, 10, 0), Ins("ADD", 3, 3, 11, 0) >>
Block(i) == << LoadReg(5, ABase + i), LoadReg(6, BBase + i), Ins("VMUL", 7, 5, 6, 0),
               LoadReg(8, ABase + i + 1), LoadReg(9, BBase + i + 1), Ins("VMUL", 10, 8, 9, 0),
               Ins("VADD", 11, 7, 10, 0), Ins("ADD", 3, 3, 11, 0) >>

LowerO0(n) == ClearAcc \o FlattenSeq([k \in 1 .. n |-> Element(k - 1)]) \o StoreAcc
LowerO3(n) == ClearAcc \o FlattenSeq([k \in 1 .. n \div 2 |-> Block(2 * k - 2)]) \o StoreAcc

Lower(preset, n) == IF preset = "O0" THEN LowerO0(n) ELSE LowerO3(n)
MemOps(preset, n) ==
  Cardinality({k \in 1 .. Len(Lower(preset, n)) : ISA!IsMem(Lower(preset, n)[k])})

\* vector_memory: the operands at their addresses, and their dot product.
Vectors(n) == [a : [0 .. n - 1 -> Operands], b : [0 .. n - 1 -> Operands]]
Memory(v, n) ==
  [x \in {ABase + i : i \in 0 .. n - 1} \cup {BBase + i : i \in 0 .. n - 1}
         \cup {SpillAddr, OutAddr} |->
     IF x - ABase \in 0 .. n - 1 THEN v.a[x - ABase]
     ELSE IF x - BBase \in 0 .. n - 1 THEN v.b[x - BBase] ELSE 0]
Plus(x, y) == x + y
Expected(v, n) == FoldLeft(Plus, 0, [i \in 1 .. n |-> v.a[i - 1] * v.b[i - 1]])

\* A straight-line program, executed to its end.
Execute(s, i) ==
  [regs |-> ISA!WriteBack(s.regs, i,
              IF i.op = "LOAD" THEN s.mem[i.imm]
              ELSE ISA!AluValue(i, s.regs[i.rs1], s.regs[i.rs2])),
   mem  |-> IF i.op = "STORE" THEN [s.mem EXCEPT ![i.imm] = s.regs[i.rs2]] ELSE s.mem]

Executed(prog, mem) == FoldLeft(Execute, [regs |-> [r \in 0 .. 11 |-> 0], mem |-> mem], prog)

Result(preset, n, v) == LET s == Executed(Lower(preset, n), Memory(v, n))
                          IN  [acc |-> s.regs[3], out |-> s.mem[OutAddr]]
=============================================================================
