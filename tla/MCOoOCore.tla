----------------------------- MODULE MCOoOCore -----------------------------
(***************************************************************************)
(* Instances of OoOCore for TLC: three registers on six physical ones,     *)
(* words of five bits, a reorder buffer of four entries, or of sixteen, the*)
(* smallest of the design points, where the memory is slow.                *)
(***************************************************************************)
EXTENDS OoOCore

I(op, rd, rs1, rs2, imm) ==
  [op |-> op, rd |-> rd, rs1 |-> rs1, rs2 |-> rs2, imm |-> imm]
Halt == I("HALT", 0, 0, 0, 0)

B(power, spec, accel) == [power |-> power, spec |-> spec, accel |-> accel]
MCRecovery == B("eco", "off", FALSE)
Balanced   == B("balanced", "conservative", TRUE)
Latency    == B("turbo", "aggressive", TRUE)
Slowest    == B("eco", "conservative", FALSE)

MCCfg == [fetch |-> 2, decode |-> 2, issue |-> 2, commit |-> 2,
          rs |-> 3, lsq |-> 3, phys |-> 6, mshr |-> 4]

Zero == [r \in Reg |-> 0]
MCMem == (0 :> 6) @@ (1 :> -3)

Setup(p, r, plan, headroom) ==
  [prog |-> p, regs |-> r, mem |-> MCMem, plan |-> plan, headroom |-> headroom,
   rob |-> 4, loads |-> {2, 9}, lines |-> {9}]

-----------------------------------------------------------------------------
\* Straight programs after r1 = 3.
Alphabet ==
  { I("DIV",   2, 0, 1, 0),
    I("VMUL",  1, 1, 1, 0),
    I("ADDI",  1, 1, 0, 7),
    I("LOAD",  2, 0, 0, 1),
    I("STORE", 0, 1, 1, 0) }

Start == I("ADDI", 1, 0, 0, 3)

Straight == { <<Start>> \o q \o <<Halt>> : q \in [1 .. 3 -> Alphabet] }

StraightSetups ==
  { Setup(p, Zero, {Balanced}, {"ample"}) : p \in Straight }

-----------------------------------------------------------------------------
\* Loops and branches over slow operations, under two bundles that speculate.
Branchy ==
  { << Start, I("ADDI", 1, 1, 0, -1), I("MUL", 2, 1, 1, 0), I("BNE", 0, 1, 0, -2), Halt >>,
    << Start, I("DIV", 2, 1, 1, 0), I("BEQ", 0, 2, 1, 3), I("STORE", 0, 0, 1, 0),
       I("ADDI", 1, 1, 0, 5), I("LOAD", 2, 0, 0, 0), I("ECALL", 0, 2, 0, 0) >>,
    << I("LOAD", 1, 0, 0, 0), I("BNE", 0, 1, 0, 3), I("FENCE", 0, 0, 0, 0),
       I("STORE", 0, 0, 2, 1),
       I("PREFETCH", 0, 1, 0, 1), I("JUMP", 0, 0, 0, 2), I("ADDI", 1, 0, 0, 1),
       I("VADD", 2, 1, 1, 0) >>,
    << Start, I("MUL", 2, 1, 1, 0), I("BNE", 0, 2, 1, 2), I("SUB", 1, 1, 1, 0),
       I("BEQ", 0, 1, 0, 2), I("STORE", 0, 1, 2, 1), I("MOV", 2, 1, 0, 0), Halt >> }

BranchySetups ==
  { Setup(p, Zero, {Balanced, Latency}, {"ample"}) : p \in Branchy }

\* Bundles that do not speculate, and a governor that may impose one: no branch
\* is taken.
NotTaken ==
  { << Start, I("BNE", 0, 1, 1, 2), I("DIV", 2, 1, 1, 0), I("BNE", 0, 2, 2, -1),
       I("STORE", 0, 2, 1, 0), Halt >> }

OneLine == << Start, I("BNE", 0, 1, 1, 2), I("DIV", 2, 1, 1, 0), Halt >>

NotTakenSetups ==
  { Setup(OneLine, Zero, {Latency}, {"low", "ample"}) }
    \cup { Setup(p, Zero, {Latency}, {"exhausted"}) : p \in NotTaken }
    \cup { Setup(p, Zero, {Latency, MCRecovery}, {"ample"}) : p \in NotTaken }

-----------------------------------------------------------------------------
\* Memory as slow as it gets: a load that decides a branch while the line behind the
\* branch is fetched, from a third line on the other path; loads one after another.
WrongPath ==
  << I("LOAD", 1, 0, 0, 0), I("BNE", 0, 1, 0, 7), I("ADDI", 2, 0, 0, 1),
     I("ADDI", 2, 2, 0, 1), I("VADD", 2, 2, 2, 0), Halt, Halt, Halt,
     I("ADDI", 2, 1, 0, 2), I("LOAD", 1, 2, 0, 0), I("STORE", 0, 0, 1, 0), Halt >>
Chained ==
  << I("LOAD", 1, 0, 0, 0), I("LOAD", 1, 1, 0, 1), I("LOAD", 2, 1, 0, 0),
     I("DIV", 2, 1, 2, 0), I("STORE", 0, 2, 1, 0), Halt >>

SlowSetups ==
  { [Setup(p, Zero, {b}, {"ample"}) EXCEPT !.rob = 16, !.loads = {2, 45}, !.lines = {20, 45}] :
      p \in {WrongPath, Chained}, b \in {Balanced, Slowest} }

-----------------------------------------------------------------------------
\* What the core does not run exactly: a taken branch that was not predicted, with
\* something younger renamed, or younger and already executing; two stores
\* before a load; and a branch below 0.
Unpredicted == << Start, I("BNE", 0, 1, 0, 2), I("ADDI", 1, 1, 0, 1),
                  I("STORE", 0, 0, 1, 0), Halt >>
Overtaken ==
  << Start, I("MUL", 2, 1, 1, 0), I("BNE", 0, 2, 0, 2), I("DIV", 1, 1, 1, 0), Halt >>
TwoStores ==
  << Start, I("STORE", 0, 0, 1, 0), I("ADDI", 2, 0, 0, 9), I("STORE", 0, 0, 2, 0),
     I("LOAD", 1, 0, 0, 0), Halt >>
Below == << I("JUMP", 0, 0, 0, -1), Halt >>

InexactSetups ==
  { Setup(p, Zero, {MCRecovery}, {"ample"}) : p \in {Unpredicted, Overtaken} }
    \cup { Setup(p, Zero, {Balanced}, {"ample"}) : p \in {TwoStores, Below} }

AllSetups == StraightSetups \cup BranchySetups \cup NotTakenSetups \cup SlowSetups
               \cup InexactSetups

-----------------------------------------------------------------------------
\* A slow writer of r1 is in flight when a branch is taken that was not predicted, and
\* behind the branch r1 was renamed once more; five physical registers.
Redirected ==
  << I("DIV", 1, 0, 0, 0), I("BEQ", 0, 0, 0, 2), I("ADDI", 1, 1, 0, 1),
     I("ADDI", 2, 0, 0, 1), I("ADD", 1, 2, 2, 0), Halt >>
RedirectedSetups == { Setup(Redirected, Zero, {MCRecovery}, {"ample"}) }
TightCfg == [MCCfg EXCEPT !.phys = 5]
=============================================================================
