-------------------------- MODULE InOrderCPUProofs --------------------------
(***************************************************************************)
(* Machine-checked facts about InOrderCPU, for every program, register     *)
(* file, memory, control plan and thermal history.                         *)
(***************************************************************************)
EXTENDS InOrderCPU, SequenceTheorems, TLAPS

(***************************************************************************)
(* Removing the i-th element of a sequence.                                *)
(***************************************************************************)
LEMMA RemoveAtFacts ==
  ASSUME NEW S, NEW s \in Seq(S), NEW i \in 1 .. Len(s)
  PROVE  /\ RemoveAt(s, i) \in Seq(S)
         /\ Len(RemoveAt(s, i)) = Len(s) - 1
         /\ \A j \in 1 .. Len(s) - 1 :
              RemoveAt(s, i)[j] = IF j < i THEN s[j] ELSE s[j + 1]
<1> DEFINE a == SubSeq(s, 1, i - 1)
           b == SubSeq(s, i + 1, Len(s))
<1>1. /\ a \in Seq(S) /\ Len(a) = i - 1
      /\ \A j \in 1 .. i - 1 : a[j] = s[j]
  BY SubSeqProperties
<1>2. /\ b \in Seq(S) /\ Len(b) = Len(s) - i
      /\ \A j \in 1 .. Len(s) - i : b[j] = s[i + j]
  BY SubSeqProperties
<1>3. RemoveAt(s, i) = a \o b
  BY DEF RemoveAt
<1> HIDE DEF a, b
<1>4. /\ a \o b \in Seq(S)
      /\ Len(a \o b) = Len(a) + Len(b)
      /\ \A j \in 1 .. Len(a) + Len(b) :
           (a \o b)[j] = IF j <= Len(a) THEN a[j] ELSE b[j - Len(a)]
  BY <1>1, <1>2, ConcatProperties
<1>5. ASSUME NEW j \in 1 .. Len(s) - 1
      PROVE  (a \o b)[j] = IF j < i THEN s[j] ELSE s[j + 1]
  <2>1. CASE j < i
    BY <1>1, <1>2, <1>4, <2>1
  <2>2. CASE ~(j < i)
    <3>1. (a \o b)[j] = b[j - (i - 1)]
      BY <1>1, <1>2, <1>4, <2>2
    <3>2. j - (i - 1) \in 1 .. Len(s) - i
      BY <2>2
    <3>3. b[j - (i - 1)] = s[i + (j - (i - 1))]
      BY <1>2, <3>2
    <3>4. i + (j - (i - 1)) = j + 1
      OBVIOUS
    <3> QED
      BY <2>2, <3>1, <3>3, <3>4
  <2> QED
    BY <2>1, <2>2
<1> QED
  BY <1>1, <1>2, <1>3, <1>4, <1>5

\* Replacing one element of a sequence.
LEMMA ExceptFacts ==
  ASSUME NEW S, NEW s \in Seq(S), NEW i \in 1 .. Len(s), NEW e \in S
  PROVE  /\ [s EXCEPT ![i] = e] \in Seq(S)
         /\ Len([s EXCEPT ![i] = e]) = Len(s)
         /\ \A j \in 1 .. Len(s) :
              [s EXCEPT ![i] = e][j] = IF j = i THEN e ELSE s[j]
OBVIOUS

-----------------------------------------------------------------------------
(* Values, addresses and latencies have their types.                       *)

LEMMA AluValueType ==
  ASSUME NEW i \in Instr, NEW a \in Int, NEW b \in Int
  PROVE  AluValue(i, a, b) \in Int
<1>1. FloorDiv(a, b) \in Int
  BY DEF FloorDiv
<1>2. a * b \in Int /\ i.imm \in Int
  BY DEF Instr
<1> QED
  BY <1>1, <1>2 DEF AluValue

LEMMA EffAddrType ==
  ASSUME NEW i \in Instr, NEW r \in [Reg -> Int]
  PROVE  EffAddr(i, r) \in Addr
<1>1. r[i.rs1] + i.imm \in Int
  BY DEF Instr
<1> QED
  BY <1>1, RegsAssumption DEF EffAddr, Addr

LEMMA LatencyTypes ==
  ASSUME NEW i \in Instr, NEW b \in Bundle, NEW flag \in BOOLEAN
  PROVE  AluLatency(i, b, flag) \in Int /\ MemLatency(b, flag) \in Int
<1>1. Scale(b) \in {125, 100, 78} /\ AluBase(i, b) \in {1, 2, 3, 4, 6}
  BY DEF Scale, AluBase
<1>2. (AluBase(i, b) * Scale(b) + 99) \div 100 \in Int
  BY <1>1
<1>3. MissLatency \in Int
  BY LimitsAssumption
<1>4. (IF flag THEN 2 ELSE MissLatency) * (600 + 4 * Scale(b)) \in Int
  BY <1>1, <1>3
<1> QED
  BY <1>2, <1>4 DEF AluLatency, MemLatency, CeilDiv

LEMMA WriteBackType ==
  ASSUME NEW r \in [Reg -> Int], NEW i \in Instr, NEW v \in Int
  PROVE  WriteBack(r, i, v) \in [Reg -> Int]
BY DEF WriteBack

LEMMA FetchedType ==
  ASSUME TypeOK, InProgram
  PROVE  Fetched \in Instr /\ fetchPc \in 0 .. Len(prog) - 1
BY DEF TypeOK, InProgram, Fetched

-----------------------------------------------------------------------------
(* Type correctness.                                                       *)

\* Entering an operation keeps the in-flight list well typed.
LEMMA EnterType ==
  ASSUME TypeOK, InProgram, slots > 0,
         NEW left \in Int, NEW val \in Int, NEW addr \in Addr,
         Enter(left, val, addr), prog' = prog
  PROVE  /\ inFlight' \in Seq(InFlightOp)
         /\ \A k \in 1 .. Len(inFlight') : inFlight'[k].pc < Len(prog')
         /\ pending' \subseteq Reg
         /\ slots' \in 0 .. 3
<1> DEFINE op == [pc |-> fetchPc, left |-> left, val |-> val, addr |-> addr]
<1>1. op \in InFlightOp /\ op.pc < Len(prog)
  BY FetchedType DEF InFlightOp
<1>2. inFlight' = Append(inFlight, op) /\ inFlight \in Seq(InFlightOp)
  BY DEF Enter, TypeOK
<1> HIDE DEF op
<1>3. /\ inFlight' \in Seq(InFlightOp)
      /\ \A k \in 1 .. Len(inFlight') : inFlight'[k].pc < Len(prog')
  BY <1>1, <1>2, AppendProperties DEF TypeOK
<1>4. Fetched \in Instr
  BY FetchedType
<1>5. pending' \subseteq Reg /\ slots' \in 0 .. 3
  BY <1>4 DEF Enter, Claimed, Writes, Instr, TypeOK
<1> QED
  BY <1>3, <1>5

LEMMA InstrOfType ==
  ASSUME TypeOK, NEW k \in 1 .. Len(inFlight)
  PROVE  inFlight[k] \in InFlightOp /\ InstrOf(inFlight[k]) \in Instr
<1>1. inFlight[k] \in InFlightOp /\ inFlight[k].pc < Len(prog)
  BY DEF TypeOK
<1>2. prog \in Seq(Instr) /\ Len(prog) \in Nat
  BY DEF TypeOK
<1>3. inFlight[k].pc \in Nat
  BY <1>1 DEF InFlightOp
<1>4. inFlight[k].pc + 1 \in 1 .. Len(prog)
  BY <1>1, <1>2, <1>3
<1> QED
  BY <1>1, <1>2, <1>4 DEF InstrOf

LEMMA GovernedType ==
  ASSUME NEW b \in Bundles, NEW h
  PROVE  Governed(b, h) \in Bundles
BY BundlesAssumption DEF Governed

LEMMA WidthType == ASSUME NEW b PROVE Width(b) \in 1 .. 3
BY DEF Width

LEMMA TrainedType ==
  ASSUME NEW c \in 0 .. 3, NEW taken \in BOOLEAN
  PROVE  Trained(c, taken) \in 0 .. 3
BY DEF Trained

\* Each action preserves TypeOK.
LEMMA TypeStep == TypeOK /\ [Next]_vars => TypeOK'
<1> SUFFICES ASSUME TypeOK, [Next]_vars PROVE TypeOK'
  OBVIOUS
<1>1. CASE Stop
  BY <1>1 DEF Stop, TypeOK, cpuVars
<1>2. CASE EndOfProgram
  BY <1>2 DEF EndOfProgram, TypeOK
<1>3. ASSUME NEW b \in Bundles, NEW h \in {"exhausted", "low", "ample"},
             StartCycle(b, h)
      PROVE  TypeOK'
  BY <1>3, GovernedType, WidthType DEF StartCycle, TypeOK, cpuVars
<1>4. CASE IssueHalt
  <2>1. InProgram /\ slots > 0 /\ Enter(1, 0, 0) /\ prog' = prog /\ 0 \in Addr
    BY <1>4, RegsAssumption DEF IssueHalt, IssueSlot, Issuable, Addr
  <2>2. /\ inFlight' \in Seq(InFlightOp)
        /\ \A k \in 1 .. Len(inFlight') : inFlight'[k].pc < Len(prog')
        /\ pending' \subseteq Reg /\ slots' \in 0 .. 3
    BY <2>1, EnterType
  <2> QED
    BY <1>4, <2>2 DEF IssueHalt, TypeOK
<1>5. CASE IssueBranch
  <2> DEFINE taken      == Taken(Fetched, regs)
             speculates == control.spec # "off"
             miss       == speculates /\ (btable[fetchPc] >= 2) # taken
             left       == IF ~speculates THEN 2
                           ELSE IF miss THEN 1 + MispredictPenalty ELSE 1
  <2>1. /\ InProgram /\ slots > 0 /\ prog' = prog /\ 0 \in Addr
        /\ left \in Int /\ Enter(left, 0, 0)
    BY <1>5, RegsAssumption
    DEF IssueBranch, IssueSlot, Issuable, Addr, MispredictPenalty
  <2>2. /\ inFlight' \in Seq(InFlightOp)
        /\ \A k \in 1 .. Len(inFlight') : inFlight'[k].pc < Len(prog')
        /\ pending' \subseteq Reg /\ slots' \in 0 .. 3
    <3> HIDE DEF left
    <3> QED  BY <2>1, EnterType
  <2>3. /\ taken \in BOOLEAN
        /\ Fetched \in Instr /\ Fetched.imm \in Int
        /\ fetchPc \in 0 .. Len(prog) - 1
    BY <2>1, FetchedType DEF Taken, Instr
  <2>4. btable' \in [0 .. Len(prog') - 1 -> 0 .. 3]
    <3>1. \/ btable' = btable
          \/ btable' = [btable EXCEPT ![fetchPc] = Trained(btable[fetchPc], taken)]
      BY <1>5 DEF IssueBranch
    <3>2. btable[fetchPc] \in 0 .. 3
      BY <2>3 DEF TypeOK
    <3>3. Trained(btable[fetchPc], taken) \in 0 .. 3
      BY <2>3, <3>2, TrainedType
    <3> QED
      BY <2>1, <3>1, <3>3 DEF TypeOK
  <2>5. bubble' \in Nat
    BY <1>5 DEF IssueBranch, TypeOK, MispredictPenalty
  <2>6. fetchPc' \in Int
    BY <1>5, <2>3 DEF IssueBranch
  <2> QED
    BY <1>5, <2>2, <2>4, <2>5, <2>6 DEF IssueBranch, TypeOK
<1>6. ASSUME NEW hit \in BOOLEAN, IssueLoad(hit)
      PROVE  TypeOK'
  <2> DEFINE a == EffAddr(Fetched, regs)
  <2>1. InProgram /\ slots > 0 /\ prog' = prog /\ Enter(MemLatency(control, hit), mem[a], a)
    BY <1>6 DEF IssueLoad, IssueSlot, Issuable
  <2>2. Fetched \in Instr /\ a \in Addr
    BY <2>1, FetchedType, EffAddrType DEF TypeOK
  <2>3. MemLatency(control, hit) \in Int /\ mem[a] \in Int
    BY <2>2, LatencyTypes, BundlesAssumption DEF TypeOK
  <2>4. /\ inFlight' \in Seq(InFlightOp)
        /\ \A k \in 1 .. Len(inFlight') : inFlight'[k].pc < Len(prog')
        /\ pending' \subseteq Reg /\ slots' \in 0 .. 3
    <3> HIDE DEF a
    <3> QED  BY <2>1, <2>2, <2>3, EnterType
  <2> QED
    BY <1>6, <2>4 DEF IssueLoad, TypeOK
<1>7. ASSUME NEW hit \in BOOLEAN, IssueStore(hit)
      PROVE  TypeOK'
  <2> DEFINE a == EffAddr(Fetched, regs)
  <2>1. /\ InProgram /\ slots > 0 /\ prog' = prog
        /\ Enter(MemLatency(control, hit), regs[Fetched.rs2], a)
    BY <1>7 DEF IssueStore, IssueSlot, Issuable
  <2>2. Fetched \in Instr /\ a \in Addr
    BY <2>1, FetchedType, EffAddrType DEF TypeOK
  <2>3. MemLatency(control, hit) \in Int /\ regs[Fetched.rs2] \in Int
    BY <2>2, LatencyTypes, BundlesAssumption DEF TypeOK, Instr
  <2>4. /\ inFlight' \in Seq(InFlightOp)
        /\ \A k \in 1 .. Len(inFlight') : inFlight'[k].pc < Len(prog')
        /\ pending' \subseteq Reg /\ slots' \in 0 .. 3
    <3> HIDE DEF a
    <3> QED  BY <2>1, <2>2, <2>3, EnterType
  <2> QED
    BY <1>7, <2>4 DEF IssueStore, TypeOK
<1>8. ASSUME NEW setup \in BOOLEAN, IssueAlu(setup)
      PROVE  TypeOK'
  <2> DEFINE v == AluValue(Fetched, regs[Fetched.rs1], regs[Fetched.rs2])
  <2>1. /\ InProgram /\ slots > 0 /\ prog' = prog /\ 0 \in Addr
        /\ Enter(AluLatency(Fetched, control, setup), v, 0)
    BY <1>8, RegsAssumption DEF IssueAlu, IssueSlot, Issuable, Addr
  <2>2. Fetched \in Instr /\ regs[Fetched.rs1] \in Int /\ regs[Fetched.rs2] \in Int
    BY <2>1, FetchedType DEF TypeOK, Instr
  <2>3. AluLatency(Fetched, control, setup) \in Int /\ v \in Int
    BY <2>2, LatencyTypes, AluValueType, BundlesAssumption DEF TypeOK
  <2>4. /\ inFlight' \in Seq(InFlightOp)
        /\ \A k \in 1 .. Len(inFlight') : inFlight'[k].pc < Len(prog')
        /\ pending' \subseteq Reg /\ slots' \in 0 .. 3
    <3> HIDE DEF v
    <3> QED  BY <2>1, <2>2, <2>3, EnterType
  <2> QED
    BY <1>8, <2>4 DEF IssueAlu, TypeOK
<1>9. CASE IssuePastEnd
  BY <1>9 DEF IssuePastEnd, TypeOK
<1>10. CASE EndIssue
  BY <1>10 DEF EndIssue, TypeOK, cpuVars
<1>11. CASE Tick
  <2>1. /\ inFlight' \in Seq(InFlightOp)
        /\ \A k \in 1 .. Len(inFlight') : inFlight'[k].pc < Len(prog)
    <3>1. cursor \in 1 .. Len(inFlight)
      BY <1>11 DEF Tick, AtCursor, TypeOK
    <3>2. inFlight[cursor] \in InFlightOp
      BY <3>1 DEF TypeOK
    <3> DEFINE ticked == [inFlight[cursor] EXCEPT !.left = @ - 1]
    <3>3. ticked \in InFlightOp /\ ticked.pc = inFlight[cursor].pc
      BY <3>2 DEF InFlightOp
    <3>4. inFlight' = [inFlight EXCEPT ![cursor] = ticked]
      BY <1>11 DEF Tick
    <3>5. inFlight \in Seq(InFlightOp)
      BY DEF TypeOK
    <3> HIDE DEF ticked
    <3>6. /\ inFlight' \in Seq(InFlightOp)
          /\ Len(inFlight') = Len(inFlight)
          /\ \A j \in 1 .. Len(inFlight) :
               inFlight'[j] = IF j = cursor THEN ticked ELSE inFlight[j]
      BY <3>1, <3>3, <3>4, <3>5, ExceptFacts
    <3> QED
      BY <3>1, <3>3, <3>6 DEF TypeOK
  <2> QED
    BY <1>11, <2>1 DEF Tick, TypeOK
<1>12. CASE Retire
  <2> DEFINE op == inFlight[cursor]
  <2>1. cursor \in 1 .. Len(inFlight) /\ inFlight \in Seq(InFlightOp)
    BY <1>12 DEF Retire, AtCursor, TypeOK
  <2>2. op \in InFlightOp /\ InstrOf(op) \in Instr
    BY <2>1, InstrOfType
  <2>3. regs' \in [Reg -> Int]
    BY <1>12, <2>2, WriteBackType DEF Retire, TypeOK, InFlightOp
  <2>4. mem' \in [Addr -> Int]
    BY <1>12, <2>2 DEF Retire, TypeOK, InFlightOp
  <2>5. /\ inFlight' \in Seq(InFlightOp)
        /\ \A k \in 1 .. Len(inFlight') : inFlight'[k].pc < Len(prog)
    <3>1. inFlight' = RemoveAt(inFlight, cursor)
      BY <1>12 DEF Retire
    <3>2. Len(inFlight') = Len(inFlight) - 1
      BY <2>1, <3>1, RemoveAtFacts
    <3>3. \A k \in 1 .. Len(inFlight) - 1 :
            inFlight'[k] = IF k < cursor THEN inFlight[k] ELSE inFlight[k + 1]
      BY <2>1, <3>1, RemoveAtFacts
    <3>4. inFlight' \in Seq(InFlightOp)
      BY <2>1, <3>1, RemoveAtFacts
    <3>5. ASSUME NEW k \in 1 .. Len(inFlight')
          PROVE  inFlight'[k].pc < Len(prog)
      <4>1. k \in 1 .. Len(inFlight) - 1 /\ k \in 1 .. Len(inFlight)
            /\ k + 1 \in 1 .. Len(inFlight)
        BY <2>1, <3>2
      <4> QED
        BY <3>3, <4>1 DEF TypeOK
    <3> QED
      BY <3>4, <3>5
  <2> QED
    BY <1>12, <2>3, <2>4, <2>5 DEF Retire, TypeOK
<1>13. CASE EndCycle
  BY <1>13 DEF EndCycle, TypeOK, cpuVars
<1>14. CASE UNCHANGED vars
  BY <1>14 DEF vars, cpuVars, TypeOK
<1> QED
  BY <1>1, <1>2, <1>3, <1>4, <1>5, <1>6, <1>7, <1>8, <1>9, <1>10, <1>11,
     <1>12, <1>13, <1>14 DEF Next

LEMMA TypeInit == Init => TypeOK
<1> SUFFICES ASSUME Init PROVE TypeOK
  OBVIOUS
<1>1. prog \in Seq(Instr) /\ inFlight \in Seq(InFlightOp) /\ Len(inFlight) = 0
  BY ProgramsAssumption DEF Init
<1>2. regs \in [Reg -> Int] /\ mem \in [Addr -> Int]
  BY InitStatesAssumption DEF Init
<1>3. btable \in [0 .. Len(prog) - 1 -> 0 .. 3]
  BY DEF Init
<1>4. \A k \in 1 .. Len(inFlight) : inFlight[k].pc < Len(prog)
  BY <1>1
<1>5. /\ fetchPc = 0 /\ pending = {} /\ control \in Bundles /\ bubble = 0
      /\ halted \in BOOLEAN /\ phase = "run" /\ slots = 0 /\ cursor = 1 /\ cycles = 0
  BY DEF Init
<1> QED
  BY <1>1, <1>2, <1>3, <1>4, <1>5 DEF TypeOK

\* Every variable keeps its type, and every operation in flight belongs to
\* the program, for any program, plan and thermal history.
THEOREM TypeCorrect == Spec => []TypeOK
<1>1. Init => TypeOK
  BY TypeInit
<1>2. TypeOK /\ [Next]_vars => TypeOK'
  BY TypeStep
<1> QED
  BY <1>1, <1>2, PTL DEF Spec

-----------------------------------------------------------------------------
(* How the three kinds of step change the in-flight list.                  *)

\* Issue appends one operation.
LEMMA EnterFacts ==
  ASSUME TypeOK, NEW left, NEW val, NEW addr, Enter(left, val, addr), prog' = prog
  PROVE  /\ Len(inFlight) \in Nat
         /\ Len(inFlight') = Len(inFlight) + 1
         /\ \A k \in 1 .. Len(inFlight) :
              /\ inFlight'[k] = inFlight[k]
              /\ InstrOf(inFlight[k])' = InstrOf(inFlight[k])
         /\ \A k : k = Len(inFlight) + 1 =>
              /\ inFlight'[k] =
                   [pc |-> fetchPc, left |-> left, val |-> val, addr |-> addr]
              /\ InstrOf(inFlight[k])' = Fetched
         /\ pending' = pending \cup Writes(Fetched)
<1> DEFINE op == [pc |-> fetchPc, left |-> left, val |-> val, addr |-> addr]
<1>1. inFlight' = Append(inFlight, op) /\ inFlight \in Seq(InFlightOp)
  BY DEF Enter, TypeOK
<1>2. op.pc = fetchPc
  OBVIOUS
<1>3. /\ Len(inFlight) \in Nat
      /\ Len(inFlight') = Len(inFlight) + 1
      /\ \A k \in 1 .. Len(inFlight) : inFlight'[k] = inFlight[k]
      /\ inFlight'[Len(inFlight) + 1] = op
  <2> HIDE DEF op
  <2> QED  BY <1>1
<1> QED
  BY <1>2, <1>3 DEF Enter, Claimed, InstrOf, Fetched

\* Every issue action enters the fetched instruction after the same checks.
Issues ==
  /\ Issuable
  /\ \E left, val, addr : Enter(left, val, addr)
  /\ UNCHANGED <<prog, regs, mem, halted>>

LEMMA IssueActions ==
  ASSUME \/ IssueHalt \/ IssueBranch
         \/ \E hit \in BOOLEAN : IssueLoad(hit) \/ IssueStore(hit)
         \/ \E setup \in BOOLEAN : IssueAlu(setup)
  PROVE  Issues
<1>1. CASE IssueHalt
  BY <1>1 DEF IssueHalt, Issues
<1>2. CASE IssueBranch
  BY <1>2 DEF IssueBranch, Issues
<1>3. ASSUME NEW hit \in BOOLEAN, IssueLoad(hit)
      PROVE  Issues
  BY <1>3 DEF IssueLoad, Issues
<1>4. ASSUME NEW hit \in BOOLEAN, IssueStore(hit)
      PROVE  Issues
  BY <1>4 DEF IssueStore, Issues
<1>5. ASSUME NEW setup \in BOOLEAN, IssueAlu(setup)
      PROVE  Issues
  BY <1>5 DEF IssueAlu, Issues
<1> QED
  BY <1>1, <1>2, <1>3, <1>4, <1>5

\* A tick only shortens the remaining latency of one operation.
LEMMA TickFacts ==
  ASSUME TypeOK, Tick
  PROVE  /\ Len(inFlight') = Len(inFlight)
         /\ \A k \in 1 .. Len(inFlight) :
              /\ inFlight'[k].pc = inFlight[k].pc
              /\ inFlight'[k].val = inFlight[k].val
              /\ inFlight'[k].addr = inFlight[k].addr
              /\ InstrOf(inFlight[k])' = InstrOf(inFlight[k])
         /\ UNCHANGED <<prog, regs, mem, fetchPc, pending, halted>>
<1> DEFINE ticked == [inFlight[cursor] EXCEPT !.left = @ - 1]
<1>1. cursor \in 1 .. Len(inFlight) /\ inFlight \in Seq(InFlightOp)
  BY DEF Tick, AtCursor, TypeOK
<1>2. inFlight[cursor] \in InFlightOp
  BY <1>1
<1>3. /\ ticked \in InFlightOp
      /\ ticked.pc = inFlight[cursor].pc
      /\ ticked.val = inFlight[cursor].val
      /\ ticked.addr = inFlight[cursor].addr
  BY <1>2 DEF InFlightOp
<1>4. inFlight' = [inFlight EXCEPT ![cursor] = ticked]
  BY DEF Tick
<1>5. /\ Len(inFlight') = Len(inFlight)
      /\ \A j \in 1 .. Len(inFlight) :
           inFlight'[j] = IF j = cursor THEN ticked ELSE inFlight[j]
  <2> HIDE DEF ticked
  <2> QED  BY <1>1, <1>3, <1>4, ExceptFacts
<1>6. UNCHANGED <<prog, regs, mem, fetchPc, pending, halted>>
  BY DEF Tick
<1>7. \A k \in 1 .. Len(inFlight) :
        /\ inFlight'[k].pc = inFlight[k].pc
        /\ inFlight'[k].val = inFlight[k].val
        /\ inFlight'[k].addr = inFlight[k].addr
  <2> HIDE DEF ticked
  <2> QED  BY <1>3, <1>5
<1> QED
  BY <1>5, <1>6, <1>7 DEF InstrOf

\* The operation at the cursor leaves; the younger ones close up.
LEMMA RetireFacts ==
  ASSUME TypeOK, Retire
  PROVE  /\ cursor \in 1 .. Len(inFlight)
         /\ Len(inFlight) \in Nat
         /\ Len(inFlight') = Len(inFlight) - 1
         /\ \A k \in 1 .. Len(inFlight') :
              /\ inFlight'[k] = IF k < cursor THEN inFlight[k] ELSE inFlight[k + 1]
              /\ InstrOf(inFlight[k])' =
                   IF k < cursor THEN InstrOf(inFlight[k]) ELSE InstrOf(inFlight[k + 1])
         /\ pending' = pending \ Writes(InstrOf(inFlight[cursor]))
         /\ UNCHANGED <<prog, fetchPc>>
<1>1. /\ cursor \in 1 .. Len(inFlight) /\ inFlight \in Seq(InFlightOp)
      /\ Len(inFlight) \in Nat
  BY DEF Retire, AtCursor, TypeOK
<1>2. inFlight' = RemoveAt(inFlight, cursor)
  BY DEF Retire
<1>3. /\ Len(inFlight') = Len(inFlight) - 1
      /\ \A k \in 1 .. Len(inFlight) - 1 :
           inFlight'[k] = IF k < cursor THEN inFlight[k] ELSE inFlight[k + 1]
  BY <1>1, <1>2, RemoveAtFacts
<1>4. /\ pending' = pending \ Writes(InstrOf(inFlight[cursor]))
      /\ UNCHANGED <<prog, fetchPc>>
  BY DEF Retire, Released
<1> QED
  BY <1>1, <1>3, <1>4 DEF InstrOf

\* All other steps leave the list, the scoreboard and the program alone.
Quiet == UNCHANGED <<prog, regs, mem, fetchPc, inFlight, pending>>

LEMMA QuietActions ==
  ASSUME \/ Stop \/ EndOfProgram \/ IssuePastEnd \/ EndIssue \/ EndCycle
         \/ \E b \in Bundles, h \in {"exhausted", "low", "ample"} : StartCycle(b, h)
         \/ UNCHANGED vars
  PROVE  Quiet
BY DEF Stop, EndOfProgram, IssuePastEnd, EndIssue, EndCycle, StartCycle, vars,
       cpuVars, Quiet

LEMMA StepKinds ==
  ASSUME [Next]_vars
  PROVE  Issues \/ Tick \/ Retire \/ Quiet
<1>1. \/ IssueHalt \/ IssueBranch
      \/ \E hit \in BOOLEAN : IssueLoad(hit) \/ IssueStore(hit)
      \/ \E setup \in BOOLEAN : IssueAlu(setup)
      => Issues
  BY IssueActions
<1>2. \/ Stop \/ EndOfProgram \/ IssuePastEnd \/ EndIssue \/ EndCycle
      \/ \E b \in Bundles, h \in {"exhausted", "low", "ample"} : StartCycle(b, h)
      \/ UNCHANGED vars
      => Quiet
  BY QuietActions
<1> QED
  BY <1>1, <1>2, Zenon DEF Next

-----------------------------------------------------------------------------
(* The interlocks, for every program: also for those whose writes overlap. *)


LEMMA IssueKeepsInterlocks ==
  ASSUME TypeOK, Interlocks, Issues
  PROVE  Interlocks'
<1>0. PICK n \in Nat : n = Len(inFlight)
  BY DEF TypeOK
<1>1. PICK left, val, addr : Enter(left, val, addr)
  BY DEF Issues
<1>2. prog' = prog /\ Issuable
  BY DEF Issues
<1>3. /\ Len(inFlight') = n + 1
      /\ \A k \in 1 .. n : InstrOf(inFlight[k])' = InstrOf(inFlight[k])
      /\ pending' = pending \cup Writes(Fetched)
  BY <1>0, <1>1, <1>2, EnterFacts
<1>4. InstrOf(inFlight[n + 1])' = Fetched
  BY <1>0, <1>1, <1>2, EnterFacts
<1>5. NoPhantomPending'
  <2> SUFFICES ASSUME NEW r \in pending'
               PROVE  \E k \in 1 .. n + 1 : r \in Writes(InstrOf(inFlight[k])')
    BY <1>3 DEF NoPhantomPending, Writers
  <2>1. CASE r \in Writes(Fetched)
    BY <1>3, <1>4, <2>1
  <2>2. CASE r \in pending
    <3>1. PICK k \in 1 .. n : r \in Writes(InstrOf(inFlight[k]))
      BY <1>0, <2>2 DEF NoPhantomPending, Writers, Interlocks
    <3> QED
      BY <1>3, <3>1
  <2> QED
    BY <1>3, <2>1, <2>2
<1>6. MemorySerialized'
  <2> SUFFICES ASSUME NEW j \in 1 .. n + 1, NEW k \in 1 .. n + 1,
                      IsMem(InstrOf(inFlight[j])'), IsMem(InstrOf(inFlight[k])')
               PROVE  j = k
    BY <1>3 DEF MemorySerialized, IsMem
  <2>1. IsMem(Fetched) => \A i \in 1 .. n : ~IsMem(InstrOf(inFlight[i]))
    BY <1>0, <1>2 DEF Issuable, MemoryFree, MemInFlight
  <2>2. CASE j \in 1 .. n /\ k \in 1 .. n
    BY <1>0, <1>3, <2>2 DEF MemorySerialized, Interlocks
  <2>3. CASE j = n + 1 \/ k = n + 1
    BY <1>3, <1>4, <2>1, <2>3
  <2> QED
    BY <1>3, <2>2, <2>3
<1>7. HaltDrains'
  <2> SUFFICES ASSUME NEW k \in 1 .. n + 1, InstrOf(inFlight[k])'.op = "HALT"
               PROVE  k = 1
    BY <1>3 DEF HaltDrains
  <2>1. CASE k \in 1 .. n
    BY <1>0, <1>3, <2>1 DEF HaltDrains, Interlocks
  <2>2. CASE k = n + 1
    BY <1>0, <1>2, <1>4, <2>2 DEF Issuable, Drained
  <2> QED
    BY <1>3, <2>1, <2>2
<1> QED
  BY <1>5, <1>6, <1>7 DEF Interlocks

LEMMA RetireKeepsInterlocks ==
  ASSUME TypeOK, Interlocks, Retire
  PROVE  Interlocks'
<1>0. PICK n \in Nat : n = Len(inFlight)
  BY DEF TypeOK
<1> DEFINE old(k) == IF k < cursor THEN k ELSE k + 1
<1>1. /\ cursor \in 1 .. n /\ Len(inFlight') = n - 1
      /\ pending' = pending \ Writes(InstrOf(inFlight[cursor]))
  BY <1>0, RetireFacts
<1>2. \A k \in 1 .. n - 1 :
        /\ old(k) \in 1 .. n /\ old(k) # cursor
        /\ InstrOf(inFlight[k])' = InstrOf(inFlight[old(k)])
        /\ \A j \in 1 .. n - 1 : old(j) = old(k) => j = k
        /\ old(k) = 1 => k = 1
  BY <1>0, <1>1, RetireFacts
<1>3. \A k \in 1 .. n : k # cursor => \E j \in 1 .. n - 1 : old(j) = k
  <2> SUFFICES ASSUME NEW k \in 1 .. n, k # cursor
               PROVE  \E j \in 1 .. n - 1 : old(j) = k
    OBVIOUS
  <2>1. CASE k < cursor
    <3>1. k \in 1 .. n - 1 /\ old(k) = k
      BY <1>1, <2>1
    <3> QED  BY <3>1
  <2>2. CASE k > cursor
    <3>1. k - 1 \in 1 .. n - 1 /\ old(k - 1) = k
      BY <1>1, <2>2
    <3> QED  BY <3>1
  <2> QED
    BY <1>1, <2>1, <2>2
<1> HIDE DEF old
<1>4. NoPhantomPending'
  <2> SUFFICES ASSUME NEW r \in pending'
               PROVE  \E j \in 1 .. n - 1 : r \in Writes(InstrOf(inFlight[j])')
    BY <1>1 DEF NoPhantomPending, Writers
  <2>1. PICK k \in 1 .. n : r \in Writes(InstrOf(inFlight[k]))
    BY <1>0, <1>1 DEF NoPhantomPending, Writers, Interlocks
  <2>2. k # cursor
    BY <1>1, <2>1
  <2> QED
    BY <1>2, <1>3, <2>1, <2>2
<1>5. MemorySerialized'
  <2> SUFFICES ASSUME NEW j \in 1 .. n - 1, NEW k \in 1 .. n - 1,
                      IsMem(InstrOf(inFlight[j])'), IsMem(InstrOf(inFlight[k])')
               PROVE  j = k
    BY <1>1 DEF MemorySerialized, IsMem
  <2>1. old(j) = old(k)
    BY <1>0, <1>2 DEF MemorySerialized, Interlocks
  <2> QED
    BY <1>2, <2>1
<1>6. HaltDrains'
  <2> SUFFICES ASSUME NEW k \in 1 .. n - 1, InstrOf(inFlight[k])'.op = "HALT"
               PROVE  k = 1
    BY <1>1 DEF HaltDrains
  <2> QED
    BY <1>0, <1>2 DEF HaltDrains, Interlocks
<1> QED
  BY <1>4, <1>5, <1>6 DEF Interlocks

LEMMA TickKeepsInterlocks ==
  ASSUME TypeOK, Interlocks, Tick
  PROVE  Interlocks'
BY TickFacts DEF Interlocks, NoPhantomPending, MemorySerialized, HaltDrains,
                 Writers, IsMem

LEMMA QuietKeepsInterlocks ==
  ASSUME Interlocks, Quiet
  PROVE  Interlocks'
BY DEF Quiet, Interlocks, NoPhantomPending, MemorySerialized, HaltDrains,
       Writers, InstrOf, IsMem

LEMMA InterlocksStep == TypeOK /\ Interlocks /\ [Next]_vars => Interlocks'
BY StepKinds, IssueKeepsInterlocks, RetireKeepsInterlocks, TickKeepsInterlocks,
   QuietKeepsInterlocks

LEMMA InterlocksInit == Init => Interlocks
<1> SUFFICES ASSUME Init PROVE Interlocks
  OBVIOUS
<1>1. Len(inFlight) = 0 /\ pending = {}
  BY DEF Init
<1> QED
  BY <1>1 DEF Interlocks, NoPhantomPending, MemorySerialized, HaltDrains

\* Whatever order operations complete in, a register the RAW check waits for has
\* a writer in flight, memory operations are in flight one at a time, and a HALT
\* in flight is the oldest operation: no instruction waits for nothing, no load
\* misses an older store, and nothing is left behind a HALT.
THEOREM OrderKept == Spec => []Interlocks
<1>1. Init => Interlocks
  BY InterlocksInit
<1>2. TypeOK /\ Interlocks /\ [Next]_vars => Interlocks'
  BY InterlocksStep
<1> QED
  BY <1>1, <1>2, TypeCorrect, PTL DEF Spec

-----------------------------------------------------------------------------
(* The scoreboard, for programs in which no write can overtake an older    *)
(* one.  What an issue does is the same for every opcode: the instruction  *)
(* enters with its result and its address, and fetching goes on where the  *)
(* opcode says.                                                            *)

Result ==
  IF Fetched.op = "LOAD" THEN mem[EffAddr(Fetched, regs)]
  ELSE IF Fetched.op = "STORE" THEN regs[Fetched.rs2]
  ELSE AluValue(Fetched, regs[Fetched.rs1], regs[Fetched.rs2])

Address == IF IsMem(Fetched) THEN EffAddr(Fetched, regs) ELSE 0

NextPc ==
  IF IsBranch(Fetched) /\ Taken(Fetched, regs) THEN fetchPc + Fetched.imm
  ELSE fetchPc + 1

Executes ==
  /\ ~halted /\ Issuable
  /\ \E left : Enter(left, Result, Address)
  /\ fetchPc' = NextPc
  /\ UNCHANGED <<prog, regs, mem, halted>>

LEMMA ExecuteActions ==
  ASSUME \/ IssueHalt \/ IssueBranch
         \/ \E hit \in BOOLEAN : IssueLoad(hit) \/ IssueStore(hit)
         \/ \E setup \in BOOLEAN : IssueAlu(setup)
  PROVE  Executes
<1>1. CASE IssueHalt
  <2>1. Result = 0 /\ Address = 0 /\ NextPc = fetchPc + 1
    BY <1>1 DEF IssueHalt, Result, Address, NextPc, AluValue, IsMem, MemOps,
                IsBranch, BranchOps
  <2> QED  BY <1>1, <2>1 DEF IssueHalt, IssueSlot, Executes
<1>2. CASE IssueBranch
  <2>1. Result = 0 /\ Address = 0
    BY <1>2 DEF IssueBranch, Result, Address, AluValue, IsMem, MemOps,
                IsBranch, BranchOps
  <2>2. NextPc = IF Taken(Fetched, regs) THEN fetchPc + Fetched.imm ELSE fetchPc + 1
    BY <1>2 DEF IssueBranch, NextPc
  <2> QED  BY <1>2, <2>1, <2>2 DEF IssueBranch, IssueSlot, Executes
<1>3. ASSUME NEW hit \in BOOLEAN, IssueLoad(hit)
      PROVE  Executes
  <2>1. /\ Result = mem[EffAddr(Fetched, regs)] /\ Address = EffAddr(Fetched, regs)
        /\ NextPc = fetchPc + 1
    BY <1>3 DEF IssueLoad, Result, Address, NextPc, IsMem, MemOps, IsBranch, BranchOps
  <2> QED  BY <1>3, <2>1 DEF IssueLoad, IssueSlot, Executes
<1>4. ASSUME NEW hit \in BOOLEAN, IssueStore(hit)
      PROVE  Executes
  <2>1. /\ Result = regs[Fetched.rs2] /\ Address = EffAddr(Fetched, regs)
        /\ NextPc = fetchPc + 1
    BY <1>4 DEF IssueStore, Result, Address, NextPc, IsMem, MemOps, IsBranch, BranchOps
  <2> QED  BY <1>4, <2>1 DEF IssueStore, IssueSlot, Executes
<1>5. ASSUME NEW setup \in BOOLEAN, IssueAlu(setup)
      PROVE  Executes
  <2>1. Fetched.op \in ScalarOps \cup VectorOps
    BY <1>5 DEF IssueAlu
  <2>2. /\ Result = AluValue(Fetched, regs[Fetched.rs1], regs[Fetched.rs2])
        /\ Address = 0 /\ NextPc = fetchPc + 1
    BY <2>1 DEF Result, Address, NextPc, IsMem, MemOps, IsBranch, BranchOps,
                ScalarOps, VectorOps
  <2> QED  BY <1>5, <2>2 DEF IssueAlu, IssueSlot, Executes
<1> QED
  BY <1>1, <1>2, <1>3, <1>4, <1>5

LEMMA ExecuteKinds ==
  ASSUME [Next]_vars
  PROVE  Executes \/ Tick \/ Retire \/ Quiet
BY ExecuteActions, QuietActions, Zenon DEF Next

\* Without a branch backwards, what is in flight lies before the next fetch.
ProgramOrder ==
  /\ prog \in Programs
  /\ HasBackEdge(prog) \/ \A k \in 1 .. Len(inFlight) : inFlight[k].pc < fetchPc

\* Every destination in flight is pending, and is that of one operation only.
OneWriter ==
  /\ \A k \in 1 .. Len(inFlight) : Writes(InstrOf(inFlight[k])) \subseteq pending
  /\ \A j, k \in 1 .. Len(inFlight) :
       Writes(InstrOf(inFlight[j])) \cap Writes(InstrOf(inFlight[k])) # {} => j = k

Exact == ProgramOrder /\ OneWriter

LEMMA OrderInit == Init => Exact
<1> SUFFICES ASSUME Init PROVE Exact
  OBVIOUS
<1>1. Len(inFlight) = 0 /\ prog \in Programs
  BY DEF Init
<1> QED
  BY <1>1 DEF Exact, ProgramOrder, OneWriter

\* A branch that is taken forward, or not taken, only moves fetching on.
LEMMA FetchMovesOn ==
  ASSUME TypeOK, InProgram, ~HasBackEdge(prog)
  PROVE  NextPc > fetchPc
<1>1. Fetched \in Instr /\ fetchPc \in 0 .. Len(prog) - 1 /\ Len(prog) \in Nat
  BY FetchedType DEF TypeOK
<1>2. fetchPc + 1 \in 1 .. Len(prog) /\ Fetched = prog[fetchPc + 1]
  BY <1>1 DEF Fetched
<1>3. Fetched.imm \in Int
  BY <1>1 DEF Instr
<1>4. IsBranch(Fetched) => Fetched.imm > 0
  BY <1>2, <1>3 DEF HasBackEdge
<1> QED
  BY <1>1, <1>3, <1>4 DEF NextPc

\* No older operation in flight writes a register the fetched one writes: the
\* program rules it out, or one of two interlocks makes the younger one wait.
LEMMA NoOlderWriter ==
  ASSUME \A p \in Programs : NoOverlappingWrites(p),
         TypeOK, Exact, Issuable,
         NEW k \in 1 .. Len(inFlight)
  PROVE  Writes(InstrOf(inFlight[k])) \cap Writes(Fetched) = {}
<1> SUFFICES ASSUME Writes(InstrOf(inFlight[k])) \cap Writes(Fetched) # {}
             PROVE  FALSE
  OBVIOUS
<1> DEFINE old == inFlight[k].pc + 1
           new == fetchPc + 1
<1>1. InProgram /\ fetchPc \in 0 .. Len(prog) - 1 /\ Len(prog) \in Nat
  BY FetchedType DEF Issuable, TypeOK
<1>2. inFlight[k] \in InFlightOp /\ inFlight[k].pc < Len(prog)
  BY DEF TypeOK
<1>3. /\ old \in 1 .. Len(prog) /\ InstrOf(inFlight[k]) = prog[old]
      /\ new \in 1 .. Len(prog) /\ Fetched = prog[new]
  BY <1>1, <1>2 DEF InFlightOp, InstrOf, Fetched
<1>4. old < new \/ HasBackEdge(prog)
  BY <1>1, <1>2 DEF Exact, ProgramOrder, InFlightOp
<1> HIDE DEF old, new
<1>5. \/ Writes(Fetched) \subseteq Reads(Fetched)
      \/ IsMem(InstrOf(inFlight[k])) /\ IsMem(Fetched)
  BY <1>3, <1>4 DEF Exact, ProgramOrder, NoOverlappingWrites
<1>6. CASE Writes(Fetched) \subseteq Reads(Fetched)
  BY <1>6 DEF Exact, OneWriter, Issuable, SourcesReady
<1>7. CASE IsMem(InstrOf(inFlight[k])) /\ IsMem(Fetched)
  BY <1>7 DEF Issuable, MemoryFree, MemInFlight
<1> QED
  BY <1>5, <1>6, <1>7

LEMMA ExecuteKeepsExact ==
  ASSUME \A p \in Programs : NoOverlappingWrites(p),
         TypeOK, Exact, Executes
  PROVE  Exact'
<1>0. PICK n \in Nat : n = Len(inFlight)
  BY DEF TypeOK
<1>1. PICK left : Enter(left, Result, Address)
  BY DEF Executes
<1>2. prog' = prog /\ Issuable /\ fetchPc' = NextPc
  BY DEF Executes
<1>3. /\ Len(inFlight') = n + 1
      /\ \A k \in 1 .. n : inFlight'[k] = inFlight[k]
      /\ \A k \in 1 .. n : InstrOf(inFlight[k])' = InstrOf(inFlight[k])
      /\ pending' = pending \cup Writes(Fetched)
  BY <1>0, <1>1, <1>2, EnterFacts
<1>4. InstrOf(inFlight[n + 1])' = Fetched /\ inFlight'[n + 1].pc = fetchPc
  <2>1. /\ InstrOf(inFlight[n + 1])' = Fetched
        /\ inFlight'[n + 1] =
             [pc |-> fetchPc, left |-> left, val |-> Result, addr |-> Address]
    BY <1>0, <1>1, <1>2, EnterFacts
  <2> QED  BY <2>1
<1>5. ProgramOrder'
  <2>1. CASE HasBackEdge(prog)
    BY <1>2, <2>1 DEF Exact, ProgramOrder
  <2>2. CASE ~HasBackEdge(prog)
    <3>1. fetchPc' > fetchPc /\ fetchPc \in Int /\ fetchPc' \in Int
      <4>1. Fetched \in Instr /\ fetchPc \in Int
        BY <1>2, FetchedType DEF Issuable, TypeOK
      <4>2. NextPc \in Int
        BY <4>1 DEF NextPc, Instr
      <4> QED  BY <1>2, <2>2, <4>1, <4>2, FetchMovesOn DEF Issuable
    <3>2. \A k \in 1 .. n : inFlight[k].pc < fetchPc /\ inFlight[k].pc \in Nat
      <4>1. \A k \in 1 .. n : inFlight[k] \in InFlightOp
        BY <1>0 DEF TypeOK
      <4> QED  BY <1>0, <2>2, <4>1 DEF Exact, ProgramOrder, InFlightOp
    <3>3. \A k \in 1 .. n + 1 : inFlight'[k].pc < fetchPc'
      BY <1>3, <1>4, <3>1, <3>2
    <3> QED  BY <1>2, <1>3, <3>3 DEF Exact, ProgramOrder
  <2> QED  BY <2>1, <2>2
<1>6. OneWriter'
  <2>1. \A k \in 1 .. n + 1 : Writes(InstrOf(inFlight[k])') \subseteq pending'
    BY <1>0, <1>3, <1>4 DEF Exact, OneWriter
  <2>2. ASSUME NEW j \in 1 .. n + 1, NEW k \in 1 .. n + 1,
               Writes(InstrOf(inFlight[j])') \cap Writes(InstrOf(inFlight[k])') # {}
        PROVE  j = k
    <3>1. \A i \in 1 .. n : Writes(InstrOf(inFlight[i])) \cap Writes(Fetched) = {}
      BY <1>0, <1>2, NoOlderWriter
    <3>2. CASE j \in 1 .. n /\ k \in 1 .. n
      BY <1>0, <1>3, <2>2, <3>2 DEF Exact, OneWriter
    <3>3. CASE j = n + 1 /\ k \in 1 .. n
      BY <1>3, <1>4, <2>2, <3>1, <3>3
    <3>4. CASE j \in 1 .. n /\ k = n + 1
      BY <1>3, <1>4, <2>2, <3>1, <3>4
    <3> QED  BY <3>2, <3>3, <3>4
  <2> QED
    BY <1>3, <2>1, <2>2 DEF OneWriter
<1> QED
  BY <1>5, <1>6 DEF Exact

\* Where the operations that stay stood before one retired.
LEMMA RetireMoves ==
  ASSUME TypeOK, Retire, NEW n \in Nat, n = Len(inFlight)
  PROVE  \E old \in [1 .. n - 1 -> 1 .. n] :
           /\ \A k \in 1 .. n - 1 : /\ old[k] # cursor
                                    /\ inFlight'[k] = inFlight[old[k]]
                                    /\ InstrOf(inFlight[k])' = InstrOf(inFlight[old[k]])
           /\ \A j, k \in 1 .. n - 1 : old[j] = old[k] => j = k
           /\ \A k \in 1 .. n : k # cursor => \E j \in 1 .. n - 1 : old[j] = k
<1> DEFINE old == [k \in 1 .. n - 1 |-> IF k < cursor THEN k ELSE k + 1]
<1>1. cursor \in 1 .. n /\ Len(inFlight') = n - 1
  BY RetireFacts
<1>2. \A k \in 1 .. n - 1 :
        /\ old[k] \in 1 .. n /\ old[k] # cursor
        /\ \A j \in 1 .. n - 1 : old[j] = old[k] => j = k
  BY <1>1
<1>3. \A k \in 1 .. n - 1 : /\ inFlight'[k] = inFlight[old[k]]
                            /\ InstrOf(inFlight[k])' = InstrOf(inFlight[old[k]])
  BY <1>1, RetireFacts
<1>4. ASSUME NEW k \in 1 .. n, k # cursor
      PROVE  \E j \in 1 .. n - 1 : old[j] = k
  <2>1. CASE k < cursor
    <3>1. k \in 1 .. n - 1 /\ old[k] = k
      BY <1>1, <2>1
    <3> QED  BY <3>1
  <2>2. CASE k > cursor
    <3>1. k - 1 \in 1 .. n - 1 /\ old[k - 1] = k
      BY <1>1, <2>2
    <3> QED  BY <3>1
  <2> QED
    BY <1>1, <1>4, <2>1, <2>2
<1>5. old \in [1 .. n - 1 -> 1 .. n]
  BY <1>2
<1> HIDE DEF old
<1>6. \A j, k \in 1 .. n - 1 : old[j] = old[k] => j = k
  BY <1>2
<1> WITNESS old \in [1 .. n - 1 -> 1 .. n]
<1> QED
  BY <1>2, <1>3, <1>4, <1>6

LEMMA RetireKeepsExact ==
  ASSUME TypeOK, Exact, Retire
  PROVE  Exact'
<1>0. PICK n \in Nat : n = Len(inFlight)
  BY DEF TypeOK
<1>1. /\ cursor \in 1 .. n /\ Len(inFlight') = n - 1
      /\ pending' = pending \ Writes(InstrOf(inFlight[cursor]))
      /\ prog' = prog /\ fetchPc' = fetchPc
  BY <1>0, RetireFacts
<1>2. PICK old \in [1 .. n - 1 -> 1 .. n] :
        /\ \A k \in 1 .. n - 1 : /\ old[k] # cursor
                                 /\ inFlight'[k] = inFlight[old[k]]
                                 /\ InstrOf(inFlight[k])' = InstrOf(inFlight[old[k]])
        /\ \A j, k \in 1 .. n - 1 : old[j] = old[k] => j = k
        /\ \A k \in 1 .. n : k # cursor => \E j \in 1 .. n - 1 : old[j] = k
  BY <1>0, RetireMoves
<1>3. ProgramOrder'
  <2>1. CASE HasBackEdge(prog)
    BY <1>1, <2>1 DEF Exact, ProgramOrder
  <2>2. CASE ~HasBackEdge(prog)
    <3>1. \A k \in 1 .. n : inFlight[k].pc < fetchPc
      BY <1>0, <2>2 DEF Exact, ProgramOrder
    <3>2. \A k \in 1 .. n - 1 : old[k] \in 1 .. n /\ inFlight'[k] = inFlight[old[k]]
      BY <1>2
    <3>3. \A k \in 1 .. n - 1 : inFlight'[k].pc < fetchPc'
      BY <1>1, <3>1, <3>2
    <3> QED  BY <1>1, <3>3 DEF Exact, ProgramOrder
  <2> QED  BY <2>1, <2>2
<1>4. \A k \in 1 .. n - 1 : Writes(InstrOf(inFlight[k])') \subseteq pending'
  BY <1>0, <1>1, <1>2 DEF Exact, OneWriter
<1>5. \A j, k \in 1 .. n - 1 :
        Writes(InstrOf(inFlight[j])') \cap Writes(InstrOf(inFlight[k])') # {} => j = k
  <2> SUFFICES ASSUME NEW j \in 1 .. n - 1, NEW k \in 1 .. n - 1,
                      Writes(InstrOf(inFlight[j])') \cap Writes(InstrOf(inFlight[k])') # {}
               PROVE  j = k
    OBVIOUS
  <2>1. old[j] \in 1 .. n /\ old[k] \in 1 .. n
    OBVIOUS
  <2>2. Writes(InstrOf(inFlight[old[j]])) \cap Writes(InstrOf(inFlight[old[k]])) # {}
    BY <1>2
  <2>3. old[j] = old[k]
    BY <1>0, <2>1, <2>2 DEF Exact, OneWriter
  <2> QED  BY <1>2, <2>3
<1> QED
  BY <1>1, <1>3, <1>4, <1>5 DEF Exact, OneWriter

LEMMA ExactStep ==
  ASSUME \A p \in Programs : NoOverlappingWrites(p),
         TypeOK, Exact, [Next]_vars
  PROVE  Exact'
<1>1. CASE Tick
  BY <1>1, TickFacts DEF Exact, ProgramOrder, OneWriter
<1>2. CASE Quiet
  BY <1>2 DEF Quiet, Exact, ProgramOrder, OneWriter, InstrOf
<1> QED
  BY <1>1, <1>2, ExecuteKinds, ExecuteKeepsExact, RetireKeepsExact

LEMMA ExactInvariance ==
  ASSUME \A p \in Programs : NoOverlappingWrites(p)
  PROVE  Spec => []Exact
<1>1. Init => Exact
  BY OrderInit
<1>2. TypeOK /\ Exact /\ [Next]_vars => Exact'
  BY ExactStep
<1> QED
  BY <1>1, <1>2, TypeCorrect, PTL DEF Spec

\* Operations complete out of order and a retiring one releases its register
\* whoever else writes it.  Where the program lets no write overtake an older
\* one, the set the RAW check reads is nevertheless exact: a register is pending
\* if and only if a writer of it is in flight, and then just one is.
THEOREM ScoreboardIsExact ==
  ASSUME \A p \in Programs : NoOverlappingWrites(p)
  PROVE  Spec => []ScoreboardExact
<1>1. TypeOK /\ Interlocks /\ Exact => ScoreboardExact
  BY DEF Interlocks, NoPhantomPending, Exact, OneWriter, ScoreboardExact, Writers
<1> QED
  BY <1>1, TypeCorrect, OrderKept, ExactInvariance, PTL

-----------------------------------------------------------------------------
(* Refinement: the architectural registers and memory are those of the     *)
(* sequential machine.                                                     *)

\* HALT ends the program, as in every program of programs.py ("strip
\* intermediate HALTs", :69): an instruction behind a HALT could still issue
\* in its cycle.
HaltIsLast(p) == \A k \in 1 .. Len(p) : p[k].op = "HALT" => k = Len(p)

\* Behind a HALT there is nothing to fetch.
HaltEnds == HaltInFlight => fetchPc = Len(prog)

LEMMA HaltEndsStep ==
  ASSUME \A p \in Programs : HaltIsLast(p),
         TypeOK, Exact, HaltEnds, [Next]_vars
  PROVE  HaltEnds'
<1>0. PICK n \in Nat : n = Len(inFlight)
  BY DEF TypeOK
<1>1. CASE Executes
  <2>1. PICK left : Enter(left, Result, Address)
    BY <1>1 DEF Executes
  <2>2. prog' = prog /\ Issuable /\ fetchPc' = NextPc
    BY <1>1 DEF Executes
  <2>3. /\ Len(inFlight') = n + 1
        /\ \A k \in 1 .. n : InstrOf(inFlight[k])' = InstrOf(inFlight[k])
        /\ InstrOf(inFlight[n + 1])' = Fetched
    BY <1>0, <2>1, <2>2, EnterFacts
  <2>4. InProgram /\ Fetched \in Instr /\ fetchPc \in 0 .. Len(prog) - 1 /\ Len(prog) \in Nat
    BY <2>2, FetchedType DEF Issuable, TypeOK
  <2>5. ~HaltInFlight
    BY <2>4 DEF HaltEnds
  <2>6. Fetched.op = "HALT" => fetchPc' = Len(prog)
    <3> SUFFICES ASSUME Fetched.op = "HALT" PROVE fetchPc' = Len(prog)
      OBVIOUS
    <3>1. fetchPc + 1 \in 1 .. Len(prog) /\ Fetched = prog[fetchPc + 1]
      BY <2>4 DEF Fetched
    <3>2. fetchPc + 1 = Len(prog)
      BY <3>1 DEF HaltIsLast, Exact, ProgramOrder
    <3>3. NextPc = fetchPc + 1
      BY DEF NextPc, IsBranch, BranchOps
    <3> QED  BY <2>2, <3>2, <3>3
  <2> SUFFICES ASSUME NEW k \in 1 .. n + 1, InstrOf(inFlight[k])'.op = "HALT"
               PROVE  fetchPc' = Len(prog)
    BY <2>2, <2>3 DEF HaltEnds, HaltInFlight
  <2>7. CASE k \in 1 .. n
    BY <1>0, <2>3, <2>5, <2>7 DEF HaltInFlight
  <2>8. CASE k = n + 1
    BY <2>3, <2>6, <2>8
  <2> QED  BY <2>7, <2>8
<1>2. CASE Tick
  BY <1>2, TickFacts DEF HaltEnds, HaltInFlight
<1>3. CASE Retire
  <2>1. /\ Len(inFlight') = n - 1 /\ prog' = prog /\ fetchPc' = fetchPc
    BY <1>0, <1>3, RetireFacts
  <2>2. PICK old \in [1 .. n - 1 -> 1 .. n] :
          \A k \in 1 .. n - 1 : InstrOf(inFlight[k])' = InstrOf(inFlight[old[k]])
    BY <1>0, <1>3, RetireMoves
  <2>3. \A k \in 1 .. n - 1 : old[k] \in 1 .. n
    BY <2>2
  <2> QED
    BY <1>0, <2>1, <2>2, <2>3 DEF HaltEnds, HaltInFlight
<1>4. CASE Quiet
  BY <1>4 DEF Quiet, HaltEnds, HaltInFlight, InstrOf
<1> QED
  BY <1>1, <1>2, <1>3, <1>4, ExecuteKinds

\* The one writer of a register in flight tells its value, and so does the one
\* store in flight; everything else is committed.
Overlaid ==
  /\ \A r \in Reg, k \in 1 .. Len(inFlight) :
       r \in Writes(InstrOf(inFlight[k])) => ArchRegs[r] = inFlight[k].val
  /\ \A r \in Reg :
       (\A k \in 1 .. Len(inFlight) : r \notin Writes(InstrOf(inFlight[k])))
         => ArchRegs[r] = regs[r]
  /\ \A k \in 1 .. Len(inFlight) :
       InstrOf(inFlight[k]).op = "STORE"
         => ArchMem = [mem EXCEPT ![inFlight[k].addr] = inFlight[k].val]
  /\ (\A k \in 1 .. Len(inFlight) : InstrOf(inFlight[k]).op # "STORE")
         => ArchMem = mem

LEMMA MaxOfOne ==
  ASSUME NEW S, NEW k \in Nat, S = {k}
  PROVE  Max(S) = k
BY DEF Max

LEMMA OverlaidFacts == TypeOK /\ Interlocks /\ Exact => Overlaid
<1> SUFFICES ASSUME TypeOK, Interlocks, Exact PROVE Overlaid
  OBVIOUS
<1>1. ASSUME NEW r \in Reg, NEW k \in 1 .. Len(inFlight),
             r \in Writes(InstrOf(inFlight[k]))
      PROVE  ArchRegs[r] = inFlight[k].val
  <2>1. Writers(r) = {k}
    BY <1>1 DEF Writers, Exact, OneWriter
  <2>2. Max(Writers(r)) = k
    BY <2>1, MaxOfOne
  <2> QED  BY <2>1, <2>2 DEF ArchRegs
<1>2. ASSUME NEW r \in Reg,
             \A k \in 1 .. Len(inFlight) : r \notin Writes(InstrOf(inFlight[k]))
      PROVE  ArchRegs[r] = regs[r]
  BY <1>2 DEF ArchRegs, Writers
<1>3. ASSUME NEW k \in 1 .. Len(inFlight), InstrOf(inFlight[k]).op = "STORE"
      PROVE  ArchMem = [mem EXCEPT ![inFlight[k].addr] = inFlight[k].val]
  <2>1. \A j \in 1 .. Len(inFlight) : InstrOf(inFlight[j]).op = "STORE" => j = k
    BY <1>3 DEF Interlocks, MemorySerialized, IsMem, MemOps
  <2>2. \A a \in Addr : StoresTo(a) = IF a = inFlight[k].addr THEN {k} ELSE {}
    BY <1>3, <2>1 DEF StoresTo
  <2>3. \A a \in Addr :
          ArchMem[a] = IF a = inFlight[k].addr THEN inFlight[k].val ELSE mem[a]
    BY <2>2, MaxOfOne DEF ArchMem
  <2>4. mem \in [Addr -> Int]
    BY DEF TypeOK
  <2> QED  BY <2>3, <2>4 DEF ArchMem
<1>4. ASSUME \A k \in 1 .. Len(inFlight) : InstrOf(inFlight[k]).op # "STORE"
      PROVE  ArchMem = mem
  <2>1. \A a \in Addr : StoresTo(a) = {}
    BY <1>4 DEF StoresTo
  <2>2. mem \in [Addr -> Int]
    BY DEF TypeOK
  <2> QED  BY <2>1, <2>2 DEF ArchMem
<1> QED
  BY <1>1, <1>2, <1>3, <1>4 DEF Overlaid

LEMMA OverlaidNext == TypeOK' /\ Interlocks' /\ Exact' => Overlaid'
BY OverlaidFacts, PTL

\* What an instruction reads when it issues is architectural.
LEMMA SourcesAreArchitectural ==
  ASSUME TypeOK, Interlocks, Exact, Issuable
  PROVE  /\ \A r \in Reg : r \in Reads(Fetched) => ArchRegs[r] = regs[r]
         /\ IsMem(Fetched) => ArchMem = mem
<1>1. \A r \in Reg : r \in Reads(Fetched) =>
        \A k \in 1 .. Len(inFlight) : r \notin Writes(InstrOf(inFlight[k]))
  BY DEF Issuable, SourcesReady, Exact, OneWriter
<1>2. IsMem(Fetched) => \A k \in 1 .. Len(inFlight) : InstrOf(inFlight[k]).op # "STORE"
  BY DEF Issuable, MemoryFree, MemInFlight, IsMem, MemOps
<1> QED
  BY <1>1, <1>2, OverlaidFacts DEF Overlaid

\* Nothing an opcode computes depends on a register it does not read.
LEMMA ReadsDecide ==
  ASSUME NEW i \in Instr, NEW f, NEW g,
         \A r \in Reg : r \in Reads(i) => f[r] = g[r]
  PROVE  /\ AluValue(i, f[i.rs1], f[i.rs2]) = AluValue(i, g[i.rs1], g[i.rs2])
         /\ IsBranch(i) => Taken(i, f) = Taken(i, g)
         /\ IsMem(i) => EffAddr(i, f) = EffAddr(i, g)
         /\ i.op = "STORE" => f[i.rs2] = g[i.rs2]
<1>0. i.rs1 \in Reg /\ i.rs2 \in Reg /\ i.op \in Ops
  BY DEF Instr
<1>1. CASE i.op \in {"ADD", "SUB", "MUL", "DIV", "VADD", "VMUL", "BEQ", "BNE", "STORE"}
  <2>1. Reads(i) = {i.rs1, i.rs2}
    BY <1>1 DEF Reads
  <2>2. f[i.rs1] = g[i.rs1] /\ f[i.rs2] = g[i.rs2]
    BY <1>0, <2>1
  <2> QED  BY <1>1, <2>2 DEF Taken, EffAddr, IsBranch, BranchOps
<1>2. CASE i.op \in {"ADDI", "MOV", "LOAD"}
  <2>1. Reads(i) = {i.rs1}
    BY <1>2 DEF Reads
  <2>2. f[i.rs1] = g[i.rs1]
    BY <1>0, <2>1
  <2> QED  BY <1>2, <2>2 DEF AluValue, EffAddr, IsBranch, BranchOps
<1>3. CASE i.op \in {"NOP", "JUMP", "HALT"}
  BY <1>3 DEF AluValue, Taken, IsBranch, BranchOps, IsMem, MemOps
<1> QED
  BY <1>0, <1>1, <1>2, <1>3
     DEF Ops, ScalarOps, VectorOps, BranchOps, MemOps

\* To issue is to execute: one step of the sequential machine.
LEMMA ExecuteImplements ==
  ASSUME TypeOK, Interlocks, Exact, HaltEnds, Overlaid, Overlaid', Executes
  PROVE  Seq_!Execute
<1>0. PICK n \in Nat : n = Len(inFlight)
  BY DEF TypeOK
<1>1. PICK left : Enter(left, Result, Address)
  BY DEF Executes
<1>2. /\ Issuable /\ fetchPc' = NextPc /\ ~halted
      /\ prog' = prog /\ regs' = regs /\ mem' = mem /\ halted' = halted
  BY DEF Executes
<1>3. /\ Len(inFlight') = n + 1
      /\ \A k \in 1 .. n : inFlight'[k] = inFlight[k]
      /\ \A k \in 1 .. n : InstrOf(inFlight[k])' = InstrOf(inFlight[k])
      /\ InstrOf(inFlight[n + 1])' = Fetched
  BY <1>0, <1>1, <1>2, EnterFacts
<1>4. inFlight'[n + 1].val = Result /\ inFlight'[n + 1].addr = Address
  <2>1. inFlight'[n + 1] =
          [pc |-> fetchPc, left |-> left, val |-> Result, addr |-> Address]
    BY <1>0, <1>1, <1>2, EnterFacts
  <2> QED  BY <2>1
<1>5. /\ InProgram /\ Fetched \in Instr /\ fetchPc \in 0 .. Len(prog) - 1
      /\ Len(prog) \in Nat
  BY <1>2, FetchedType DEF Issuable, TypeOK
<1>6. ~HaltInFlight
  BY <1>5 DEF HaltEnds
<1>7. /\ \A r \in Reg : r \in Reads(Fetched) => ArchRegs[r] = regs[r]
      /\ IsMem(Fetched) => ArchMem = mem
  BY <1>2, SourcesAreArchitectural
<1>8. /\ AluValue(Fetched, ArchRegs[Fetched.rs1], ArchRegs[Fetched.rs2])
           = AluValue(Fetched, regs[Fetched.rs1], regs[Fetched.rs2])
      /\ IsBranch(Fetched) => Taken(Fetched, ArchRegs) = Taken(Fetched, regs)
      /\ IsMem(Fetched) => EffAddr(Fetched, ArchRegs) = EffAddr(Fetched, regs)
      /\ Fetched.op = "STORE" => ArchRegs[Fetched.rs2] = regs[Fetched.rs2]
  BY <1>5, <1>7, ReadsDecide
<1> DEFINE value == IF Fetched.op = "LOAD" THEN ArchMem[EffAddr(Fetched, ArchRegs)]
                    ELSE AluValue(Fetched, ArchRegs[Fetched.rs1], ArchRegs[Fetched.rs2])
<1>9. Fetched.op # "STORE" => value = Result
  BY <1>7, <1>8 DEF Result, IsMem, MemOps
<1> HIDE DEF value
<1>10. ArchRegs' = WriteBack(ArchRegs, Fetched, value)
  <2>1. ASSUME NEW r \in Reg
        PROVE  ArchRegs'[r] = IF r \in Writes(Fetched) THEN value ELSE ArchRegs[r]
    <3>1. CASE r \in Writes(Fetched)
      <4>1. Fetched.op # "STORE"
        BY <3>1 DEF Writes
      <4>2. n + 1 \in 1 .. Len(inFlight')
        BY <1>3
      <4>3. ArchRegs'[r] = inFlight'[n + 1].val
        BY <1>3, <3>1, <4>2 DEF Overlaid
      <4> QED  BY <1>4, <1>9, <3>1, <4>1, <4>3
    <3>2. ASSUME r \notin Writes(Fetched), NEW k \in 1 .. n, r \in Writes(InstrOf(inFlight[k]))
          PROVE  ArchRegs'[r] = ArchRegs[r]
      <4>1. ArchRegs[r] = inFlight[k].val
        BY <1>0, <3>2 DEF Overlaid
      <4>2. k \in 1 .. Len(inFlight') /\ r \in Writes(InstrOf(inFlight[k])')
        BY <1>3, <3>2
      <4>3. ArchRegs'[r] = inFlight'[k].val
        BY <4>2 DEF Overlaid
      <4> QED  BY <1>3, <4>1, <4>3
    <3>3. ASSUME r \notin Writes(Fetched), \A k \in 1 .. n : r \notin Writes(InstrOf(inFlight[k]))
          PROVE  ArchRegs'[r] = ArchRegs[r]
      <4>1. ArchRegs[r] = regs[r]
        BY <1>0, <3>3 DEF Overlaid
      <4>2. \A k \in 1 .. n + 1 : r \notin Writes(InstrOf(inFlight[k])')
        BY <1>3, <3>3
      <4>3. ArchRegs'[r] = regs'[r]
        BY <1>3, <4>2 DEF Overlaid
      <4> QED  BY <1>2, <4>1, <4>3
    <3> QED  BY <3>1, <3>2, <3>3
  <2> QED  BY <2>1 DEF WriteBack, ArchRegs
<1>11. ArchMem' = IF Fetched.op = "STORE"
                  THEN [ArchMem EXCEPT ![EffAddr(Fetched, ArchRegs)] = ArchRegs[Fetched.rs2]]
                  ELSE ArchMem
  <2>1. CASE Fetched.op = "STORE"
    <3>1. IsMem(Fetched) /\ n + 1 \in 1 .. Len(inFlight')
      BY <1>3, <2>1 DEF IsMem, MemOps
    <3>2. ArchMem' = [mem' EXCEPT ![inFlight'[n + 1].addr] = inFlight'[n + 1].val]
      BY <1>3, <2>1, <3>1 DEF Overlaid
    <3>3. Result = regs[Fetched.rs2] /\ Address = EffAddr(Fetched, regs)
      BY <2>1, <3>1 DEF Result, Address
    <3> QED  BY <1>2, <1>4, <1>7, <1>8, <2>1, <3>1, <3>2, <3>3
  <2>2. ASSUME Fetched.op # "STORE", NEW k \in 1 .. n, InstrOf(inFlight[k]).op = "STORE"
        PROVE  ArchMem' = ArchMem
    <3>1. ArchMem = [mem EXCEPT ![inFlight[k].addr] = inFlight[k].val]
      BY <1>0, <2>2 DEF Overlaid
    <3>2. k \in 1 .. Len(inFlight') /\ InstrOf(inFlight[k])'.op = "STORE"
      BY <1>3, <2>2
    <3>3. ArchMem' = [mem' EXCEPT ![inFlight'[k].addr] = inFlight'[k].val]
      BY <3>2 DEF Overlaid
    <3> QED  BY <1>2, <1>3, <3>1, <3>3
  <2>3. ASSUME Fetched.op # "STORE", \A k \in 1 .. n : InstrOf(inFlight[k]).op # "STORE"
        PROVE  ArchMem' = ArchMem
    <3>1. ArchMem = mem
      BY <1>0, <2>3 DEF Overlaid
    <3>2. \A k \in 1 .. n + 1 : InstrOf(inFlight[k])'.op # "STORE"
      BY <1>3, <2>3
    <3>3. ArchMem' = mem'
      BY <1>3, <3>2 DEF Overlaid
    <3> QED  BY <1>2, <3>1, <3>3
  <2> QED  BY <2>1, <2>2, <2>3
<1>12. (halted \/ HaltInFlight)' = (Fetched.op = "HALT")
  <2>1. HaltInFlight' <=> Fetched.op = "HALT"
    <3>1. HaltInFlight' <=> \E k \in 1 .. n + 1 : InstrOf(inFlight[k])'.op = "HALT"
      BY <1>3 DEF HaltInFlight
    <3>2. \A k \in 1 .. n : InstrOf(inFlight[k])'.op # "HALT"
      BY <1>0, <1>3, <1>6 DEF HaltInFlight
    <3> QED  BY <1>3, <3>1, <3>2
  <2> QED  BY <1>2, <2>1
<1>13. fetchPc' = IF IsBranch(Fetched) /\ Taken(Fetched, ArchRegs)
                  THEN fetchPc + Fetched.imm ELSE fetchPc + 1
  BY <1>2, <1>8 DEF NextPc
<1> QED
  BY <1>2, <1>5, <1>6, <1>10, <1>11, <1>12, <1>13
  DEF Seq_!Execute, Seq_!InProgram, Seq_!IsBranch, Seq_!BranchOps, Seq_!Taken,
      Seq_!EffAddr, Seq_!WriteBack, Seq_!Writes, Seq_!Reg, Seq_!AluValue,
      Seq_!FloorDiv, Fetched, IsBranch, BranchOps, Taken, EffAddr, WriteBack,
      Writes, Reg, AluValue, FloorDiv, value

\* To count down, or to be written back, changes nothing architectural: what
\* was the value in flight is now the value committed.
LEMMA TickImplements ==
  ASSUME TypeOK, Tick, Overlaid, Overlaid'
  PROVE  UNCHANGED Seq_!vars
<1>1. /\ Len(inFlight') = Len(inFlight)
      /\ \A k \in 1 .. Len(inFlight) :
           /\ inFlight'[k].val = inFlight[k].val
           /\ inFlight'[k].addr = inFlight[k].addr
           /\ InstrOf(inFlight[k])' = InstrOf(inFlight[k])
      /\ UNCHANGED <<prog, regs, mem, fetchPc, halted>>
  BY TickFacts
<1>2. \A r \in Reg : ArchRegs'[r] = ArchRegs[r]
  BY <1>1 DEF Overlaid
<1>3. ArchMem' = ArchMem
  BY <1>1 DEF Overlaid
<1>4. ArchRegs' = ArchRegs
  BY <1>2 DEF ArchRegs
<1>5. (halted \/ HaltInFlight)' = (halted \/ HaltInFlight)
  BY <1>1 DEF HaltInFlight
<1> QED
  BY <1>1, <1>3, <1>4, <1>5 DEF Seq_!vars

LEMMA RetireImplements ==
  ASSUME TypeOK, Interlocks, Exact, Retire, Overlaid, Overlaid'
  PROVE  UNCHANGED Seq_!vars
<1>0. PICK n \in Nat : n = Len(inFlight)
  BY DEF TypeOK
<1> DEFINE op == inFlight[cursor]
           i  == InstrOf(op)
<1>1. /\ cursor \in 1 .. n /\ Len(inFlight') = n - 1
      /\ prog' = prog /\ fetchPc' = fetchPc
  BY <1>0, RetireFacts
<1>2. PICK old \in [1 .. n - 1 -> 1 .. n] :
        /\ \A k \in 1 .. n - 1 : /\ old[k] # cursor
                                 /\ inFlight'[k] = inFlight[old[k]]
                                 /\ InstrOf(inFlight[k])' = InstrOf(inFlight[old[k]])
        /\ \A k \in 1 .. n : k # cursor => \E j \in 1 .. n - 1 : old[j] = k
  BY <1>0, RetireMoves
<1>3. /\ halted' = (halted \/ i.op = "HALT")
      /\ regs' = WriteBack(regs, i, op.val)
      /\ mem' = IF i.op = "STORE" THEN [mem EXCEPT ![op.addr] = op.val] ELSE mem
  BY DEF Retire
<1> HIDE DEF op
<1>4. \A k \in 1 .. n - 1 : old[k] \in 1 .. n
  BY <1>2
<1>5. ASSUME NEW r \in Reg PROVE ArchRegs'[r] = ArchRegs[r]
  <2>1. CASE r \in Writes(i)
    <3>1. ArchRegs[r] = op.val
      BY <1>0, <1>1, <2>1 DEF Overlaid, op
    <3>2. \A k \in 1 .. n : k # cursor => r \notin Writes(InstrOf(inFlight[k]))
      BY <1>0, <1>1, <2>1 DEF Exact, OneWriter, op
    <3>3. \A k \in 1 .. n - 1 : r \notin Writes(InstrOf(inFlight[k])')
      BY <1>2, <1>4, <3>2
    <3>4. ArchRegs'[r] = regs'[r]
      BY <1>1, <3>3 DEF Overlaid
    <3> QED  BY <1>3, <2>1, <3>1, <3>4 DEF WriteBack
  <2>2. ASSUME r \notin Writes(i), NEW k \in 1 .. n, r \in Writes(InstrOf(inFlight[k]))
        PROVE  ArchRegs'[r] = ArchRegs[r]
    <3>1. k # cursor
      BY <2>2 DEF op
    <3>2. PICK j \in 1 .. n - 1 : old[j] = k
      BY <1>2, <3>1
    <3>3. ArchRegs[r] = inFlight[k].val
      BY <1>0, <2>2 DEF Overlaid
    <3>4. /\ j \in 1 .. Len(inFlight') /\ inFlight'[j] = inFlight[k]
          /\ r \in Writes(InstrOf(inFlight[j])')
      BY <1>1, <1>2, <2>2, <3>2
    <3>5. ArchRegs'[r] = inFlight'[j].val
      BY <3>4 DEF Overlaid
    <3> QED  BY <3>3, <3>4, <3>5
  <2>3. ASSUME r \notin Writes(i), \A k \in 1 .. n : r \notin Writes(InstrOf(inFlight[k]))
        PROVE  ArchRegs'[r] = ArchRegs[r]
    <3>1. ArchRegs[r] = regs[r]
      BY <1>0, <2>3 DEF Overlaid
    <3>2. \A k \in 1 .. n - 1 : r \notin Writes(InstrOf(inFlight[k])')
      BY <1>2, <1>4, <2>3
    <3>3. ArchRegs'[r] = regs'[r]
      BY <1>1, <3>2 DEF Overlaid
    <3> QED  BY <1>3, <2>3, <3>1, <3>3 DEF WriteBack
  <2> QED  BY <2>1, <2>2, <2>3
<1>6. ArchRegs' = ArchRegs
  BY <1>5 DEF ArchRegs
<1>7. ArchMem' = ArchMem
  <2>1. CASE i.op = "STORE"
    <3>1. ArchMem = [mem EXCEPT ![op.addr] = op.val]
      BY <1>0, <1>1, <2>1 DEF Overlaid, op
    <3>2. \A k \in 1 .. n : k # cursor => InstrOf(inFlight[k]).op # "STORE"
      BY <1>0, <1>1, <2>1 DEF Interlocks, MemorySerialized, IsMem, MemOps, op
    <3>3. \A k \in 1 .. n - 1 : InstrOf(inFlight[k])'.op # "STORE"
      BY <1>2, <1>4, <3>2
    <3>4. ArchMem' = mem'
      BY <1>1, <3>3 DEF Overlaid
    <3> QED  BY <1>3, <2>1, <3>1, <3>4
  <2>2. ASSUME i.op # "STORE", NEW k \in 1 .. n, InstrOf(inFlight[k]).op = "STORE"
        PROVE  ArchMem' = ArchMem
    <3>1. k # cursor
      BY <2>2 DEF op
    <3>2. PICK j \in 1 .. n - 1 : old[j] = k
      BY <1>2, <3>1
    <3>3. ArchMem = [mem EXCEPT ![inFlight[k].addr] = inFlight[k].val]
      BY <1>0, <2>2 DEF Overlaid
    <3>4. /\ j \in 1 .. Len(inFlight') /\ inFlight'[j] = inFlight[k]
          /\ InstrOf(inFlight[j])'.op = "STORE"
      BY <1>1, <1>2, <2>2, <3>2
    <3>5. ArchMem' = [mem' EXCEPT ![inFlight'[j].addr] = inFlight'[j].val]
      BY <3>4 DEF Overlaid
    <3> QED  BY <1>3, <2>2, <3>3, <3>4, <3>5
  <2>3. ASSUME i.op # "STORE", \A k \in 1 .. n : InstrOf(inFlight[k]).op # "STORE"
        PROVE  ArchMem' = ArchMem
    <3>1. ArchMem = mem
      BY <1>0, <2>3 DEF Overlaid
    <3>2. \A k \in 1 .. n - 1 : InstrOf(inFlight[k])'.op # "STORE"
      BY <1>2, <1>4, <2>3
    <3>3. ArchMem' = mem'
      BY <1>1, <3>2 DEF Overlaid
    <3> QED  BY <1>3, <2>3, <3>1, <3>3
  <2> QED  BY <2>1, <2>2, <2>3
<1>8. (halted \/ HaltInFlight)' = (halted \/ HaltInFlight)
  <2>1. HaltInFlight' => HaltInFlight
    BY <1>0, <1>1, <1>2, <1>4 DEF HaltInFlight
  <2>2. HaltInFlight => HaltInFlight' \/ i.op = "HALT"
    <3> SUFFICES ASSUME NEW k \in 1 .. n, InstrOf(inFlight[k]).op = "HALT", i.op # "HALT"
                 PROVE  HaltInFlight'
      BY <1>0 DEF HaltInFlight
    <3>1. k # cursor
      BY DEF op
    <3>2. PICK j \in 1 .. n - 1 : old[j] = k
      BY <1>2, <3>1
    <3> QED  BY <1>1, <1>2, <3>2 DEF HaltInFlight
  <2>3. i.op = "HALT" => HaltInFlight
    BY <1>0, <1>1 DEF HaltInFlight, op
  <2>4. halted \in BOOLEAN /\ HaltInFlight \in BOOLEAN /\ HaltInFlight' \in BOOLEAN
        /\ halted' \in BOOLEAN
    BY <1>3 DEF TypeOK, HaltInFlight
  <2> QED  BY <1>3, <2>1, <2>2, <2>3, <2>4
<1> QED
  BY <1>1, <1>6, <1>7, <1>8 DEF Seq_!vars

\* Fetching beyond the program stops both machines, unless a HALT already has.
LEMMA LeavingImplements ==
  ASSUME TypeOK, EndOfProgram \/ IssuePastEnd
  PROVE  Seq_!LeaveProgram \/ UNCHANGED Seq_!vars
<1>1. /\ UNCHANGED <<prog, regs, mem, fetchPc, inFlight>>
      /\ ~halted /\ halted' /\ ~InProgram
  <2>1. CASE EndOfProgram
    BY <2>1 DEF EndOfProgram, PastEnd, InProgram, TypeOK
  <2>2. CASE IssuePastEnd
    BY <2>2 DEF IssuePastEnd, IssueSlot
  <2> QED  BY <2>1, <2>2
<1>2. /\ ArchRegs' = ArchRegs /\ ArchMem' = ArchMem /\ HaltInFlight' = HaltInFlight
  BY <1>1 DEF ArchRegs, ArchMem, HaltInFlight, Writers, StoresTo, InstrOf
<1>3. fetchPc \notin 0 .. Len(prog) - 1
  BY <1>1 DEF InProgram, TypeOK
<1>4. CASE HaltInFlight
  <2>1. (halted \/ HaltInFlight)' = (halted \/ HaltInFlight)
    BY <1>2, <1>4
  <2> QED  BY <1>1, <1>2, <2>1 DEF Seq_!vars
<1>5. CASE ~HaltInFlight
  <2>1. ~(halted \/ HaltInFlight) /\ (halted \/ HaltInFlight)' = TRUE
    BY <1>1, <1>5
  <2> QED  BY <1>1, <1>2, <1>3, <2>1 DEF Seq_!LeaveProgram, Seq_!InProgram
<1> QED  BY <1>4, <1>5

LEMMA SequentialStep ==
  ASSUME TypeOK, Interlocks, Exact, HaltEnds, Overlaid, Overlaid', [Next]_vars
  PROVE  [Seq_!Next]_(Seq_!vars)
<1>1. CASE Executes
  BY <1>1, ExecuteImplements DEF Seq_!Next
<1>2. CASE Tick
  BY <1>2, TickImplements
<1>3. CASE Retire
  BY <1>3, RetireImplements
<1>4. CASE EndOfProgram \/ IssuePastEnd
  BY <1>4, LeavingImplements DEF Seq_!Next
<1>5. CASE Quiet /\ halted' = halted
  <2>1. ArchRegs' = ArchRegs /\ ArchMem' = ArchMem /\ HaltInFlight' = HaltInFlight
    BY <1>5 DEF Quiet, ArchRegs, ArchMem, HaltInFlight, Writers, StoresTo, InstrOf
  <2> QED  BY <1>5, <2>1 DEF Quiet, Seq_!vars
<1>6. \/ Stop \/ EndIssue \/ EndCycle
      \/ \E b \in Bundles, h \in {"exhausted", "low", "ample"} : StartCycle(b, h)
      \/ UNCHANGED vars
      => Quiet /\ halted' = halted
  BY DEF Stop, EndIssue, EndCycle, StartCycle, vars, cpuVars, Quiet
<1> QED
  BY <1>1, <1>2, <1>3, <1>4, <1>5, <1>6, ExecuteActions, Zenon DEF Next

LEMMA SequentialInit == Init => Seq_!Init
<1> SUFFICES ASSUME Init PROVE Seq_!Init
  OBVIOUS
<1>1. /\ Len(inFlight) = 0 /\ prog \in Programs /\ fetchPc = 0 /\ halted = FALSE
  BY DEF Init
<1>2. PICK s \in InitStates : regs = s.regs /\ mem = s.mem
  BY DEF Init
<1>3. regs \in [Reg -> Int] /\ mem \in [Addr -> Int]
  BY <1>2, InitStatesAssumption
<1>4. ArchRegs = regs /\ ArchMem = mem
  BY <1>1, <1>3 DEF ArchRegs, ArchMem, Writers, StoresTo
<1>5. (halted \/ HaltInFlight) = FALSE
  BY <1>1 DEF HaltInFlight
<1> QED
  BY <1>1, <1>2, <1>4, <1>5 DEF Seq_!Init

\* The pipeline completes operations out of order, trains a predictor, flushes,
\* and is slowed and throttled by its control plan and the governor; yet each of
\* its steps is one instruction of the sequential machine or none at all, for
\* every program without overlapping writes in which nothing follows a HALT.
THEOREM PipelineComputes ==
  ASSUME \A p \in Programs : NoOverlappingWrites(p) /\ HaltIsLast(p)
  PROVE  Spec => ImplementsSeqISA
<1>1. Init => Seq_!Init
  BY SequentialInit
<1>2. Init => HaltEnds
  BY DEF Init, HaltEnds, HaltInFlight
<1>3. TypeOK /\ Exact /\ HaltEnds /\ [Next]_vars => HaltEnds'
  BY HaltEndsStep
<1>4. /\ TypeOK /\ Interlocks /\ Exact /\ HaltEnds /\ [Next]_vars
      /\ TypeOK' /\ Interlocks' /\ Exact'
      => [Seq_!Next]_(Seq_!vars)
  BY OverlaidFacts, OverlaidNext, SequentialStep
<1>5. Spec => []Exact
  BY ExactInvariance
<1> QED
  BY <1>1, <1>2, <1>3, <1>4, <1>5, TypeCorrect, OrderKept, PTL
  DEF Spec, ImplementsSeqISA, Seq_!Spec

=============================================================================
