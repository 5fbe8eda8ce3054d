------------------------- MODULE HashChainLogProofs -------------------------
(***************************************************************************)
(* Proofs about HashChainLog, for any number of processes, of records and  *)
(* of faults.                                                              *)
(***************************************************************************)
EXTENDS HashChainLog, WellFoundedInduction, TLAPS

-----------------------------------------------------------------------------
(* The inductive invariant: the types, and one part for each promise.      *)

\* What a process is about to append was sealed, and is no other record.
Drafts ==
  \A w \in Writers : at[w] = "sealed" =>
    /\ draft[w].text \in 1 .. sealed /\ draft[w].hash = draft[w].text

\* A line that is read says something: its text was altered, or is a record's.
LinesSpeak == damage = 0 => \A k \in DOMAIN lines : lines[k] # Garbage => lines[k].text # 0

\* While every line can be read, none that a caller was told of is missing.
ReadableIsComplete ==
  damage = 0 /\ Readable => acked \subseteq {lines[k].text : k \in DOMAIN lines}

\* The first bad line is where the damage is.
DamageFirst ==
  damage # 0 => /\ damage \in DOMAIN lines /\ Bad(damage)
                /\ \A k \in DOMAIN lines : k < damage => ~Bad(k)

\* One process at a time, no gap and no torn line so far: every line continues the
\* one before it, a process that is open is the only one and knows the last line.
Solo == alone /\ ~faulty /\ damage = 0
Continues(r) == /\ r.prev = LastRead.hash /\ r # Garbage
                /\ log = "decisions" => r.seq = Len(lines) + 1
KnowsTail(w) ==
  /\ at[w] # "closed" => Others(w) = {}
  /\ at[w] # "closed" /\ log = "decisions" => prev[w] = LastRead.hash
  /\ at[w] = "idle" => seq[w] = Len(lines)
  /\ at[w] = "sealed" => Continues(draft[w])
  /\ at[w] = "sealed" /\ log = "decisions" => seq[w] = Len(lines) + 1
SoloIntact ==
  Solo => /\ torn = "no"
          /\ \A k \in DOMAIN lines : ~Bad(k)
          /\ \A w \in Writers : KnowsTail(w)

Inv == TypeOK /\ Drafts /\ LinesSpeak /\ ReadableIsComplete /\ DamageFirst /\ SoloIntact

-----------------------------------------------------------------------------
(* Numbers, the file's lines, and verify_chain's answer.                   *)

LEMMA LeastNatural ==
  ASSUME NEW S \in SUBSET Nat, S # {}
  PROVE  \E n \in S : \A m \in S : n <= m
<1>1. PICK n \in S : \A m \in S : ~(<<m, n>> \in OpToRel(<, Nat))
  BY NatLessThanWellFounded, WFMin
<1>2. \A m \in S : ~(m < n)
  BY <1>1 DEF OpToRel
<1> QED BY <1>2

LEMMA MinOfNaturals ==
  ASSUME NEW S \in SUBSET Nat, S # {}
  PROVE  Min(S) \in S /\ \A m \in S : Min(S) <= m
  BY LeastNatural DEF Min

LEMMA GarbageIsALine == Garbage \in Line
  BY DEF Garbage, Line, GENESIS

\* verify_chain names a line exactly if it is bad and none before it is.
LEMMA FirstBadIsFirst ==
  ASSUME TypeOK
  PROVE  /\ FirstBad = 0 <=> \A k \in DOMAIN lines : ~Bad(k)
         /\ \A k \in DOMAIN lines :
              Bad(k) /\ (\A j \in DOMAIN lines : j < k => ~Bad(j)) => FirstBad = k
<1> DEFINE bad == {k \in DOMAIN Read : Bad(k)}
<1>1. DOMAIN lines \subseteq Nat \ {0} /\ Read = lines
  BY DEF TypeOK, Read
<1>2. bad \subseteq Nat /\ 0 \notin bad
  BY <1>1
<1>3. FirstBad = IF bad = {} THEN 0 ELSE Min(bad)
  BY DEF FirstBad
<1>4. bad # {} => Min(bad) \in bad /\ \A m \in bad : Min(bad) <= m
  BY <1>2, MinOfNaturals
<1>5. FirstBad = 0 <=> \A k \in DOMAIN lines : ~Bad(k)
  BY <1>1, <1>2, <1>3, <1>4
<1>6. ASSUME NEW k \in DOMAIN lines, Bad(k), \A j \in DOMAIN lines : j < k => ~Bad(j)
      PROVE  FirstBad = k
  <2>1. k \in bad /\ k \in Nat
    BY <1>1, <1>6
  <2>2. Min(bad) \in bad /\ Min(bad) <= k /\ Min(bad) \in Nat
    BY <2>1, <1>2, <1>4
  <2>3. ~(Min(bad) < k)
    BY <2>2, <1>1, <1>6
  <2> QED BY <2>1, <2>2, <2>3, <1>3
<1> QED BY <1>5, <1>6

LEMMA IntactIsReadable == ASSUME TypeOK, FirstBad = 0 PROVE Readable
<1>1. \A k \in DOMAIN lines : lines[k] # Garbage
  BY FirstBadIsFirst DEF Bad, Read
<1> QED BY <1>1 DEF Readable, Range

LEMMA Ends ==
  ASSUME TypeOK
  PROVE  /\ Len(lines) \in Nat /\ DOMAIN lines = 1 .. Len(lines)
         /\ \A k \in DOMAIN lines : lines[k] \in Line
         /\ lines = <<>> <=> Len(lines) = 0
         /\ LastRead \in Line
         /\ LastRead = IF Len(lines) = 0 THEN Garbage ELSE lines[Len(lines)]
  BY GarbageIsALine DEF TypeOK, LastRead, Last

\* A line is bad by what it and the line before it say.
LEMMA SameLinesSameVerdict ==
  ASSUME NEW k \in Nat, log' = log, lines'[k] = lines[k],
         k # 1 => lines'[k - 1].hash = lines[k - 1].hash
  PROVE  Bad(k)' = Bad(k)
  BY DEF Bad, Expected, Read, AsSealed, GENESIS

-----------------------------------------------------------------------------
(* How the file changes.                                                   *)

Grows(r) == lines' = Append(lines, r)
Spoils   == lines # <<>> /\ lines' = Spoiled(lines)

LEMMA AppendIs ==
  ASSUME NEW S, NEW q \in Seq(S), NEW e \in S
  PROVE  /\ Append(q, e) \in Seq(S) /\ Append(q, e) # <<>>
         /\ Len(Append(q, e)) = Len(q) + 1 /\ DOMAIN Append(q, e) = 1 .. Len(q) + 1
         /\ \A k \in DOMAIN q : Append(q, e)[k] = q[k]
         /\ Append(q, e)[Len(q) + 1] = e
<1>1. Append(q, e) \in Seq(S) /\ Len(Append(q, e)) = Len(q) + 1
  OBVIOUS
<1>2. DOMAIN Append(q, e) = 1 .. Len(q) + 1 /\ DOMAIN q = 1 .. Len(q) /\ Len(q) \in Nat
  BY <1>1
<1>3. Append(q, e)[Len(q) + 1] = e /\ \A k \in 1 .. Len(q) : Append(q, e)[k] = q[k]
  BY <1>2
<1> QED BY <1>1, <1>2, <1>3

LEMMA GrowsLines ==
  ASSUME TypeOK, NEW r \in Line, Grows(r)
  PROVE  /\ lines' \in Seq(Line) /\ lines' # <<>>
         /\ Len(lines') = Len(lines) + 1 /\ DOMAIN lines' = 1 .. Len(lines) + 1
         /\ \A k \in DOMAIN lines : lines'[k] = lines[k]
         /\ lines'[Len(lines) + 1] = r
<1>1. lines \in Seq(Line)
  BY DEF TypeOK
<1> QED BY <1>1, AppendIs DEF Grows

LEMMA SpoilsLines ==
  ASSUME TypeOK, Spoils
  PROVE  /\ lines' \in Seq(Line) /\ lines' # <<>>
         /\ Len(lines') = Len(lines) /\ DOMAIN lines' = DOMAIN lines
         /\ \A k \in DOMAIN lines : k # Len(lines) => lines'[k] = lines[k]
         /\ Len(lines) \in DOMAIN lines /\ lines'[Len(lines)] = Garbage
<1>1. Len(lines) \in Nat /\ Len(lines) # 0 /\ DOMAIN lines = 1 .. Len(lines)
  BY Ends DEF Spoils
<1> DEFINE f == SubSeq(lines, 1, Len(lines) - 1)
<1>2. /\ f \in Seq(Line) /\ Len(f) = Len(lines) - 1
      /\ \A i \in 1 .. Len(lines) - 1 : f[i] = lines[i]
  BY <1>1 DEF TypeOK
<1>3. lines' = Append(f, Garbage)
  BY DEF Spoils, Spoiled, Front
<1> HIDE DEF f
<1>4. /\ lines' \in Seq(Line) /\ lines' # <<>> /\ Len(lines') = Len(lines)
      /\ DOMAIN lines' = 1 .. Len(lines) /\ lines'[Len(lines)] = Garbage
      /\ \A k \in DOMAIN f : lines'[k] = f[k]
  <2>1. /\ lines' \in Seq(Line) /\ lines' # <<>> /\ Len(lines') = Len(f) + 1
        /\ DOMAIN lines' = 1 .. Len(f) + 1 /\ lines'[Len(f) + 1] = Garbage
        /\ \A k \in DOMAIN f : lines'[k] = f[k]
    BY <1>2, <1>3, AppendIs, GarbageIsALine
  <2>2. Len(f) + 1 = Len(lines)
    BY <1>1, <1>2
  <2> QED BY <2>1, <2>2
<1>5. \A k \in DOMAIN lines : k # Len(lines) => k \in 1 .. Len(lines) - 1
  BY <1>1
<1>6. DOMAIN f = 1 .. Len(lines) - 1
  BY <1>2
<1> QED BY <1>1, <1>2, <1>4, <1>5, <1>6

\* What is appended, in which way, when so much of r is written.
LEMMA AppendingIs ==
  ASSUME TypeOK, NEW r \in Line, NEW much, Appending(r, much)
  PROVE  /\ torn' \in {"no", "newline", "part"}
         /\ \/ UNCHANGED <<lines, torn>> /\ much = "nothing"
            \/ Grows(r) /\ torn = "no" /\ much \in {"full", "newline"}
               /\ torn' = IF much = "full" THEN "no" ELSE "newline"
            \/ Grows(Garbage) /\ much = "part"
            \/ Spoils /\ torn # "no"
  BY DEF Appending, Grows, Spoils, TypeOK

\* A line keeps its verdict when one is appended, and all but the last when that is spoiled.
LEMMA GrowsVerdicts ==
  ASSUME TypeOK, NEW r \in Line, Grows(r), log' = log
  PROVE  \A k \in DOMAIN lines : Bad(k)' = Bad(k)
<1> SUFFICES ASSUME NEW k \in DOMAIN lines PROVE Bad(k)' = Bad(k)
  OBVIOUS
<1>1. lines'[k] = lines[k] /\ k \in Nat
  BY GrowsLines, Ends
<1>2. k # 1 => k - 1 \in DOMAIN lines
  BY Ends
<1>3. k # 1 => lines'[k - 1] = lines[k - 1]
  BY GrowsLines, <1>2
<1> QED BY <1>1, <1>3, SameLinesSameVerdict

LEMMA SpoilsVerdicts ==
  ASSUME TypeOK, Spoils, log' = log
  PROVE  /\ Bad(Len(lines))'
         /\ \A k \in DOMAIN lines : k # Len(lines) => Bad(k)' = Bad(k)
<1>1. Bad(Len(lines))'
  BY SpoilsLines DEF Bad, Read
<1>2. ASSUME NEW k \in DOMAIN lines, k # Len(lines) PROVE Bad(k)' = Bad(k)
  <2>1. lines'[k] = lines[k] /\ k \in Nat
    BY SpoilsLines, Ends, <1>2
  <2>2. k # 1 => k - 1 \in DOMAIN lines /\ k - 1 # Len(lines)
    BY Ends, <1>2
  <2>3. k # 1 => lines'[k - 1] = lines[k - 1]
    BY SpoilsLines, <2>2
  <2> QED BY <2>1, <2>3, SameLinesSameVerdict
<1> QED BY <1>1, <1>2

\* However the file changes but by an accident, the first bad line stays the first.
LEMMA DamageStaysFirst ==
  ASSUME TypeOK, DamageFirst, UNCHANGED <<log, damage>>,
         lines' = lines \/ (\E r \in Line : Grows(r)) \/ Spoils
  PROVE  DamageFirst'
<1> SUFFICES ASSUME damage # 0 PROVE DamageFirst'
  BY DEF DamageFirst
<1>1. damage \in DOMAIN lines /\ Bad(damage) /\ \A k \in DOMAIN lines : k < damage => ~Bad(k)
  BY DEF DamageFirst
<1>2. CASE lines' = lines
  BY <1>1, <1>2 DEF DamageFirst, Bad, Expected, Read, AsSealed
<1>3. ASSUME NEW r \in Line, Grows(r) PROVE DamageFirst'
  <2>1. \A k \in DOMAIN lines : Bad(k)' = Bad(k)
    BY <1>3, GrowsVerdicts
  <2>2. DOMAIN lines' = 1 .. Len(lines) + 1 /\ DOMAIN lines = 1 .. Len(lines) /\ Len(lines) \in Nat
    BY <1>3, GrowsLines, Ends
  <2>3. damage \in DOMAIN lines' /\ \A k \in DOMAIN lines' : k < damage => k \in DOMAIN lines
    BY <1>1, <2>2
  <2> QED BY <1>1, <2>1, <2>3 DEF DamageFirst
<1>4. CASE Spoils
  <2>1. DOMAIN lines' = DOMAIN lines /\ DOMAIN lines = 1 .. Len(lines) /\ Len(lines) \in Nat
    BY <1>4, SpoilsLines, Ends
  <2>2. Bad(damage)' /\ \A k \in DOMAIN lines : k < damage => ~Bad(k)'
    BY <1>1, <1>4, <2>1, SpoilsVerdicts
  <2> QED BY <1>1, <2>1, <2>2 DEF DamageFirst
<1> QED BY <1>2, <1>3, <1>4

-----------------------------------------------------------------------------
(* What no process can disturb.                                            *)

FileInv == LinesSpeak /\ ReadableIsComplete /\ DamageFirst

LEMMA FileStays == ASSUME FileInv, UNCHANGED <<file, acked, damage>> PROVE FileInv'
  BY DEF FileInv, LinesSpeak, ReadableIsComplete, DamageFirst, Readable, file,
         Bad, Expected, Read, AsSealed

LEMMA FileAppended ==
  ASSUME TypeOK, FileInv, NEW r \in Line, NEW much, Appending(r, much), r.text # 0,
         UNCHANGED <<log, damage>>,
         acked' = acked \/ (much = "full" /\ acked' = acked \cup {r.text})
  PROVE  FileInv'
<1>1. lines' = lines \/ (\E q \in Line : Grows(q)) \/ Spoils
  BY AppendingIs, GarbageIsALine
<1>2. DamageFirst'
  BY <1>1, DamageStaysFirst DEF FileInv
<1>3. CASE lines' = lines /\ acked' = acked
  BY <1>2, <1>3 DEF FileInv, LinesSpeak, ReadableIsComplete, Readable
<1>4. CASE Spoils
  <2>1. LinesSpeak'
    BY <1>4, SpoilsLines DEF FileInv, LinesSpeak
  <2>2. ~Readable'
    BY <1>4, SpoilsLines DEF Readable, Range
  <2> QED BY <1>2, <2>1, <2>2 DEF FileInv, ReadableIsComplete
<1>5. ASSUME NEW q \in {r, Garbage}, Grows(q), q = Garbage => acked' = acked PROVE FileInv'
  <2>1. q \in Line /\ (q # Garbage => q = r)
    BY GarbageIsALine
  <2>2. /\ DOMAIN lines' = 1 .. Len(lines) + 1 /\ DOMAIN lines = 1 .. Len(lines)
        /\ Len(lines) \in Nat /\ lines'[Len(lines) + 1] = q
        /\ \A k \in DOMAIN lines : lines'[k] = lines[k]
    BY <1>5, <2>1, GrowsLines, Ends
  <2>3. \A k \in DOMAIN lines' : k \in DOMAIN lines \/ lines'[k] = q
    BY <2>2
  <2>4. LinesSpeak'
    BY <2>1, <2>2, <2>3 DEF FileInv, LinesSpeak
  <2>5. Readable' => Readable /\ q = r
    BY <2>1, <2>2 DEF Readable, Range
  <2>6. {lines[k].text : k \in DOMAIN lines} \cup {q.text} \subseteq {lines'[k].text : k \in DOMAIN lines'}
    BY <2>2
  <2>7. ReadableIsComplete'
    BY <2>5, <2>6 DEF FileInv, ReadableIsComplete
  <2> QED BY <1>2, <2>4, <2>7 DEF FileInv
<1>6. r # Garbage
  BY DEF Garbage
<1>7. CASE Grows(Garbage) /\ much = "part"
  BY <1>5, <1>7
<1>8. CASE Grows(r)
  BY <1>5, <1>6, <1>8
<1> QED BY <1>3, <1>4, <1>7, <1>8, AppendingIs

-----------------------------------------------------------------------------
(* The types and the drafts, action by action.                             *)

LEMMA LastReadTypes == ASSUME TypeOK PROVE LastRead.seq \in Nat /\ LastRead.hash \in Nat
  BY Ends DEF Line

LEMMA SealedTypes ==
  ASSUME TypeOK, NEW n \in Nat, NEW p \in Nat
  PROVE  /\ Sealed(n, p) \in Line /\ Sealed(n, p).text = sealed + 1
         /\ Sealed(n, p).hash = sealed + 1 /\ Sealed(n, p).prev = p /\ Sealed(n, p).seq = n
         /\ sealed \in Nat
  BY BoundsAssumption DEF TypeOK, Sealed, Line

LEMMA OpenTypes == ASSUME TypeOK, Drafts, NEW w \in Writers, Open(w) PROVE TypeOK' /\ Drafts'
  BY LastReadTypes DEF TypeOK, Drafts, Open, file

LEMMA CloseTypes == ASSUME TypeOK, Drafts, NEW w \in Writers, Close(w) PROVE TypeOK' /\ Drafts'
  BY DEF TypeOK, Drafts, Close, file, history

LEMMA SealTypes == ASSUME TypeOK, Drafts, NEW w \in Writers, Seal(w) PROVE TypeOK' /\ Drafts'
<1> DEFINE r == Sealed(seq[w] + 1, prev[w])
<1>1. seq[w] + 1 \in Nat /\ prev[w] \in Nat
  BY DEF TypeOK
<1>2. r \in Line /\ r.text = sealed + 1 /\ r.hash = sealed + 1 /\ sealed \in Nat
  BY <1>1, SealedTypes
<1>3. draft' = [draft EXCEPT ![w] = r]
  BY DEF Seal
<1>4. MaxRecords \in Nat
  BY BoundsAssumption
<1> HIDE DEF r
<1>5. TypeOK'
  BY <1>1, <1>2, <1>3, <1>4 DEF TypeOK, Seal, file
<1>6. Drafts'
  BY <1>2, <1>3 DEF TypeOK, Drafts, Seal
<1> QED BY <1>5, <1>6

LEMMA SealFailsTypes ==
  ASSUME TypeOK, Drafts, NEW w \in Writers, SealFails(w) PROVE TypeOK' /\ Drafts'
  BY BoundsAssumption DEF TypeOK, Drafts, SealFails, file

LEMMA LoadTypes == ASSUME TypeOK, Drafts, NEW w \in Writers, Load(w) PROVE TypeOK' /\ Drafts'
<1> DEFINE r == Sealed(0, LastRead.hash)
<1>2. r \in Line /\ r.text = sealed + 1 /\ r.hash = sealed + 1 /\ sealed \in Nat
  BY LastReadTypes, SealedTypes
<1>3. draft' = [draft EXCEPT ![w] = r]
  BY DEF Load
<1>4. MaxRecords \in Nat
  BY BoundsAssumption
<1> HIDE DEF r
<1>5. TypeOK'
  BY <1>2, <1>3, <1>4 DEF TypeOK, Load, file
<1>6. Drafts'
  BY <1>2, <1>3 DEF TypeOK, Drafts, Load
<1> QED BY <1>5, <1>6

LEMMA AppendingTypes ==
  ASSUME TypeOK, NEW r \in Line, NEW much, Appending(r, much)
  PROVE  lines' \in Seq(Line) /\ torn' \in {"no", "newline", "part"} /\ (torn' # "no" => lines' # <<>>)
  BY AppendingIs, GrowsLines, SpoilsLines, GarbageIsALine DEF TypeOK

LEMMA WriteTypes == ASSUME TypeOK, Drafts, NEW w \in Writers, Write(w) PROVE TypeOK' /\ Drafts'
<1>1. draft[w] \in Line /\ draft[w].hash \in Nat /\ draft[w].text \in 1 .. sealed
  BY DEF TypeOK, Drafts, Line, Write
<1>2. lines' \in Seq(Line) /\ torn' \in {"no", "newline", "part"} /\ (torn' # "no" => lines' # <<>>)
  BY <1>1, AppendingTypes DEF Write
<1> QED BY <1>1, <1>2 DEF TypeOK, Drafts, Write, After

LEMMA WriteStopsTypes ==
  ASSUME TypeOK, Drafts, NEW w \in Writers, NEW much, NEW survives \in BOOLEAN,
         WriteStops(w, much, survives)
  PROVE  TypeOK' /\ Drafts'
<1>1. draft[w] \in Line
  BY DEF TypeOK
<1>2. lines' \in Seq(Line) /\ torn' \in {"no", "newline", "part"} /\ (torn' # "no" => lines' # <<>>)
  BY <1>1, AppendingTypes DEF WriteStops
<1>3. faults' \in 0 .. MaxFaults /\ faulty' \in BOOLEAN
  BY BoundsAssumption DEF TypeOK, WriteStops
<1>4. /\ at' \in [Writers -> {"closed", "idle", "sealed"}]
      /\ log = "unified" => \A v \in Writers : at'[v] # "idle"
      /\ \A v \in Writers : at'[v] = "sealed" => at[v] = "sealed"
  BY DEF TypeOK, WriteStops, After
<1> QED BY <1>1, <1>2, <1>3, <1>4 DEF TypeOK, Drafts, WriteStops

-----------------------------------------------------------------------------
(* One process at a time, action by action.                                *)

LEMMA OpenSolo ==
  ASSUME TypeOK, SoloIntact, NEW w \in Writers, Open(w) PROVE SoloIntact'
<1> SUFFICES ASSUME Solo' PROVE SoloIntact'
  BY DEF SoloIntact
<1>1. Solo /\ Others(w) = {} /\ UNCHANGED <<log, lines, torn>>
  BY DEF Solo, Open, file
<1>2. torn = "no" /\ \A k \in DOMAIN lines : ~Bad(k)
  BY <1>1 DEF SoloIntact
<1>3. torn' = "no" /\ \A k \in DOMAIN lines' : ~Bad(k)'
  BY <1>1, <1>2 DEF Bad, Expected, Read, AsSealed
<1>4. at' = [at EXCEPT ![w] = "idle"] /\ seq'[w] = LastRead.seq /\ prev'[w] = LastRead.hash
      /\ LastRead' = LastRead /\ log = "decisions"
  BY <1>1 DEF Open, TypeOK, LastRead
<1>5. LastRead.seq = Len(lines)
  <2>1. CASE Len(lines) = 0
    BY <2>1, Ends DEF Garbage
  <2>2. CASE Len(lines) # 0
    BY <2>2, <1>2, <1>4, Ends DEF Bad, Read
  <2> QED BY <2>1, <2>2
<1>6. \A v \in Writers \ {w} : at'[v] = "closed"
  BY <1>1, <1>4 DEF Others, TypeOK
<1>7. at'[w] = "idle" /\ Others(w)' = {}
  BY <1>4, <1>6 DEF Others, TypeOK
<1>8. \A v \in Writers : KnowsTail(v)'
  BY <1>1, <1>4, <1>5, <1>6, <1>7 DEF KnowsTail
<1> QED BY <1>3, <1>8 DEF SoloIntact

\* A process that is open is the only one.
LEMMA OnlyOne ==
  ASSUME TypeOK, SoloIntact, Solo, NEW w \in Writers, at[w] # "closed"
  PROVE  KnowsTail(w) /\ \A v \in Writers \ {w} : at[v] = "closed"
  BY DEF SoloIntact, KnowsTail, Others

LEMMA CloseSolo ==
  ASSUME TypeOK, SoloIntact, NEW w \in Writers, Close(w) PROVE SoloIntact'
<1> SUFFICES ASSUME Solo' PROVE SoloIntact'
  BY DEF SoloIntact
<1>1. Solo /\ UNCHANGED <<log, lines, torn>> /\ at[w] # "closed"
  BY DEF Solo, Close, file, history
<1>2. torn' = "no" /\ \A k \in DOMAIN lines' : ~Bad(k)'
  BY <1>1 DEF SoloIntact, Bad, Expected, Read, AsSealed
<1>3. \A v \in Writers : at'[v] = "closed"
  BY <1>1, OnlyOne DEF Close, TypeOK
<1> QED BY <1>2, <1>3 DEF SoloIntact, KnowsTail

LEMMA SealSolo ==
  ASSUME TypeOK, SoloIntact, NEW w \in Writers, Seal(w) PROVE SoloIntact'
<1> SUFFICES ASSUME Solo' PROVE SoloIntact'
  BY DEF SoloIntact
<1>1. Solo /\ UNCHANGED <<log, lines, torn, prev>> /\ at[w] = "idle" /\ log = "decisions"
  BY LogsAssumption DEF Solo, Seal, file, TypeOK
<1>2. torn' = "no" /\ \A k \in DOMAIN lines' : ~Bad(k)'
  BY <1>1 DEF SoloIntact, Bad, Expected, Read, AsSealed
<1>3. KnowsTail(w) /\ \A v \in Writers \ {w} : at[v] = "closed"
  BY <1>1, OnlyOne
<1>4. seq[w] = Len(lines) /\ prev[w] = LastRead.hash /\ seq[w] + 1 \in Nat /\ prev[w] \in Nat
  BY <1>1, <1>3 DEF KnowsTail, TypeOK
<1>5. /\ draft'[w].prev = LastRead.hash /\ draft'[w].seq = Len(lines) + 1
      /\ draft'[w].text = sealed + 1 /\ sealed \in Nat
  BY <1>4, SealedTypes DEF Seal, TypeOK
<1>6. draft'[w] # Garbage
  BY <1>5 DEF Garbage
<1>7. LastRead' = LastRead /\ Len(lines') = Len(lines) /\ log' = log
  BY <1>1 DEF LastRead
<1>8. Continues(draft[w])'
  BY <1>5, <1>6, <1>7 DEF Continues
<1>9. at'[w] = "sealed" /\ seq'[w] = Len(lines) + 1 /\ \A v \in Writers \ {w} : at'[v] = "closed"
  BY <1>3, <1>4 DEF Seal, TypeOK
<1>10. Others(w)' = {}
  BY <1>9 DEF Others
<1>11. \A v \in Writers : KnowsTail(v)'
  BY <1>1, <1>4, <1>7, <1>8, <1>9, <1>10 DEF KnowsTail
<1> QED BY <1>2, <1>11 DEF SoloIntact

LEMMA LoadSolo ==
  ASSUME TypeOK, SoloIntact, NEW w \in Writers, Load(w) PROVE SoloIntact'
<1> SUFFICES ASSUME Solo' PROVE SoloIntact'
  BY DEF SoloIntact
<1>1. Solo /\ UNCHANGED <<log, lines, torn>> /\ Others(w) = {} /\ log = "unified"
  BY DEF Solo, Load, file
<1>2. torn' = "no" /\ \A k \in DOMAIN lines' : ~Bad(k)'
  BY <1>1 DEF SoloIntact, Bad, Expected, Read, AsSealed
<1>3. draft'[w].prev = LastRead.hash /\ draft'[w].text = sealed + 1 /\ sealed \in Nat
  BY LastReadTypes, SealedTypes DEF Load, TypeOK
<1>4. draft'[w] # Garbage
  BY <1>3 DEF Garbage
<1>5. LastRead' = LastRead /\ log' = "unified"
  BY <1>1 DEF LastRead
<1>6. Continues(draft[w])'
  BY <1>3, <1>4, <1>5 DEF Continues
<1>7. at'[w] = "sealed" /\ \A v \in Writers \ {w} : at'[v] = "closed"
  BY <1>1 DEF Load, TypeOK, Others
<1>8. Others(w)' = {}
  BY <1>7 DEF Others
<1>9. \A v \in Writers : KnowsTail(v)'
  BY <1>5, <1>6, <1>7, <1>8 DEF KnowsTail
<1> QED BY <1>2, <1>9 DEF SoloIntact

\* The record the only process appends continues the chain.
LEMMA AppendedSolo ==
  ASSUME TypeOK, Drafts, SoloIntact, Solo, NEW w \in Writers, at[w] = "sealed",
         Grows(draft[w]), log' = log
  PROVE  /\ \A k \in DOMAIN lines' : ~Bad(k)'
         /\ LastRead' = draft[w] /\ Len(lines') = Len(lines) + 1
<1> DEFINE r == draft[w]
<1>1. r \in Line /\ Continues(r) /\ r.text = r.hash
  BY OnlyOne DEF TypeOK, Drafts, KnowsTail
<1>2. /\ DOMAIN lines' = 1 .. Len(lines) + 1 /\ DOMAIN lines = 1 .. Len(lines) /\ Len(lines) \in Nat
      /\ Len(lines') = Len(lines) + 1 /\ lines'[Len(lines) + 1] = r /\ lines' # <<>>
      /\ \A k \in DOMAIN lines : lines'[k] = lines[k]
  BY <1>1, GrowsLines, Ends
<1>3. \A k \in DOMAIN lines : ~Bad(k)'
  BY <1>1, GrowsVerdicts DEF SoloIntact
<1>4. PICK n \in Nat : n = Len(lines) + 1
  BY <1>2
<1>5. Expected(n)' = LastRead.hash
  <2>1. CASE Len(lines) = 0
    <3>1. n = 1 /\ LastRead = Garbage
      BY <2>1, <1>4, Ends
    <3>2. LastRead.hash = GENESIS
      BY <3>1 DEF Garbage, GENESIS
    <3>3. Expected(n)' = GENESIS
      BY <3>1 DEF Expected
    <3> QED BY <3>2, <3>3
  <2>2. CASE Len(lines) # 0
    <3>1. n # 1 /\ n - 1 = Len(lines) /\ n - 1 \in DOMAIN lines
      BY <2>2, <1>4, <1>2
    <3>2. LastRead = lines[n - 1] /\ lines'[n - 1] = lines[n - 1]
      BY <3>1, <2>2, <1>2, Ends
    <3> QED BY <3>1, <3>2 DEF Expected, Read
  <2> QED BY <2>1, <2>2
<1>8. ~Bad(n)'
  BY <1>1, <1>2, <1>4, <1>5 DEF Bad, Read, AsSealed, Continues
<1>6. LastRead' = r
  BY <1>2 DEF LastRead, Last
<1>7. \A k \in DOMAIN lines' : k \in DOMAIN lines \/ k = n
  BY <1>2, <1>4
<1> QED BY <1>2, <1>3, <1>6, <1>7, <1>8

LEMMA WriteSolo ==
  ASSUME TypeOK, Drafts, SoloIntact, NEW w \in Writers, Write(w) PROVE SoloIntact'
<1> SUFFICES ASSUME Solo' PROVE SoloIntact'
  BY DEF SoloIntact
<1>1. Solo /\ torn = "no" /\ at[w] = "sealed" /\ log' = log /\ draft' = draft /\ seq' = seq
  BY DEF Solo, Write, SoloIntact
<1>2. KnowsTail(w) /\ \A v \in Writers \ {w} : at[v] = "closed"
  BY <1>1, OnlyOne
<1>3. Grows(draft[w]) /\ torn' = "no"
  BY <1>1 DEF Write, Appending, Grows
<1>4. (\A k \in DOMAIN lines' : ~Bad(k)') /\ LastRead' = draft[w] /\ Len(lines') = Len(lines) + 1
  BY <1>1, <1>3, AppendedSolo
<1>5. /\ at'[w] = After /\ prev'[w] = draft[w].hash
      /\ \A v \in Writers \ {w} : at'[v] = "closed"
  BY <1>2 DEF Write, TypeOK
<1>6. at'[w] # "sealed" /\ (at'[w] = "idle" => log = "decisions")
  BY <1>5 DEF After
<1>7. Others(w)' = {} /\ (log = "decisions" => seq[w] = Len(lines) + 1)
  BY <1>1, <1>2, <1>5 DEF Others, KnowsTail
<1>8. \A v \in Writers : KnowsTail(v)'
  BY <1>1, <1>4, <1>5, <1>6, <1>7 DEF KnowsTail
<1> QED BY <1>3, <1>4, <1>8 DEF SoloIntact

LEMMA WriteStopsSolo ==
  ASSUME TypeOK, Drafts, SoloIntact, NEW w \in Writers,
         NEW much \in {"nothing", "part", "newline", "full"}, NEW survives \in BOOLEAN,
         WriteStops(w, much, survives)
  PROVE  SoloIntact'
<1> SUFFICES ASSUME Solo' PROVE SoloIntact'
  BY DEF SoloIntact
<1>1. /\ Solo /\ torn = "no" /\ at[w] = "sealed" /\ log' = log
      /\ much \in {"nothing", "full"} /\ ~(survives /\ log = "decisions")
  BY DEF Solo, WriteStops, SoloIntact
<1>2. KnowsTail(w) /\ \A v \in Writers \ {w} : at[v] = "closed"
  BY <1>1, OnlyOne
<1>3. torn' = "no" /\ (lines' = lines \/ Grows(draft[w]))
  BY <1>1 DEF WriteStops, Appending, Grows
<1>4. \A k \in DOMAIN lines' : ~Bad(k)'
  <2>1. CASE lines' = lines
    BY <1>1, <2>1 DEF SoloIntact, Bad, Expected, Read, AsSealed
  <2> QED BY <1>1, <1>3, <2>1, AppendedSolo
<1>5. \A v \in Writers : at'[v] = "closed"
  BY <1>1, <1>2, LogsAssumption DEF WriteStops, TypeOK, After
<1> QED BY <1>3, <1>4, <1>5 DEF SoloIntact, KnowsTail

LEMMA SealFailsSolo ==
  ASSUME NEW w \in Writers, SealFails(w) PROVE SoloIntact'
  BY DEF SoloIntact, Solo, SealFails

-----------------------------------------------------------------------------
(* Accidents.                                                              *)

\* What they have in common: the lines before are as they were, the line there is bad.
LEMMA Accident ==
  ASSUME Inv, NEW k \in 1 .. Len(lines), Damage(k), lines' \in Seq(Line), lines' # <<>>,
         k \in DOMAIN lines', Bad(k)',
         \A j \in 1 .. k - 1 : lines'[j] = lines[j]
  PROVE  Inv'
<1>1. /\ damage' = k /\ k # 0 /\ k \in Nat /\ faults' = faults + 1 /\ faults < MaxFaults
      /\ torn = "no" /\ FirstBad = 0 /\ log' = log
      /\ UNCHANGED <<log, torn, at, seq, prev, draft, sealed, acked, alone, faulty>>
  BY DEF Damage, process
<1>2. TypeOK' /\ Drafts'
  BY <1>1, BoundsAssumption DEF Inv, TypeOK, Drafts
<1>3. ASSUME NEW j \in DOMAIN lines', j < k PROVE ~Bad(j)'
  <2>1. DOMAIN lines' = 1 .. Len(lines') /\ j \in Nat /\ j # 0 /\ Len(lines) \in Nat
    BY Ends DEF Inv
  <2>2. j \in 1 .. k - 1 /\ j \in DOMAIN lines
    BY <1>3, <2>1, Ends DEF Inv
  <2>3. j # 1 => j - 1 \in 1 .. k - 1
    BY <2>1, <2>2
  <2>4. Bad(j)' = Bad(j)
    BY <1>1, <2>1, <2>2, <2>3, SameLinesSameVerdict
  <2> QED BY <1>1, <2>2, <2>4, FirstBadIsFirst DEF Inv
<1>4. DamageFirst'
  BY <1>1, <1>3 DEF DamageFirst
<1> QED BY <1>1, <1>2, <1>4 DEF Inv, LinesSpeak, ReadableIsComplete, SoloIntact, Solo

LEMMA AlterKeeps == ASSUME Inv, NEW k, Alter(k) PROVE Inv'
<1>1. /\ k \in 1 .. Len(lines) /\ Damage(k) /\ lines \in Seq(Line)
      /\ Len(lines) \in Nat /\ DOMAIN lines = 1 .. Len(lines)
  BY Ends DEF Inv, TypeOK, Alter
<1>2. lines[k] \in Line /\ lines' = [lines EXCEPT ![k] = [lines[k] EXCEPT !.text = 0]]
  BY <1>1 DEF Alter
<1>3. /\ [lines[k] EXCEPT !.text = 0] \in Line
      /\ [lines[k] EXCEPT !.text = 0].text = 0 /\ [lines[k] EXCEPT !.text = 0].hash = lines[k].hash
  BY <1>2 DEF Line
<1>4. /\ lines' \in Seq(Line) /\ Len(lines') = Len(lines) /\ DOMAIN lines' = DOMAIN lines
      /\ lines'[k].text = 0 /\ lines'[k].hash = lines[k].hash
      /\ \A j \in 1 .. k - 1 : lines'[j] = lines[j]
  BY <1>1, <1>2, <1>3
<1>5. ~Bad(k) /\ damage = 0
  BY <1>1, FirstBadIsFirst DEF Inv, Damage
<1>6. lines[k].hash = lines[k].text /\ lines[k].text # 0
  BY <1>1, <1>5 DEF Bad, AsSealed, Read, Inv, LinesSpeak
<1>7. Bad(k)'
  BY <1>4, <1>6 DEF Bad, AsSealed, Read
<1> QED BY <1>1, <1>4, <1>7, Accident

\* A line that stands at another number.
LEMMA MovedIsBad ==
  ASSUME Inv, NEW k, k \in 1 .. Len(lines) - 1, Damage(k), lines'[k] = lines[k + 1]
  PROVE  Bad(k)'
<1>1. k + 1 \in DOMAIN lines /\ k # k + 1 /\ Len(lines) \in Nat
  BY Ends DEF Inv
<1>2. ~Bad(k + 1) /\ log = "decisions" /\ log' = log
  BY <1>1, FirstBadIsFirst DEF Inv, Damage
<1>3. lines[k + 1].seq = k + 1
  BY <1>2 DEF Bad, Read
<1> QED BY <1>1, <1>2, <1>3 DEF Bad, Read

LEMMA SwapKeeps == ASSUME Inv, NEW k, Swap(k) PROVE Inv'
<1>1. /\ k \in 1 .. Len(lines) - 1 /\ Damage(k) /\ lines \in Seq(Line)
      /\ Len(lines) \in Nat /\ DOMAIN lines = 1 .. Len(lines)
      /\ k \in DOMAIN lines /\ k + 1 \in DOMAIN lines /\ k # k + 1
  BY Ends DEF Inv, TypeOK, Swap
<1>2. lines' = [[lines EXCEPT ![k] = lines[k + 1]] EXCEPT ![k + 1] = lines[k]]
  BY DEF Swap
<1>3. lines[k] \in Line /\ lines[k + 1] \in Line
  BY <1>1
<1>4. /\ lines' \in Seq(Line) /\ Len(lines') = Len(lines) /\ DOMAIN lines' = DOMAIN lines
      /\ lines'[k] = lines[k + 1]
      /\ \A j \in 1 .. k - 1 : lines'[j] = lines[j]
  BY <1>1, <1>2, <1>3
<1>5. Bad(k)'
  BY <1>1, <1>4, MovedIsBad
<1>6. lines' # <<>> /\ k \in 1 .. Len(lines) /\ k \in DOMAIN lines'
  BY <1>1, <1>4
<1> QED BY <1>1, <1>4, <1>5, <1>6, Accident

LEMMA LoseKeeps == ASSUME Inv, NEW k, Lose(k) PROVE Inv'
<1>1. /\ k \in 1 .. Len(lines) - 1 /\ Damage(k) /\ lines \in Seq(Line)
      /\ Len(lines) \in Nat /\ DOMAIN lines = 1 .. Len(lines) /\ k \in Nat /\ k # 0
  BY Ends DEF Inv, TypeOK, Lose
<1> DEFINE a == SubSeq(lines, 1, k - 1)
           b == SubSeq(lines, k + 1, Len(lines))
<1>2. a \in Seq(Line) /\ Len(a) = k - 1 /\ \A j \in 1 .. k - 1 : a[j] = lines[j]
  BY <1>1
<1>3. b \in Seq(Line) /\ Len(b) = Len(lines) - k /\ b[1] = lines[k + 1]
  BY <1>1
<1>4. lines' = a \o b
  BY DEF Lose, RemoveAt
<1> HIDE DEF a, b
<1>5. /\ lines' \in Seq(Line) /\ Len(lines') = Len(lines) - 1
      /\ \A j \in 1 .. k - 1 : lines'[j] = lines[j]
      /\ lines'[k] = lines[k + 1]
  <2>1. a \o b \in Seq(Line) /\ Len(a \o b) = Len(a) + Len(b)
    <3>1. a \in Seq(Line) /\ b \in Seq(Line)
      BY <1>2, <1>3
    <3> QED BY <3>1
  <2>2. \A j \in 1 .. k - 1 : lines'[j] = a[j]
    BY <1>1, <1>2, <1>3, <1>4
  <2>3. lines'[k] = b[1]
    BY <1>1, <1>2, <1>3, <1>4
  <2> QED BY <1>1, <1>2, <1>3, <1>4, <2>1, <2>2, <2>3
<1>6. Bad(k)'
  BY <1>1, <1>5, MovedIsBad
<1>7. lines' # <<>> /\ k \in 1 .. Len(lines) /\ k \in DOMAIN lines'
  BY <1>1, <1>5
<1> QED BY <1>1, <1>5, <1>6, <1>7, Accident

-----------------------------------------------------------------------------
(* The invariant holds at first and is kept by every step.                 *)

LEMMA InitInv == Init => Inv
<1> SUFFICES ASSUME Init PROVE Inv
  OBVIOUS
<1>1. lines \in Seq(Line) /\ DOMAIN lines = {} /\ Garbage \in Line
  BY GarbageIsALine DEF Init
<1>2. TypeOK
  <2>1. prev \in [Writers -> Nat] /\ seq \in [Writers -> Nat] /\ draft \in [Writers -> Line]
    BY <1>1 DEF Init, GENESIS
  <2>2. sealed \in 0 .. MaxRecords /\ faults \in 0 .. MaxFaults /\ damage \in Nat
    BY BoundsAssumption DEF Init
  <2> QED BY <1>1, <2>1, <2>2 DEF Init, TypeOK
<1>3. Drafts /\ LinesSpeak /\ ReadableIsComplete /\ DamageFirst /\ SoloIntact
  BY <1>1 DEF Init, Drafts, LinesSpeak, ReadableIsComplete, DamageFirst, SoloIntact, KnowsTail
<1> QED BY <1>2, <1>3 DEF Inv

LEMMA StepInv == Inv /\ [Next]_vars => Inv'
<1> SUFFICES ASSUME Inv, [Next]_vars PROVE Inv'
  OBVIOUS
<1>0. TypeOK /\ Drafts /\ SoloIntact /\ FileInv
  BY DEF Inv, FileInv
<1> USE <1>0
<1>1. ASSUME NEW w \in Writers, Open(w) PROVE Inv'
  BY <1>1, OpenTypes, OpenSolo, FileStays DEF Inv, FileInv, Open
<1>2. ASSUME NEW w \in Writers, Close(w) PROVE Inv'
  BY <1>2, CloseTypes, CloseSolo, FileStays DEF Inv, FileInv, Close, history
<1>3. ASSUME NEW w \in Writers, Seal(w) PROVE Inv'
  BY <1>3, SealTypes, SealSolo, FileStays DEF Inv, FileInv, Seal
<1>4. ASSUME NEW w \in Writers, SealFails(w) PROVE Inv'
  BY <1>4, SealFailsTypes, SealFailsSolo, FileStays DEF Inv, FileInv, SealFails
<1>5. ASSUME NEW w \in Writers, Load(w) PROVE Inv'
  BY <1>5, LoadTypes, LoadSolo, FileStays DEF Inv, FileInv, Load
<1>6. ASSUME NEW w \in Writers, Write(w) PROVE Inv'
  <2>1. draft[w] \in Line /\ draft[w].text # 0
    BY <1>6 DEF TypeOK, Drafts, Write
  <2>2. FileInv'
    BY <1>6, <2>1, FileAppended DEF Write
  <2> QED BY <1>6, <2>2, WriteTypes, WriteSolo DEF Inv, FileInv
<1>7. ASSUME NEW w \in Writers, NEW much \in {"nothing", "part", "newline", "full"},
             NEW survives \in BOOLEAN, WriteStops(w, much, survives)
      PROVE  Inv'
  <2>1. draft[w] \in Line /\ draft[w].text # 0
    BY <1>7 DEF TypeOK, Drafts, WriteStops
  <2>2. FileInv'
    BY <1>7, <2>1, FileAppended DEF WriteStops
  <2> QED BY <1>7, <2>2, WriteStopsTypes, WriteStopsSolo DEF Inv, FileInv
<1>8. ASSUME NEW k \in 1 .. Len(lines), Lose(k) \/ Swap(k) \/ Alter(k) PROVE Inv'
  BY <1>8, LoseKeeps, SwapKeeps, AlterKeeps
<1>9. CASE UNCHANGED vars
  <2>1. UNCHANGED <<file, acked, damage>> /\ UNCHANGED <<at, seq, prev, draft, sealed, alone, faulty, faults>>
    BY <1>9 DEF vars, process, history
  <2>2. FileInv' /\ TypeOK' /\ Drafts'
    BY <2>1, FileStays DEF TypeOK, Drafts, file
  <2>3. SoloIntact'
    BY <2>1 DEF SoloIntact, Solo, KnowsTail, Others, Continues, LastRead, file,
                Bad, Expected, Read, AsSealed
  <2> QED BY <2>2, <2>3 DEF Inv, FileInv
<1> QED BY <1>1, <1>2, <1>3, <1>4, <1>5, <1>6, <1>7, <1>8, <1>9 DEF Next

LEMMA SpecInv == Spec => []Inv
  BY InitInv, StepInv, PTL DEF Spec

-----------------------------------------------------------------------------
(* The theorems.                                                           *)

\* However many processes append, fail, are killed and start again on an audit file,
\* it keeps its type, and "chain intact" (verify_chain) means that no record whose
\* hash record_decision or append_manifest returned is missing.
THEOREM ChainIsConsistent == Spec => []ChainConsistent
<1>1. Inv => ChainConsistent
  BY IntactIsReadable DEF Inv, ReadableIsComplete, ChainConsistent, IntactIsComplete
<1> QED BY <1>1, SpecInv, PTL

\* One process at a time, over any number of restarts, kills that leave whole lines
\* and failed appends of a manifest, leaves a chain that verify_chain accepts: what
\* _recover_tail and load_manifests read is where the next process has to go on.
THEOREM AloneIsIntact == Spec => []AloneIntact
<1>1. Inv => AloneIntact
  BY FirstBadIsFirst DEF Inv, SoloIntact, Solo, AloneIntact
<1> QED BY <1>1, SpecInv, PTL

\* The first line that verify_chain refuses is the one that was lost, moved or
\* changed, however many processes appended to the file since.
THEOREM DamageIsPinpointed == Spec => []DamagePinpointed
<1>1. Inv => DamagePinpointed
  BY FirstBadIsFirst DEF Inv, DamageFirst, DamagePinpointed
<1> QED BY <1>1, SpecInv, PTL
=============================================================================
