---------------------------- MODULE HashChainLog ----------------------------
(***************************************************************************)
(* The audit trails: JSON lines, each with the hash of the line before.    *)
(*                                                                         *)
(* "decisions": ProvenanceLogger of kernel/learned_kernel/telemetry/       *)
(* provenance.py, whose process reads the tail once, keeps it, and seals   *)
(* and appends one record per decision; ManifestLog of                     *)
(* kernel/virtual_kernel/provenance.py does the same with runs.            *)
(* "unified": append_manifest of virtual_computer/provenance.py, which     *)
(* reads the tail before every append.                                     *)
(*                                                                         *)
(* What a record says is a number no other record has, and so is its hash: *)
(* hashes do not collide, and a line is as it was sealed if the two agree. *)
(* The environment: several processes with the same file, a full disk, a   *)
(* process that is killed, and accidents to the lines of the file.         *)
(***************************************************************************)
EXTENDS Naturals, FiniteSets, SequencesExt

CONSTANTS
  Writers,      \* processes that use the file
  Logs,         \* which trails: "decisions", "unified"
  MaxRecords,   \* bound on the records sealed
  MaxFaults     \* bound on the faults

ASSUME WritersAssumption == IsFiniteSet(Writers)
ASSUME LogsAssumption == Logs \subseteq {"decisions", "unified"}
ASSUME BoundsAssumption == MaxRecords \in Nat /\ MaxFaults \in Nat

VARIABLES
  log,      \* which trail the file is
  lines,    \* the file
  torn,     \* how its last line ends: "no", "newline" (only that is missing), "part"
  at,       \* what a process does: "closed", "idle", "sealed"
  seq,      \* its _seq
  prev,     \* its _prev_hash
  draft,    \* the record it is about to append
  sealed,   \* how many records were sealed
  acked,    \* the records whose hash was returned to a caller
  alone,    \* never were two processes at the file at once
  faulty,   \* a fault left a gap in the numbers or a torn line
  damage,   \* the line an accident befell, or 0
  faults    \* faults so far

file == <<log, lines, torn>>
process == <<at, seq, prev, draft>>
history == <<sealed, acked, alone, faulty, damage, faults>>
vars == <<file, process, history>>

GENESIS == 0
Line == [seq : Nat, prev : Nat, text : Nat, hash : Nat]

\* A line that json.loads refuses.
Garbage == [seq |-> 0, prev |-> GENESIS, text |-> 0, hash |-> 0]

Sealed(n, p) == [seq |-> n, prev |-> p, text |-> sealed + 1, hash |-> sealed + 1]

Readable == Garbage \notin Range(lines)

Init ==
  /\ log \in Logs /\ lines = <<>> /\ torn = "no"
  /\ at = [w \in Writers |-> "closed"]
  /\ seq = [w \in Writers |-> 0] /\ prev = [w \in Writers |-> GENESIS]
  /\ draft = [w \in Writers |-> Garbage]
  /\ sealed = 0 /\ acked = {} /\ alone = TRUE /\ faulty = FALSE
  /\ damage = 0 /\ faults = 0

-----------------------------------------------------------------------------
(* verify_chain.                                                           *)

\* The lines that are read.  Faulty variant: those that cannot be are skipped.
ReadableLines == SelectSeq(lines, LAMBDA l : l # Garbage)
Read == lines

\* Is a line's content what was hashed?  Faulty variant: nobody looks.
AnyContent(l) == TRUE
AsSealed(l) == l.text = l.hash

Expected(k) == IF k = 1 THEN GENESIS ELSE Read[k - 1].hash

Bad(k) == \/ Read[k] = Garbage
          \/ log = "decisions" /\ Read[k].seq # k
          \/ Read[k].prev # Expected(k)
          \/ ~AsSealed(Read[k])

\* The first line that does not continue the chain; 0: "chain intact".
FirstBad == LET bad == {k \in DOMAIN Read : Bad(k)}
            IN  IF bad = {} THEN 0 ELSE Min(bad)

-----------------------------------------------------------------------------
(* Appending.                                                              *)

Others(w) == {v \in Writers \ {w} : at[v] # "closed"}

\* The number and hash a process continues from.  Faulty variant: of the first line.
FirstRead == IF lines = <<>> THEN Garbage ELSE Head(lines)
LastRead  == IF lines = <<>> THEN Garbage ELSE Last(lines)

\* _recover_tail.
Open(w) ==
  /\ log = "decisions" /\ at[w] = "closed" /\ Readable
  /\ at' = [at EXCEPT ![w] = "idle"]
  /\ seq' = [seq EXCEPT ![w] = LastRead.seq]
  /\ prev' = [prev EXCEPT ![w] = LastRead.hash]
  /\ alone' = (alone /\ Others(w) = {})
  /\ UNCHANGED <<file, draft, sealed, acked, faulty, damage, faults>>

\* The process ends, or is killed, between two records.
Close(w) ==
  /\ at[w] = "idle"
  /\ at' = [at EXCEPT ![w] = "closed"]
  /\ UNCHANGED <<file, seq, prev, draft, history>>

\* record_decision, until the file is opened.
Seal(w) ==
  /\ at[w] = "idle" /\ sealed < MaxRecords
  /\ at' = [at EXCEPT ![w] = "sealed"]
  /\ seq' = [seq EXCEPT ![w] = @ + 1]
  /\ draft' = [draft EXCEPT ![w] = Sealed(seq[w] + 1, prev[w])]
  /\ sealed' = sealed + 1
  /\ UNCHANGED <<file, prev, acked, alone, faulty, damage, faults>>

\* The record cannot be serialised: the number is used up.
SealFails(w) ==
  /\ at[w] = "idle" /\ faults < MaxFaults
  /\ seq' = [seq EXCEPT ![w] = @ + 1]
  /\ faults' = faults + 1 /\ faulty' = TRUE
  /\ UNCHANGED <<file, at, prev, draft, sealed, acked, alone, damage>>

\* append_manifest, until the file is opened to append.
Load(w) ==
  /\ log = "unified" /\ at[w] = "closed" /\ Readable /\ sealed < MaxRecords
  /\ at' = [at EXCEPT ![w] = "sealed"]
  /\ draft' = [draft EXCEPT ![w] = Sealed(0, LastRead.hash)]
  /\ sealed' = sealed + 1
  /\ alone' = (alone /\ Others(w) = {})
  /\ UNCHANGED <<file, seq, prev, acked, faulty, damage, faults>>

\* A line that is appended to one without its newline spoils both.
Spoiled(q) == Append(Front(q), Garbage)

\* So much of record r is appended to the file.
Appending(r, much) ==
  \/ much = "nothing" /\ UNCHANGED <<lines, torn>>
  \/ /\ much # "nothing" /\ torn # "no"
     /\ lines' = Spoiled(lines)
     /\ torn' = IF much = "full" THEN "no" ELSE "part"
  \/ /\ much \in {"full", "newline"} /\ torn = "no"
     /\ lines' = Append(lines, r)
     /\ torn' = IF much = "full" THEN "no" ELSE "newline"
  \/ much = "part" /\ torn = "no" /\ lines' = Append(lines, Garbage) /\ torn' = "part"

\* Where a process is after an append.
After == IF log = "decisions" THEN "idle" ELSE "closed"

Write(w) ==
  /\ at[w] = "sealed"
  /\ Appending(draft[w], "full")
  /\ at' = [at EXCEPT ![w] = After]
  /\ prev' = [prev EXCEPT ![w] = draft[w].hash]
  /\ acked' = acked \cup {draft[w].text}
  /\ UNCHANGED <<log, seq, draft, sealed, alone, faulty, damage, faults>>

\* The write fails or the process is killed in it; what was written stays.  A
\* process that goes on has used up a number and keeps the old hash.
WriteStops(w, much, survives) ==
  /\ at[w] = "sealed" /\ faults < MaxFaults
  /\ Appending(draft[w], much)
  /\ at' = [at EXCEPT ![w] = IF survives THEN After ELSE "closed"]
  /\ faults' = faults + 1
  /\ faulty' = \/ faulty
               \/ much \in {"part", "newline"}
               \/ survives /\ log = "decisions"
  /\ UNCHANGED <<log, seq, prev, draft, sealed, acked, alone, damage>>

-----------------------------------------------------------------------------
(* An accident to a file whose chain is intact and whose last line ends.   *)

Damage(k) ==
  /\ log = "decisions" /\ damage = 0 /\ faults < MaxFaults
  /\ torn = "no" /\ Readable /\ FirstBad = 0
  /\ damage' = k /\ faults' = faults + 1
  /\ UNCHANGED <<log, torn, process, sealed, acked, alone, faulty>>

\* A line, not the last, is lost; two lines change places; a line changes.
Lose(k) == k \in 1 .. Len(lines) - 1 /\ Damage(k) /\ lines' = RemoveAt(lines, k)

Swap(k) ==
  /\ k \in 1 .. Len(lines) - 1 /\ Damage(k)
  /\ lines' = [lines EXCEPT ![k] = lines[k + 1], ![k + 1] = lines[k]]

Alter(k) == k \in 1 .. Len(lines) /\ Damage(k) /\ lines' = [lines EXCEPT ![k].text = 0]

-----------------------------------------------------------------------------
Next ==
  \/ \E w \in Writers :
       \/ Open(w) \/ Close(w) \/ Seal(w) \/ SealFails(w) \/ Load(w) \/ Write(w)
       \/ \E much \in {"nothing", "part", "newline", "full"}, survives \in BOOLEAN :
            WriteStops(w, much, survives)
  \/ \E k \in 1 .. Len(lines) : Lose(k) \/ Swap(k) \/ Alter(k)

Spec == Init /\ [][Next]_vars

-----------------------------------------------------------------------------
(* Properties.                                                             *)

TypeOK ==
  /\ log \in Logs /\ lines \in Seq(Line) /\ torn \in {"no", "newline", "part"}
  /\ at \in [Writers -> {"closed", "idle", "sealed"}]
  /\ log = "unified" => \A w \in Writers : at[w] # "idle"
  /\ seq \in [Writers -> Nat] /\ prev \in [Writers -> Nat] /\ draft \in [Writers -> Line]
  /\ sealed \in 0 .. MaxRecords /\ acked \subseteq 1 .. sealed
  /\ alone \in BOOLEAN /\ faulty \in BOOLEAN
  /\ damage \in Nat /\ faults \in 0 .. MaxFaults
  /\ torn # "no" => lines # <<>>

\* One process at a time keeps the chain intact, over any number of restarts, of
\* kills between and in two appends that leave whole lines, and of failed
\* appends of a manifest: a new process continues where the last one stopped.
AloneIntact == alone /\ ~faulty /\ damage = 0 => FirstBad = 0

\* "chain intact" can be trusted when several processes append, writes fail and
\* processes die: no record whose hash a caller got is missing.
IntactIsComplete ==
  FirstBad = 0 /\ damage = 0 => acked \subseteq {lines[k].text : k \in DOMAIN lines}

\* The file and its processes keep their types, and an intact chain is complete.
ChainConsistent == TypeOK /\ IntactIsComplete

\* "verify_chain() pinpoints the first corrupted sequence number": the line that
\* was lost, moved or changed, whatever was appended since.
DamagePinpointed == damage # 0 => FirstBad = damage
=============================================================================
