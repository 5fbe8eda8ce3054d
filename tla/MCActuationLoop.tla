--------------------------- MODULE MCActuationLoop ---------------------------
(***************************************************************************)
(* Instances of ActuationLoop for TLC.                                     *)
(***************************************************************************)
EXTENDS ActuationLoop

CONSTANTS cubic, upperCubic, reno, vegas

MCAlgorithms == {cubic, upperCubic, reno, vegas}
MCLower == [c \in MCAlgorithms |-> IF c = upperCubic THEN cubic ELSE c]

\* The settings of an untouched machine, in the kernel's units.
MCInitial ==
  [target |-> 6000000, wakeup |-> 1000000, migration |-> 500000, swappiness |-> 60,
   dirty |-> 20, background |-> 10, queue |-> 1000, congestion |-> cubic]

\* Limits just met and just missed.
MCProposals ==
  {[queue |-> 5000, congestion |-> reno], [dirty |-> 10, background |-> 20]}
NoProposals == {}

Busy == {[util |-> u, memory |-> "ok", backlog |-> FALSE] : u \in {"low", "mid", "high"}}

\* Idle; in the deadband, short of memory; busy.
Days == {[util |-> "low", memory |-> "none", backlog |-> FALSE],
         [util |-> "mid", memory |-> "critical", backlog |-> TRUE],
         [util |-> "high", memory |-> "ok", backlog |-> TRUE]}

\* The administrator writes a setting no validator would let pass, in a file
\* that the loop writes, too.
OneOwner == {<<"swappiness", 200>>}
Nobody == {}
=============================================================================
