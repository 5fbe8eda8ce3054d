---------------------------- MODULE SourceUpdate ----------------------------
(***************************************************************************)
(* What a repair run promises the owner of the source file: the file is    *)
(* replaced in one step, only by a revision that passed every gate; until  *)
(* the run accepts that revision it can be taken back in one step; and a   *)
(* text somebody else wrote meanwhile is never replaced.  The promise ends *)
(* when the run is disturbed in a way it cannot make good.                 *)
(***************************************************************************)
CONSTANTS
  Original,   \* the text the run started from
  Edits       \* texts somebody else may write into the file

VARIABLES
  gated,      \* the revisions that pass every configured gate
  source,     \* the text of the file
  verdict,    \* "open", "accepted", "unchanged", or "crashed"
  disturbed   \* something happened that ends the promise

vars == <<gated, source, verdict, disturbed>>

Init == source = Original /\ verdict = "open" /\ ~disturbed

Install == /\ verdict = "open" /\ source = Original
           /\ source' \in gated
           /\ UNCHANGED <<gated, verdict, disturbed>>

TakeBack == /\ verdict = "open" /\ source \in gated
            /\ source' = Original
            /\ UNCHANGED <<gated, verdict, disturbed>>

Accept == /\ verdict = "open" /\ source \in gated
          /\ verdict' = "accepted"
          /\ UNCHANGED <<gated, source, disturbed>>

\* The run gives up, or finds nothing to do.
Leave == /\ verdict = "open" /\ source \in Edits \cup {Original}
         /\ verdict' = "unchanged"
         /\ UNCHANGED <<gated, source, disturbed>>

Crash == /\ verdict = "open"
         /\ verdict' = "crashed"
         /\ UNCHANGED <<gated, source, disturbed>>

\* Somebody else writes the file.
Edit == /\ verdict = "open" /\ source \in Edits \cup {Original}
        /\ source' \in Edits
        /\ UNCHANGED <<gated, verdict, disturbed>>

Disturbed == disturbed'

Next == Disturbed \/ Install \/ TakeBack \/ Accept \/ Leave \/ Crash \/ Edit

Spec == Init /\ [][Next]_vars
=============================================================================
