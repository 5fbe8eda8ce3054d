---------------------------- MODULE AtomicTuning ----------------------------
(***************************************************************************)
(* What the learned kernel promises the machine it tunes: its settings     *)
(* change by whole batches, each of which is safe, or not at all.  A       *)
(* process that is killed may leave a part of a safe batch behind.  The    *)
(* promise ends when the loop is disturbed in a way it cannot make good.   *)
(***************************************************************************)
CONSTANTS
  Start,      \* the settings found
  Batches,    \* the safe batches: functions from some knobs to settings
  Owner       \* what the administrator may set: pairs <<knob, setting>>

VARIABLES
  settings,   \* the value of every knob
  running,    \* is the loop alive?
  disturbed   \* something happened that ends the promise

vars == <<settings, running, disturbed>>

\* The settings with batch b over them.
With(b) == [k \in DOMAIN settings |-> IF k \in DOMAIN b THEN b[k] ELSE settings[k]]

\* What b sets on the knobs of K.
Part(b, K) == [k \in K |-> b[k]]

Init == settings = Start /\ running = TRUE /\ ~disturbed

Tune == /\ running
        /\ \E b \in Batches : settings' = With(b)
        /\ UNCHANGED <<running, disturbed>>

Set == /\ \E o \in Owner : settings' = [settings EXCEPT ![o[1]] = o[2]]
       /\ UNCHANGED <<running, disturbed>>

Stop == /\ running
        /\ running' = FALSE
        /\ UNCHANGED disturbed
        /\ \/ UNCHANGED settings
           \/ \E b \in Batches : \E K \in SUBSET DOMAIN b : settings' = With(Part(b, K))

Disturbed == disturbed'

Next == Disturbed \/ Tune \/ Set \/ Stop

Spec == Init /\ [][Next]_vars
=============================================================================
