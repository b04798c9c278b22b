--------------------------- MODULE DisplayPromise ---------------------------
(***************************************************************************)
(* What Unity's command display promises, without the hold machine: it     *)
(* only ever shows the latest motion sample, only while that sample is     *)
(* fresh, it is cleared within one display period of the sample going      *)
(* stale, and after a stop it shows nothing until the next sample.         *)
(***************************************************************************)
EXTENDS Integers

CONSTANTS
    Velocities,  \* nonzero twists
    Zero,        \* the zero twist
    None,        \* no sample
    Hold,        \* longest time a sample may be repeated
    Period,      \* display period
    Cap          \* bound on ages, above Hold + Period

VARIABLES
    shown,       \* what the display shows
    latest,      \* the sample that may be shown
    since        \* age of the latest sample

vars == <<shown, latest, since>>

Init ==
    /\ shown = Zero
    /\ latest = None
    /\ since = -1

Sample(v) ==
    /\ latest' = v
    /\ since' = 0
    /\ UNCHANGED shown

Show ==
    /\ latest # None
    /\ since <= Hold
    /\ shown' = latest
    /\ UNCHANGED <<latest, since>>

Stop ==
    /\ shown' = Zero
    /\ latest' = None
    /\ UNCHANGED since

\* Time may pass over a visible sample only up to the deadline.
Pass ==
    /\ shown # Zero => since < Hold + Period
    /\ since' = IF since = -1 \/ since = Cap THEN since ELSE since + 1
    /\ UNCHANGED <<shown, latest>>

Next ==
    \/ \E v \in Velocities : Sample(v)
    \/ Show
    \/ Stop
    \/ Pass

Spec == Init /\ [][Next]_vars
=============================================================================
