---------------------------- MODULE UnityPicture ----------------------------
(***************************************************************************)
(* What a bridge promises of one value, whatever carries it: the far side  *)
(* shows nothing, or a value that the near side had, and never one older   *)
(* than what it has shown before.  Values are numbered in the order in     *)
(* which the near side took them; 0 is "nothing" (UNKNOWN, a default).     *)
(***************************************************************************)
EXTENDS Naturals

VARIABLES
    now,     \* the value at its origin
    shown,   \* the value at the other side
    newest   \* the newest value ever shown there

vars == <<now, shown, newest>>

Init == now = 1 /\ shown = 0 /\ newest = 0

Changes == now' = now + 1 /\ UNCHANGED <<shown, newest>>
Forgets == shown' = 0 /\ UNCHANGED <<now, newest>>
Shows == shown' \in newest..now /\ newest' = shown' /\ UNCHANGED now

Spec == Init /\ [][Changes \/ Forgets \/ Shows]_vars
=============================================================================
