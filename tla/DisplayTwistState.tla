-------------------------- MODULE DisplayTwistState --------------------------
(***************************************************************************)
(* display_twist_state.py: the state machine that decides how long an      *)
(* intermittent nonzero twist stays on Unity's display.                    *)
(*                                                                         *)
(* The code stores the times of the first and of the last nonzero sample;  *)
(* the model stores their ages.  Never stands for the 0.0 of a reset       *)
(* machine, which no operation reads while the phase is "idle".            *)
(***************************************************************************)
EXTENDS Integers

CONSTANTS
    InitialHold,    \* initial_hold_s
    ActiveTimeout,  \* active_timeout_s
    AgeCap          \* bound: ages saturate here

ASSUME HoldAssumption ==
    /\ InitialHold \in Nat
    /\ ActiveTimeout \in Nat
    /\ AgeCap \in Nat
    /\ InitialHold < AgeCap
    /\ ActiveTimeout < AgeCap

VARIABLES
    phase,
    first_nonzero,  \* age of first_nonzero_s
    last_nonzero_s  \* age of last_nonzero_s

machine == <<phase, first_nonzero, last_nonzero_s>>

Never == -1
Readings == 0 .. AgeCap \cup {Never}
Older(age) == IF age = Never \/ age = AgeCap THEN age ELSE age + 1

MachineTypeOK ==
    /\ phase \in {"idle", "priming", "active"}
    /\ first_nonzero \in Readings
    /\ last_nonzero_s \in Readings

MachineInit ==
    /\ phase = "idle"
    /\ first_nonzero = Never
    /\ last_nonzero_s = Never

Displaying == phase # "idle"

ActiveNeverExpires ==  \* mutant
    phase = "priming" /\ first_nonzero > InitialHold
PrimingNeverExpires ==  \* mutant
    phase = "active" /\ last_nonzero_s > ActiveTimeout
HasExpired ==
    \/ phase = "priming" /\ first_nonzero > InitialHold
    \/ phase = "active" /\ last_nonzero_s > ActiveTimeout

\* observe_nonzero: an expired machine is reset first, and then primed.
Starts == phase = "idle" \/ HasExpired
AlwaysPriming == "priming"  \* mutant
PhaseAfterSample == IF Starts THEN "priming" ELSE "active"

ObserveNonzero ==
    /\ phase' = PhaseAfterSample
    /\ first_nonzero' = IF Starts THEN 0 ELSE first_nonzero
    /\ last_nonzero_s' = 0

Reset ==
    /\ phase' = "idle"
    /\ first_nonzero' = Never
    /\ last_nonzero_s' = Never

\* The machine while time passes.
MachineAges ==
    /\ first_nonzero' = Older(first_nonzero)
    /\ last_nonzero_s' = Older(last_nonzero_s)
    /\ UNCHANGED phase
=============================================================================
