----------------------------- MODULE KeyboardJog -----------------------------
(***************************************************************************)
(* keyboard_jog.py: which held keys count, and the twist they stand for.   *)
(* A twist maps every axis to a multiple of its step: the factors          *)
(* linear_step and angular_step are left out.  The string of held keys is  *)
(* the set of its characters, which is all held_keys_to_twist looks at.    *)
(***************************************************************************)
EXTENDS Integers

Axes == {"x", "y", "z", "rx", "ry", "rz"}
Positive == [x |-> "w", y |-> "a", z |-> "q", rx |-> "i", ry |-> "j", rz |-> "u"]
Negative == [x |-> "s", y |-> "d", z |-> "e", rx |-> "k", ry |-> "l", rz |-> "o"]
JogKeys == {"w", "s", "a", "d", "q", "e", "i", "k", "j", "l", "u", "o"}

NoTwist == [axis \in Axes |-> 0]

FilterHeldKeys(keys) == keys \cap JogKeys

Presses(key, keys) == IF key \in keys THEN 1 ELSE 0
HeldKeysToTwist(keys) ==
    [axis \in Axes |-> Presses(Positive[axis], keys) - Presses(Negative[axis], keys)]
=============================================================================
