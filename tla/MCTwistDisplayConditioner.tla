---------------------- MODULE MCTwistDisplayConditioner ----------------------
\* Instances of TwistDisplayConditioner for TLC.  One unit is about 0.13 s:
\* initial_hold_s (0.65) is 5 units and active_timeout_s (0.25) is 2.
EXTENDS TwistDisplayConditioner

CONSTANTS left, right
=============================================================================
