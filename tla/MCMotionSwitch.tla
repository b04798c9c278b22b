--------------------------- MODULE MCMotionSwitch ---------------------------
\* Instances of MotionSwitch for TLC: home and two other positions.
EXTENDS MotionSwitch

CONSTANTS p1, p2
=============================================================================
