----------------------- MODULE MCRobotProgramWatchdog -----------------------
\* Instances of RobotProgramWatchdog for TLC.  One unit is 0.5 s, so the
\* defaults of the node are CheckPeriod 2, GateDebounce 2, FalseDebounce 3,
\* ServiceWait 1 and ResendCooldown 10.
EXTENDS RobotProgramWatchdog
=============================================================================
