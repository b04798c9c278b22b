------------------------ MODULE MCRtdeTorqueSource ------------------------
\* Instances of RtdeTorqueSource for TLC.
EXTENDS RtdeTorqueSource
=============================================================================
