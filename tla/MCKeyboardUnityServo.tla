------------------------ MODULE MCKeyboardUnityServo ------------------------
\* Instances of KeyboardUnityServo for TLC.  The robot has one position: where
\* it is plays no part in the input side.
EXTENDS KeyboardUnityServo
=============================================================================
