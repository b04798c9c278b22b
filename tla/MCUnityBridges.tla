--------------------------- MODULE MCUnityBridges ---------------------------
\* Instances of UnityBridges and JointMessages for TLC: every channel, and on
\* the joint channels messages of every irregular kind.
EXTENDS UnityBridges

AllChannels == Latched \cup Streamed \cup Joints \cup Mirrored \cup Polled \cup Toggle
TwoJoints == <<"pan", "lift">>

\* The driver's order, another one, a joint of no interest, one named twice, one
\* missing; readings tell their array and their place.
Readings(array, lengths) == {[i \in 1..k |-> <<array, i>>] : k \in lengths}
JointMessage ==
    [name : {<<"pan", "lift">>, <<"lift", "pan">>, <<"lift", "gripper", "pan">>,
             <<"pan", "lift", "pan">>, <<"lift", "gripper">>},
     position : Readings("position", {1, 3}),
     velocity : Readings("velocity", {0, 3}),
     effort : Readings("effort", {0, 3})]
=============================================================================
