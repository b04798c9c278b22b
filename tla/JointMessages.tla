--------------------------- MODULE JointMessages ---------------------------
(***************************************************************************)
(* The conversions of joint_state_bridge and joint_torque_bridge.  The     *)
(* driver names the joints of a message in an order of its own, with       *)
(* arrays that may be shorter than the names; Unity gets them in joint     *)
(* order, or not at all.  Units and header are left out.                   *)
(***************************************************************************)
EXTENDS Naturals, Sequences, FiniteSetsExt

CONSTANTS
    JointOrder,  \* joint_order
    Zero,        \* the reading 0.0
    Dropped      \* the result of a callback that publishes nothing

\* A JointState message: four arrays, of any lengths.
IsArray(array) == Len(array) \in Nat /\ DOMAIN array = 1..Len(array)
IsJointMessage(msg) ==
    /\ IsArray(msg.name)
    /\ IsArray(msg.position) /\ IsArray(msg.velocity) /\ IsArray(msg.effort)

ASSUME JointAssumption == JointOrder \in Seq(STRING) /\ Zero # Dropped

\* One of the dictionaries the callbacks fill: the last reading of a joint
\* that has one.
ByIndex(names, readings) ==  \* mutant: the driver's order taken for ours
    [j \in {JointOrder[i] : i \in DOMAIN JointOrder \cap DOMAIN readings} |->
        readings[CHOOSE i \in DOMAIN JointOrder : JointOrder[i] = j]]
ByName(names, readings) ==
    LET read == DOMAIN names \cap DOMAIN readings
    IN  [j \in {names[i] : i \in read} |-> readings[Max({i \in read : names[i] = j})]]

InOrder(map) ==
    [i \in DOMAIN JointOrder |->
        IF JointOrder[i] \in DOMAIN map THEN map[JointOrder[i]] ELSE Zero]
Complete(map) == Range(JointOrder) \subseteq DOMAIN map

\* What is published.
JointStateUnity(msg) ==
    [names |-> JointOrder,
     positions |-> InOrder(ByName(msg.name, msg.position)),
     velocities |-> InOrder(ByName(msg.name, msg.velocity)),
     efforts |-> InOrder(ByName(msg.name, msg.effort))]
JointTorqueUnity(msg) ==
    [names |-> JointOrder, torques_nm |-> InOrder(ByName(msg.name, msg.effort))]

\* The callbacks: a joint without the reading the topic is about ends them.
JointState(msg) ==
    IF Complete(ByName(msg.name, msg.position)) THEN JointStateUnity(msg) ELSE Dropped
JointTorque(msg) ==
    IF Complete(ByName(msg.name, msg.effort)) THEN JointTorqueUnity(msg) ELSE Dropped

-----------------------------------------------------------------------------
\* What one output array has to be: every reading is one that the message
\* gives under that name, and zero only stands for a joint it does not give.
Given(msg, readings, joint) ==
    {readings[i] : i \in {k \in DOMAIN msg.name \cap DOMAIN readings : msg.name[k] = joint}}
Faithful(msg, readings, output) ==
    \A i \in DOMAIN JointOrder :
        LET given == Given(msg, readings, JointOrder[i])
        IN  IF given = {} THEN output[i] = Zero ELSE output[i] \in given

\* No joint is shown another one's reading, whatever the order, the extra
\* joints and the missing readings of the message, and a message is dropped
\* exactly when some joint lacks the reading the topic is about.
ReadsByName(msg) ==
    LET lacking(readings) == \E j \in Range(JointOrder) : Given(msg, readings, j) = {}
        state == JointState(msg)
        torque == JointTorque(msg)
    IN  /\ (state = Dropped) <=> lacking(msg.position)
        /\ state # Dropped => /\ Faithful(msg, msg.position, state.positions)
                              /\ Faithful(msg, msg.velocity, state.velocities)
                              /\ Faithful(msg, msg.effort, state.efforts)
        /\ (torque = Dropped) <=> lacking(msg.effort)
        /\ torque # Dropped => Faithful(msg, msg.effort, torque.torques_nm)
=============================================================================
