---------------------- MODULE KeyboardUnityServoProofs ----------------------
(***************************************************************************)
(* The input loop composed with the routines, for every set of keys, every *)
(* configuration of home and all faults of the routines: the loop runs the *)
(* routines as MotionSwitch has them, and after x the arm stays still      *)
(* until Unity sends a held key.                                           *)
(***************************************************************************)
EXTENDS KeyboardUnityServo, MotionSwitchProofs

-----------------------------------------------------------------------------
(* The routines inside the loop.                                           *)

LEMMA LoopLeavesMotion ==
    ASSUME \/ \E keys \in SUBSET UnityKeys : OperatorHolds(keys)
           \/ \E action \in UnityActions \cup {""} : UnitySends(action)
           \/ PublishDue
           \/ OnKeys
           \/ SpinEnds \/ ActionsDone \/ PublishTick \/ NotDueYet
           \/ DispatchStop \/ DispatchStopAndClear \/ DispatchHomePose
           \/ \E action \in {"r", "z"} : DispatchRecord(action)
           \/ Interrupted
    PROVE  UNCHANGED motionVars
BY DEF OperatorHolds, UnitySends, PublishDue, OnKeys, SpinEnds, ActionsDone, PublishTick,
   NotDueYet, DispatchStop, DispatchStopAndClear, DispatchHomePose, DispatchRecord,
   Interrupted

\* Whatever the loop does, to the routines it is a step of MotionSwitch or
\* nothing: no key, queue or interrupt touches what they work on.
LEMMA StepIsMotion == [Next]_vars => [MotionNext]_motionVars
<1> SUFFICES ASSUME [Next]_vars PROVE [MotionNext]_motionVars
    OBVIOUS
<1>1. CASE DispatchHome \/ DispatchToggle
    BY <1>1 DEF DispatchHome, DispatchToggle, MotionNext
<1>2. CASE Routine \/ World
    BY <1>2 DEF Routine, World, MotionNext
<1>3. CASE UNCHANGED vars
    BY <1>3 DEF vars
<1> QED BY <1>1, <1>2, <1>3, LoopLeavesMotion DEF Next, LoopStep, Dispatch

\* The composition implements the routines on their own, so what is proved of
\* them holds of the whole node (the main loop, lines 815-830, against the
\* routines, lines 412-516).
THEOREM ImplementsMotion == Spec => MotionSpec
<1>1. Init => MotionInit
    BY DEF Init
<1> QED BY <1>1, StepIsMotion, PTL DEF Spec, MotionSpec

\* With keys arriving, queues overflowing and Ctrl-C at any call, the home goal
\* is sent and waited for only under the trajectory controller, and MoveIt Servo
\* seeded, reset and started only under the servo controller.
THEOREM RoutinesInLoop == Spec => [](GoalUnderTrajectory /\ StartedUnderServo)
BY ImplementsMotion, GoalTheorem, StartTheorem, PTL

-----------------------------------------------------------------------------
(* Types, bounds and the place of the routines in the loop.                *)

\* What TypeOK says of the input side alone.
InputTypeOK ==
    /\ holding \subseteq UnityKeys
    /\ wire \in Seq(Message) /\ Len(wire) <= QueueDepth
    /\ held_keys \subseteq UnityKeys \cap JogKeys
    /\ pending \in Seq(ActionKeys) /\ Len(pending) <= MaxPending
    /\ command.control_mode \in {"IDLE", "CARTESIAN_TWIST", "CARTESIAN_POSE"}
    /\ home_pose \in {"joints", "set", None}
    /\ due \in BOOLEAN
    /\ cleared \in BOOLEAN

\* A routine blocks the loop at its actions; only Ctrl-C ends it there.
InRoutine ==
    /\ loop \in {"spin", "actions", "publish", "ended"}
    /\ pc # "idle" => loop \in {"actions", "ended"}

LEMMA RoutineKeeps == InRoutine /\ [Next]_vars => InRoutine'
<1> SUFFICES ASSUME InRoutine, [Next]_vars PROVE InRoutine'
    OBVIOUS
<1>1. CASE DispatchHome \/ DispatchToggle
    BY <1>1 DEF DispatchHome, DispatchToggle, Takes, InRoutine
<1>2. CASE Routine
    BY <1>2 DEF Routine, input, InRoutine
<1>3. CASE World
  <2>1. UNCHANGED <<pc, loop>>
      BY <1>3 DEF World, input, WorldStep, ServoMoves, ExternalMotion, ServoFollows,
         OnJointState, ServerDies, ServerRestarts, LateRequest, node
  <2> QED BY <2>1 DEF InRoutine
<1>4. CASE UNCHANGED vars
    BY <1>4 DEF vars, motionVars, node, input, InRoutine
<1>5. CASE OnKeys \/ Interrupted
  <2>1. UNCHANGED pc /\ (loop' = "ended" \/ loop' = AfterCallback)
      BY <1>5, LoopLeavesMotion DEF OnKeys, Interrupted, motionVars, node
  <2> QED BY <2>1 DEF InRoutine, AfterCallback
<1>6. CASE \/ \E keys \in SUBSET UnityKeys : OperatorHolds(keys)
           \/ \E action \in UnityActions \cup {""} : UnitySends(action)
           \/ PublishDue
           \/ DispatchStop \/ DispatchStopAndClear \/ DispatchHomePose
           \/ \E action \in {"r", "z"} : DispatchRecord(action)
  <2>1. UNCHANGED pc
      BY <1>6, LoopLeavesMotion DEF motionVars, node
  <2>2. UNCHANGED loop
      BY <1>6 DEF OperatorHolds, UnitySends, PublishDue, DispatchStop,
         DispatchStopAndClear, DispatchHomePose, DispatchRecord
  <2> QED BY <2>1, <2>2 DEF InRoutine
<1>7. CASE SpinEnds \/ ActionsDone \/ PublishTick \/ NotDueYet
  <2>1. UNCHANGED pc
      BY <1>7, LoopLeavesMotion DEF motionVars, node
  <2>2. pc = "idle"
      BY <1>7 DEF SpinEnds, ActionsDone, PublishTick, NotDueYet, InRoutine
  <2>3. loop' \in {"spin", "actions", "publish"}
      BY <1>7 DEF SpinEnds, ActionsDone, PublishTick, NotDueYet
  <2> QED BY <2>1, <2>2, <2>3 DEF InRoutine
<1> QED BY <1>1, <1>2, <1>3, <1>4, <1>5, <1>6, <1>7 DEF Next, LoopStep, Dispatch

\* The subscription's queue keeps to its depth and to what Unity sent.
LEMMA KeepLastBounded ==
    ASSUME wire \in Seq(Message), Len(wire) <= QueueDepth, NEW msg \in Message
    PROVE  KeepLast(wire, msg) \in Seq(Message) /\ Len(KeepLast(wire, msg)) <= QueueDepth
<1>1. CASE Len(wire) < QueueDepth
  <2>1. Append(wire, msg) \in Seq(Message) /\ Len(Append(wire, msg)) = Len(wire) + 1
      OBVIOUS
  <2> QED BY <1>1, <2>1, InputAssumption DEF KeepLast
<1>2. CASE ~(Len(wire) < QueueDepth)
  <2>1. Len(wire) \in Nat /\ wire # <<>>
      BY <1>2, InputAssumption
  <2>2. Tail(wire) \in Seq(Message) /\ Len(Tail(wire)) = Len(wire) - 1
      BY <2>1
  <2>3. /\ Append(Tail(wire), msg) \in Seq(Message)
        /\ Len(Append(Tail(wire), msg)) = Len(Tail(wire)) + 1
      BY <2>2
  <2> QED BY <1>2, <2>1, <2>2, <2>3, InputAssumption DEF KeepLast
<1> QED BY <1>1, <1>2

LEMMA UnitySendsKeeps ==
    ASSUME InputTypeOK, NEW action \in UnityActions \cup {""}, UnitySends(action)
    PROVE  InputTypeOK'
<1>1. action \in ActionKeys \cup {""}
    BY DEF UnityActions, ActionKeys
<1>2. [held_keys |-> holding, action_key |-> action] \in Message
    BY <1>1 DEF InputTypeOK, Message
<1>3. wire' \in Seq(Message) /\ Len(wire') <= QueueDepth
    BY <1>2, KeepLastBounded DEF InputTypeOK, UnitySends
<1> QED BY <1>3 DEF InputTypeOK, UnitySends

\* on_keys: what it keeps of a message are jog keys, and the action it queues
\* is one of Unity's.
LEMMA OnKeysKeeps == ASSUME InputTypeOK, OnKeys PROVE InputTypeOK'
<1> DEFINE msg == Head(wire)
<1>1. /\ msg \in Message /\ wire # <<>>
      /\ wire' = Tail(wire) /\ wire' \in Seq(Message) /\ Len(wire') = Len(wire) - 1
      /\ Len(wire) \in Nat
  <2>1. wire \in Seq(Message) /\ wire # <<>> /\ wire' = Tail(wire)
      BY DEF InputTypeOK, OnKeys
  <2>2. /\ Head(wire) \in Message /\ Tail(wire) \in Seq(Message)
        /\ Len(Tail(wire)) = Len(wire) - 1 /\ Len(wire) \in Nat
      BY <2>1
  <2> QED BY <2>1, <2>2
<1>2. Len(wire') <= QueueDepth
    BY <1>1, InputAssumption DEF InputTypeOK
<1>3. held_keys' \subseteq UnityKeys \cap JogKeys
    BY <1>1 DEF OnKeys, Message, FilterHeldKeys
<1>4. pending' \in Seq(ActionKeys) /\ Len(pending') <= MaxPending
  <2>1. CASE msg.action_key = ""
      BY <2>1 DEF InputTypeOK, OnKeys, Queued
  <2>2. CASE msg.action_key # ""
    <3>1. msg.action_key \in ActionKeys
        BY <1>1, <2>2 DEF Message
    <3>2. pending' = Append(pending, msg.action_key) /\ Len(pending) < MaxPending
        BY <2>2 DEF OnKeys, Queued
    <3>3. /\ Append(pending, msg.action_key) \in Seq(ActionKeys)
          /\ Len(Append(pending, msg.action_key)) = Len(pending) + 1
          /\ Len(pending) \in Nat
        BY <3>1 DEF InputTypeOK
    <3> QED BY <3>2, <3>3, InputAssumption
  <2> QED BY <2>1, <2>2
<1>5. cleared' \in BOOLEAN
  <2> DEFINE still == cleared /\ held_keys' = {}
  <2>1. cleared' = still /\ still \in BOOLEAN
      BY DEF OnKeys
  <2> HIDE DEF still
  <2> QED BY <2>1
<1> HIDE DEF msg
<1> QED BY <1>1, <1>2, <1>3, <1>4, <1>5 DEF InputTypeOK, OnKeys

LEMMA TakesKeeps ==
    ASSUME InputTypeOK, NEW action, Takes(action)
    PROVE  pending' \in Seq(ActionKeys) /\ Len(pending') <= MaxPending
<1>1. pending # <<>> /\ pending' = Tail(pending)
    BY DEF Takes
<1>2. Tail(pending) \in Seq(ActionKeys) /\ Len(Tail(pending)) = Len(pending) - 1
      /\ Len(pending) \in Nat
    BY <1>1 DEF InputTypeOK
<1> QED BY <1>1, <1>2, InputAssumption DEF InputTypeOK

LEMMA DispatchKeeps == ASSUME InputTypeOK, Dispatch PROVE InputTypeOK'
<1>1. pending' \in Seq(ActionKeys) /\ Len(pending') <= MaxPending
    BY TakesKeeps DEF Dispatch, DispatchStop, DispatchStopAndClear, DispatchHome,
       DispatchHomePose, DispatchToggle, DispatchRecord
<1>2. CASE DispatchStop
    BY <1>1, <1>2 DEF DispatchStop, Idle, InputTypeOK
<1>3. CASE DispatchStopAndClear
    BY <1>1, <1>3 DEF DispatchStopAndClear, Idle, HeldAfterClear, InputTypeOK
<1>4. CASE DispatchHome \/ DispatchToggle
    BY <1>1, <1>4 DEF DispatchHome, DispatchToggle, InputTypeOK
<1>5. CASE DispatchHomePose
    BY <1>1, <1>5 DEF DispatchHomePose, HomePose, InputTypeOK
<1>6. CASE \E action \in {"r", "z"} : DispatchRecord(action)
    BY <1>1, <1>6 DEF DispatchRecord, InputTypeOK
<1> QED BY <1>2, <1>3, <1>4, <1>5, <1>6 DEF Dispatch

LEMMA InterruptedKeeps == ASSUME InputTypeOK, Interrupted PROVE InputTypeOK'
<1>1. wire' = <<>> /\ pending' = <<>> /\ Len(<<>>) = 0
    BY DEF Interrupted
<1>2. command'.control_mode \in {"IDLE", "CARTESIAN_TWIST", "CARTESIAN_POSE"}
    BY DEF Interrupted, Idle, InputTypeOK
<1>3. wire' \in Seq(Message) /\ pending' \in Seq(ActionKeys)
    BY <1>1
<1>4. due' \in BOOLEAN /\ cleared' \in BOOLEAN
    BY DEF Interrupted
<1> QED BY <1>1, <1>2, <1>3, <1>4, InputAssumption DEF Interrupted, InputTypeOK

LEMMA InputKeeps == InputTypeOK /\ [Next]_vars => InputTypeOK'
<1> SUFFICES ASSUME InputTypeOK, [Next]_vars PROVE InputTypeOK'
    OBVIOUS
<1>1. CASE \E keys \in SUBSET UnityKeys : OperatorHolds(keys)
    BY <1>1 DEF OperatorHolds, InputTypeOK
<1>2. CASE PublishDue
  <2>1. due' \in BOOLEAN
      BY <1>2 DEF PublishDue
  <2> QED BY <1>2, <2>1 DEF PublishDue, InputTypeOK
<1>3. CASE SpinEnds \/ ActionsDone \/ NotDueYet
    BY <1>3 DEF SpinEnds, ActionsDone, NotDueYet, InputTypeOK
<1>4. CASE PublishTick
  <2>1. due' \in BOOLEAN
      BY <1>4 DEF PublishTick
  <2> QED BY <1>4, <2>1 DEF PublishTick, InputTypeOK
<1>5. CASE Routine \/ World \/ UNCHANGED vars
    BY <1>5 DEF Routine, World, vars, input, InputTypeOK
<1> QED BY <1>1, <1>2, <1>3, <1>4, <1>5, UnitySendsKeeps, OnKeysKeeps, DispatchKeeps,
    InterruptedKeeps DEF Next, LoopStep

\* Every variable has its type, both queues keep to their bounds, and a routine
\* runs only where the loop dispatches its actions, in every configuration.
THEOREM ServoTypeCorrect == Spec => []TypeOK
<1>1. Init => InputTypeOK /\ InRoutine
  <2> SUFFICES ASSUME Init PROVE InputTypeOK /\ InRoutine
      OBVIOUS
  <2>1. wire \in Seq(Message) /\ pending \in Seq(ActionKeys) /\ Len(<<>>) = 0
      BY DEF Init
  <2>2. due \in BOOLEAN /\ cleared \in BOOLEAN
      BY DEF Init
  <2> QED BY <2>1, <2>2, InputAssumption DEF Init, MotionInit, Idle, InputTypeOK, InRoutine
<1>2. MotionTypeOK /\ InputTypeOK /\ InRoutine => TypeOK
    BY DEF InputTypeOK, InRoutine, TypeOK
<1> QED BY <1>1, <1>2, InputKeeps, RoutineKeeps, ImplementsMotion, TypeCorrect, PTL DEF Spec

-----------------------------------------------------------------------------
(* The keys that were held before an x.                                    *)

\* The twist alone is not inductive: the next tick reads held_keys.
ClearInv == cleared => held_keys = {} /\ command.twist = NoTwist

\* With no key held no axis is pressed.
LEMMA NoKeysNoTwist == HeldKeysToTwist({}) = NoTwist
BY DEF HeldKeysToTwist, Presses, NoTwist

LEMMA ClearKeeps == ClearInv /\ [Next]_vars => ClearInv'
<1> SUFFICES ASSUME ClearInv, [Next]_vars PROVE ClearInv'
    OBVIOUS
<1>1. CASE \/ \E keys \in SUBSET UnityKeys : OperatorHolds(keys)
           \/ \E action \in UnityActions \cup {""} : UnitySends(action)
           \/ PublishDue
  <2>1. UNCHANGED <<cleared, held_keys, command>>
      BY <1>1 DEF OperatorHolds, UnitySends, PublishDue
  <2> QED BY <2>1 DEF ClearInv
<1>2. CASE OnKeys
  <2>1. cleared' => cleared /\ held_keys' = {} /\ command' = command
      BY <1>2 DEF OnKeys
  <2> QED BY <2>1 DEF ClearInv
<1>10. CASE Interrupted
  <2>1. cleared' = FALSE
      BY <1>10 DEF Interrupted
  <2> QED BY <2>1 DEF ClearInv
<1>3. CASE SpinEnds \/ ActionsDone \/ NotDueYet
    BY <1>3 DEF ClearInv, SpinEnds, ActionsDone, NotDueYet
<1>4. CASE DispatchStop \/ DispatchStopAndClear
  <2>1. command' = Idle
      BY <1>4 DEF DispatchStop, DispatchStopAndClear
  <2>2. held_keys' = {} \/ UNCHANGED <<held_keys, cleared>>
      BY <1>4 DEF DispatchStop, DispatchStopAndClear, HeldAfterClear
  <2> QED BY <2>1, <2>2 DEF ClearInv, Idle
<1>5. CASE DispatchHome \/ DispatchToggle \/ \E action \in {"r", "z"} : DispatchRecord(action)
    BY <1>5 DEF ClearInv, DispatchHome, DispatchToggle, DispatchRecord
<1>6. CASE DispatchHomePose
    BY <1>6 DEF ClearInv, DispatchHomePose, HomePose
<1>7. CASE PublishTick
    BY <1>7, NoKeysNoTwist DEF ClearInv, PublishTick, TickTwist
<1>8. CASE Routine \/ World
    BY <1>8 DEF ClearInv, Routine, World, input
<1>9. CASE UNCHANGED vars
    BY <1>9 DEF ClearInv, vars, input
<1> QED BY <1>1, <1>2, <1>3, <1>4, <1>5, <1>6, <1>7, <1>8, <1>9, <1>10
    DEF Next, LoopStep, Dispatch

\* No publication of the loop, however delayed by routines, revives the keys
\* that were held before the x.
THEOREM ClearedTheorem == Spec => []ClearedStaysClear
<1>1. Init => ClearInv
    BY DEF Init, ClearInv
<1>2. ClearInv => ClearedStaysClear
    BY DEF ClearInv, ClearedStaysClear
<1> QED BY <1>1, <1>2, ClearKeeps, PTL DEF Spec
=============================================================================
