------------------------- MODULE KeyboardUnityServo -------------------------
(***************************************************************************)
(* keyboard_unity_servo_ros2unity.py, the input side: Unity's key messages,*)
(* the queue of action keys, the manual main loop and the commands it      *)
(* publishes, composed with the blocking routines of MotionSwitch.         *)
(*                                                                         *)
(* The loop is one thread: spin_once (at most one callback), then all      *)
(* queued actions, then the periodic publish.  While an action blocks in   *)
(* one of its calls, nested spins still run on_keys, and nothing else of   *)
(* the loop.                                                               *)
(*                                                                         *)
(* Unity is external: it sends the keys held now again and again, and an   *)
(* action key once.                                                        *)
(***************************************************************************)
EXTENDS MotionSwitch, KeyboardJog, Sequences

CONSTANTS
    UnityKeys,     \* keys the operator uses, jog keys and others
    JointsActions, \* action keys the operator uses when home is given as joints
    PoseActions,   \* and when it is given as a pose or not at all
    QueueDepth,    \* bound: depth of the keys subscription (10 in the code)
    MaxPending     \* bound: length of _pending_actions, unbounded in the code

ActionKeys == JointsActions \cup PoseActions

ASSUME InputAssumption ==
    /\ ActionKeys \subseteq {"space", "x", "h", "c", "r", "z"}
    /\ QueueDepth \in Nat \ {0}
    /\ MaxPending \in Nat \ {0}

VARIABLES
    holding,    \* keys the operator really holds
    wire,       \* the subscription's queue of key messages
    held_keys,
    pending,    \* _pending_actions
    command,    \* the last TeleopCommand
    loop,       \* "spin", "actions", "publish", or "ended" by Ctrl-C
    due,        \* now >= next_publish
    cleared,    \* observer: an x was executed and no held key has come since
    home_pose   \* "joints" when home joints take its place, "set" or None

input == <<holding, wire, held_keys, pending, command, loop, due, cleared, home_pose>>
vars == <<motionVars, input>>

Idle == [control_mode |-> "IDLE", twist |-> NoTwist]
Message == [held_keys : SUBSET UnityKeys, action_key : ActionKeys \cup {""}]

Init ==
    /\ MotionInit
    /\ holding = {}
    /\ wire = <<>>
    /\ held_keys = {}
    /\ pending = <<>>
    /\ command = Idle
    /\ loop = "spin"
    /\ due = FALSE
    /\ cleared = FALSE
    /\ home_pose \in {"joints", "set", None}

-----------------------------------------------------------------------------
(* Unity and the clock.                                                    *)

OperatorHolds(keys) ==
    /\ keys # holding
    /\ holding' = keys
    /\ UNCHANGED <<motionVars, wire, held_keys, pending, command, loop, due, cleared, home_pose>>

KeepOneMore(queue, msg) ==  \* mutant: the depth is off by one
    IF Len(queue) <= QueueDepth THEN Append(queue, msg)
    ELSE Append(Tail(queue), msg)

\* KEEP_LAST: a full queue loses its oldest message, with its action key.
KeepLast(queue, msg) ==
    IF Len(queue) < QueueDepth THEN Append(queue, msg)
    ELSE Append(Tail(queue), msg)

UnityActions == IF home_pose = "joints" THEN JointsActions ELSE PoseActions

UnitySends(action) ==
    /\ loop # "ended"
    /\ wire' = KeepLast(wire, [held_keys |-> holding, action_key |-> action])
    /\ UNCHANGED <<motionVars, holding, held_keys, pending, command, loop, due, cleared, home_pose>>

PublishDue ==
    /\ ~due
    /\ loop # "ended"
    /\ due' = TRUE
    /\ UNCHANGED <<motionVars, holding, wire, held_keys, pending, command, loop, cleared, home_pose>>

-----------------------------------------------------------------------------
(* The node.                                                               *)

\* A callback runs in the loop's own spin_once and in the spins of a routine.
Spinning == loop = "spin" \/ (loop = "actions" /\ pc # "idle")
AfterCallback == IF loop = "spin" THEN "actions" ELSE loop

Queued(action) == IF action = "" THEN pending ELSE Append(pending, action)

OnKeys ==
    /\ Spinning
    /\ wire # <<>>
    /\ Head(wire).action_key # "" => Len(pending) < MaxPending
    /\ held_keys' = FilterHeldKeys(Head(wire).held_keys)
    /\ pending' = Queued(Head(wire).action_key)
    /\ wire' = Tail(wire)
    /\ loop' = AfterCallback
    /\ cleared' = (cleared /\ held_keys' = {})
    /\ UNCHANGED <<motionVars, holding, command, due, home_pose>>

\* spin_once ends by its timeout or with an observation (on_observation).
SpinEnds ==
    /\ loop = "spin"
    /\ loop' = "actions"
    /\ UNCHANGED <<motionVars, holding, wire, held_keys, pending, command, due, cleared, home_pose>>

\* process_pending_actions and _dispatch_action: one action to its end, then
\* the next.
Takes(action) ==
    /\ loop = "actions"
    /\ pc = "idle"
    /\ pending # <<>>
    /\ Head(pending) = action
    /\ pending' = Tail(pending)

StopNotPublished ==  \* mutant
    /\ Takes("space")
    /\ UNCHANGED <<motionVars, holding, wire, held_keys, command, loop, due, cleared, home_pose>>

DispatchStop ==
    /\ Takes("space")
    /\ command' = Idle
    /\ UNCHANGED <<motionVars, holding, wire, held_keys, loop, due, cleared, home_pose>>

KeysKept == held_keys  \* mutant
HeldAfterClear == {}
DispatchStopAndClear ==
    /\ Takes("x")
    /\ held_keys' = HeldAfterClear
    /\ command' = Idle
    /\ cleared' = TRUE
    /\ UNCHANGED <<motionVars, holding, wire, loop, due, home_pose>>

DispatchHome ==
    /\ Takes("h")
    /\ home_pose = "joints"
    /\ BeginHome
    /\ UNCHANGED <<holding, wire, held_keys, command, loop, due, cleared, home_pose>>

HomePose == [control_mode |-> "CARTESIAN_POSE", twist |-> NoTwist]
DispatchHomePose ==
    /\ Takes("h")
    /\ home_pose # "joints"
    /\ command' = IF home_pose = None THEN command ELSE HomePose
    /\ UNCHANGED <<motionVars, holding, wire, held_keys, loop, due, cleared, home_pose>>

\* r and z need a current_pose younger than current_pose_timeout_s, which is up
\* to the observations; zero_pose (z) is never read.
DispatchRecord(action) ==
    /\ Takes(action)
    /\ \E fresh \in BOOLEAN :
           home_pose' = IF action = "r" /\ fresh THEN "set" ELSE home_pose
    /\ UNCHANGED <<motionVars, holding, wire, held_keys, command, loop, due, cleared>>

DispatchToggle ==
    /\ Takes("c")
    /\ BeginToggle
    /\ UNCHANGED <<holding, wire, held_keys, command, loop, due, cleared, home_pose>>

ActionsContinue ==  \* mutant: the loop skips its publish
    /\ loop = "actions"
    /\ pc = "idle"
    /\ pending = <<>>
    /\ loop' = "spin"
    /\ UNCHANGED <<motionVars, holding, wire, held_keys, pending, command, due, cleared, home_pose>>

ActionsDone ==
    /\ loop = "actions"
    /\ pc = "idle"
    /\ pending = <<>>
    /\ loop' = "publish"
    /\ UNCHANGED <<motionVars, holding, wire, held_keys, pending, command, due, cleared, home_pose>>

\* publish_tick, when the period has passed.
TwistKeptOnRelease ==  \* mutant: no zero twist for no keys
    IF held_keys = {} THEN command.twist ELSE HeldKeysToTwist(held_keys)
TickTwist == HeldKeysToTwist(held_keys)

PublishTick ==
    /\ loop = "publish"
    /\ due
    /\ command' = [control_mode |-> "CARTESIAN_TWIST", twist |-> TickTwist]
    /\ due' = FALSE
    /\ loop' = "spin"
    /\ UNCHANGED <<motionVars, holding, wire, held_keys, pending, cleared, home_pose>>

NotDueYet ==
    /\ loop = "publish"
    /\ ~due
    /\ loop' = "spin"
    /\ UNCHANGED <<motionVars, holding, wire, held_keys, pending, command, due, cleared, home_pose>>

\* Ctrl-C anywhere in the loop.  rclpy shuts its context down by itself, so the
\* last IDLE may come too late to be sent.
Interrupted ==
    /\ loop # "ended"
    /\ loop' = "ended"
    /\ command' \in {Idle, command}
    /\ wire' = <<>>
    /\ held_keys' = {}
    /\ pending' = <<>>
    /\ due' = FALSE
    /\ cleared' = FALSE
    /\ UNCHANGED <<motionVars, holding, home_pose>>

-----------------------------------------------------------------------------
Dispatch ==
    \/ DispatchStop \/ DispatchStopAndClear
    \/ DispatchHome \/ DispatchHomePose \/ DispatchToggle
    \/ \E action \in {"r", "z"} : DispatchRecord(action)
LoopStep == SpinEnds \/ Dispatch \/ ActionsDone \/ PublishTick \/ NotDueYet
Routine == loop = "actions" /\ RoutineStep /\ UNCHANGED input
World == WorldStep /\ UNCHANGED input

Next ==
    \/ \E keys \in SUBSET UnityKeys : OperatorHolds(keys)
    \/ \E action \in UnityActions \cup {""} : UnitySends(action)
    \/ PublishDue
    \/ OnKeys
    \/ LoopStep
    \/ Interrupted
    \/ Routine
    \/ World

Spec == Init /\ [][Next]_vars

\* The thread runs, a spin with a message waiting delivers it (strongly fair:
\* the loop comes back to the spin again and again), blocking calls return,
\* and Unity keeps sending.
Fairness ==
    /\ WF_vars(LoopStep)
    /\ SF_vars(OnKeys)
    /\ WF_vars(Routine)
    /\ WF_vars(PublishDue)
    /\ WF_vars(UnitySends(""))

FairSpec == Spec /\ Fairness

-----------------------------------------------------------------------------
\* Every variable has its type, and the loop is at its actions whenever a
\* routine runs.
TypeOK ==
    /\ MotionTypeOK
    /\ holding \subseteq UnityKeys
    /\ wire \in Seq(Message) /\ Len(wire) <= QueueDepth
    /\ held_keys \subseteq UnityKeys \cap JogKeys
    /\ pending \in Seq(ActionKeys) /\ Len(pending) <= MaxPending
    /\ command.control_mode \in {"IDLE", "CARTESIAN_TWIST", "CARTESIAN_POSE"}
    /\ loop \in {"spin", "actions", "publish", "ended"}
    /\ home_pose \in {"joints", "set", None}
    /\ due \in BOOLEAN
    /\ cleared \in BOOLEAN
    /\ pc # "idle" => loop \in {"actions", "ended"}

\* After x the arm stays still until Unity says again that a key is held: no
\* publication of the loop, however delayed by the actions and routines queued
\* behind the x, revives the keys held before (lines 303-305 against 279-284).
ClearedStaysClear == cleared => command.twist = NoTwist

\* The operator presses no more action keys: each of them may take the loop away
\* for a whole routine, and process_pending_actions runs the ones that arrive
\* meanwhile before it returns.
ActionsStop == <>[][\A action \in ActionKeys : ~UnitySends(action)]_vars

\* Ctrl-C and the end of the process are the operator's wish.
Runs == [](loop # "ended")

\* "zeroes on release" (line 9): once the operator has let go of all keys,
\* the commands come to rest, through overflowing queues, stale messages and
\* routines that block the loop.
ReleaseZeroes ==
    (Runs /\ ActionsStop /\ <>[](holding = {}))
        => <>[](command.twist = NoTwist)

\* A stop that reached the node is published, behind whatever actions and
\* routines are ahead of it.
StopPublished ==
    Runs => (\E i \in DOMAIN pending : pending[i] = "space") ~> (command.control_mode = "IDLE")

\* "publish at a fixed rate" (line 820): the loop never stops publishing.
KeepsPublishing == (Runs /\ ActionsStop) => []<><<PublishTick>>_vars
=============================================================================
