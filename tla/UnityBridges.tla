---------------------------- MODULE UnityBridges ----------------------------
(***************************************************************************)
(* The bridges between the robot's ROS side and Unity: the UR state        *)
(* bridge, the bridges that mirror a topic, the two that poll services,    *)
(* and the one that forwards Unity's enable toggle to a service.           *)
(*                                                                         *)
(* Each value travels by a channel of its own and shares no state with the *)
(* others (separate attributes, queues, clients and pending flags), so a   *)
(* behaviour follows one channel, any of them, and an action is the part   *)
(* of its callback that handles this channel.  Values are numbered in the  *)
(* order in which they become true; 0 is what the code initialises them    *)
(* with.  "shown" is the value in the last message to Unity, and for the   *)
(* toggle the enable state in force at the teleop manager.                 *)
(*                                                                         *)
(* Publishers, services and the operator are external.  A service that     *)
(* goes away takes its unanswered calls with it: rclpy never completes     *)
(* their futures, and the bridges set no timeout.                          *)
(***************************************************************************)
EXTENDS JointMessages

CONSTANTS
    Channels,    \* the channels that are followed
    QueueDepth,  \* bound: depth of the volatile subscriptions (10 in the code)
    MaxChanges,  \* bound: values a channel takes
    JointMsgs,   \* joint messages that the driver and others publish
    None         \* no toggle is being handled

Latched == {"robot_mode", "safety_mode", "robot_program_running"}
Streamed == {"tcp_pose", "speed_scaling", "wrench"}
Joints == {"joint_states", "joint_torques"}
Mirrored == {"io_states", "tool_data", "cmd_observed"}
Dashboard == {"loaded_program", "program_state"}
Info == Dashboard \cup {"software_version"}
Polled == Info \cup {"controllers"}
Toggle == {"enable"}

ASSUME BridgeAssumption ==
    /\ Channels \subseteq Latched \cup Streamed \cup Joints \cup Mirrored \cup Polled \cup Toggle
    /\ QueueDepth \in Nat \ {0}
    /\ MaxChanges \in Nat \ {0}
    /\ None \notin Nat
    /\ \A msg \in JointMsgs :
        IsJointMessage(msg) /\ Dropped \notin {JointStateUnity(msg), JointTorqueUnity(msg)}

VARIABLES
    channel,   \* the one this behaviour follows
    far,       \* its publisher or service: "up", "failing" or "down"
    now,       \* the value that is true
    wire,      \* the subscription's queue
    latest,    \* the bridge's attribute (robot_mode, loaded_program, ...)
    handling,  \* the toggle that on_enable holds while it waits
    pending,   \* _pending
    calls,     \* calls the service has not served: 0, or the toggle
    answers,   \* answers the bridge has not handled
    shown,
    newest,    \* observer: the newest value ever shown
    lost       \* observer: a call or the last toggle is gone for good, or refused

bridge == <<latest, handling, pending>>
service == <<calls, answers>>
picture == <<shown, newest>>
vars == <<channel, far, now, wire, bridge, service, picture, lost>>

Init ==
    /\ channel \in Channels
    /\ far \in {"up", "down"}
    /\ now = 1
    /\ wire = IF channel \in Latched /\ far = "up" THEN <<1>> ELSE <<>>
    /\ latest = 0
    /\ handling = None
    /\ pending = FALSE
    /\ calls = <<>>
    /\ answers = <<>>
    /\ shown = 0
    /\ newest = 0
    /\ lost = (channel \in Toggle)  \* the first position of the switch is not sent

Depth == IF channel \in Latched THEN 1 ELSE QueueDepth
KeepLast(queue, value) ==
    IF Len(queue) < Depth THEN Append(queue, value) ELSE Append(Tail(queue), value)

Show(value) ==
    /\ shown' = value
    /\ newest' = Max({newest, value})

-----------------------------------------------------------------------------
(* The other side of the bridge.                                           *)

\* Latched publishers speak when the value changes, and Unity when the
\* operator moves the switch.
Changes ==
    /\ now < MaxChanges
    /\ now' = now + 1
    /\ wire' = IF channel \in Toggle \/ (channel \in Latched /\ far # "down")
               THEN KeepLast(wire, now') ELSE wire
    /\ lost' = IF channel \in Toggle THEN FALSE ELSE lost
    /\ UNCHANGED <<channel, far, bridge, service, picture>>

\* Broadcasters repeat their value.
Streams ==
    /\ channel \in Streamed \cup Joints \cup Mirrored
    /\ far = "up"
    /\ wire' = KeepLast(wire, now)
    /\ UNCHANGED <<channel, far, now, bridge, service, picture, lost>>

\* "failing": the dashboard answers, without the robot behind it.
Fails ==
    /\ far = "up"
    /\ channel \in Dashboard
    /\ far' = "failing"
    /\ UNCHANGED <<channel, now, wire, bridge, service, picture, lost>>

GoesDown ==
    /\ far # "down"
    /\ far' = "down"
    /\ calls' = <<>>
    /\ lost' = (lost \/ \E i \in DOMAIN calls : calls[i] \in {0, now})
    /\ UNCHANGED <<channel, now, wire, bridge, answers, picture>>

\* A teleop manager that was started anew has forgotten the toggle.
ComesUp ==
    /\ far # "up"
    /\ far' = "up"
    /\ wire' = IF channel \in Latched THEN KeepLast(wire, now) ELSE wire
    /\ \/ UNCHANGED <<shown, lost>>
       \/ channel \in Toggle /\ shown' = 0 /\ lost' = TRUE
    /\ UNCHANGED <<channel, now, bridge, service, newest>>

\* A polled service answers with its value, or with an empty string; the
\* teleop manager takes over the toggle.
Serve ==
    /\ far # "down"
    /\ calls # <<>>
    /\ calls' = Tail(calls)
    /\ IF channel \in Toggle THEN Show(Head(calls)) /\ UNCHANGED answers
       ELSE answers' = Append(answers, IF far = "up" THEN now ELSE 0) /\ UNCHANGED picture
    /\ UNCHANGED <<channel, far, now, wire, bridge, lost>>

\* The teleop manager refuses the toggle: success is false, or there is no
\* response.  Its state stays, and the bridge warns and does nothing.
Refuse ==
    /\ channel \in Toggle
    /\ far # "down"
    /\ calls # <<>>
    /\ calls' = Tail(calls)
    /\ lost' = (lost \/ Head(calls) = now)
    /\ UNCHANGED <<channel, far, now, wire, bridge, answers, picture>>

-----------------------------------------------------------------------------
(* ur_state_bridge: callbacks that store, timers that publish.             *)

TopicCallback ==
    /\ channel \in Latched \cup Streamed
    /\ wire # <<>>
    /\ latest' = Head(wire)
    /\ wire' = Tail(wire)
    /\ UNCHANGED <<channel, far, now, handling, pending, service, picture, lost>>

PublishTimer ==
    /\ channel \in Latched \cup Streamed
    /\ Show(latest)
    /\ UNCHANGED <<channel, far, now, wire, bridge, service, lost>>

(* The mirrors publish in the callback.                                    *)

Mirror(topic) ==
    /\ channel = topic
    /\ wire # <<>>
    /\ wire' = Tail(wire)
    /\ Show(Head(wire))
    /\ UNCHANGED <<channel, far, now, bridge, service, lost>>

IoStatesCallback == Mirror("io_states")
ToolDataCallback == Mirror("tool_data")

\* The supervisor's six topics are treated alike, each with a queue of its own.
CommandCallback == Mirror("cmd_observed")

Converted(msg) == IF channel = "joint_states" THEN JointState(msg) ELSE JointTorque(msg)

JointCallback(msg) ==
    /\ channel \in Joints
    /\ wire # <<>>
    /\ wire' = Tail(wire)
    /\ IF Converted(msg) = Dropped THEN UNCHANGED picture ELSE Show(Head(wire))
    /\ UNCHANGED <<channel, far, now, bridge, service, lost>>

(* controller_status_bridge and robot_info_bridge: polling clients.        *)

CallsAnyway == far # "down"  \* mutant
MayCall == ~pending /\ far # "down"

\* One of the _refresh functions, or the rest of poll_controllers.
Refresh ==
    /\ pending' = (pending \/ MayCall)
    /\ calls' = IF MayCall THEN Append(calls, 0) ELSE calls

PollControllers ==
    /\ channel = "controllers"
    /\ Refresh
    /\ UNCHANGED <<channel, far, now, wire, latest, handling, answers, picture, lost>>

OnResponse ==
    /\ channel = "controllers"
    /\ answers # <<>>
    /\ pending' = FALSE
    /\ Show(Head(answers))
    /\ answers' = Tail(answers)
    /\ UNCHANGED <<channel, far, now, wire, latest, handling, calls, lost>>

InfoTick ==
    /\ channel \in Info
    /\ Show(latest)
    /\ Refresh
    /\ UNCHANGED <<channel, far, now, wire, latest, handling, answers, lost>>

\* done: an empty string of the dashboard reads as NONE or UNKNOWN.
InfoDone ==
    /\ channel \in Info
    /\ answers # <<>>
    /\ pending' = FALSE
    /\ latest' = Head(answers)
    /\ answers' = Tail(answers)
    /\ UNCHANGED <<channel, far, now, wire, handling, calls, picture, lost>>

\* future.result() raises: the flag is cleared, and the last value stays.
CallRaises ==
    /\ channel \in Polled
    /\ calls # <<>>
    /\ calls' = Tail(calls)
    /\ pending' = FALSE
    /\ UNCHANGED <<channel, far, now, wire, latest, handling, answers, picture, lost>>

(* teleop_enable_bridge: on_enable blocks in wait_for_service.             *)

OnEnable ==
    /\ channel \in Toggle
    /\ handling = None
    /\ wire # <<>>
    /\ handling' = Head(wire)
    /\ wire' = Tail(wire)
    /\ UNCHANGED <<channel, far, now, latest, pending, service, picture, lost>>

CallService ==
    /\ handling # None
    /\ far # "down"
    /\ calls' = Append(calls, handling)
    /\ handling' = None
    /\ UNCHANGED <<channel, far, now, wire, latest, pending, answers, picture, lost>>

TriesAgainLater ==  \* mutant: a retry of a toggle the service was away for
    /\ handling # None
    /\ handling' = None
    /\ wire' = KeepLast(wire, handling)
    /\ UNCHANGED <<channel, far, now, latest, pending, service, picture, lost>>

ServiceTimeout ==
    /\ handling # None
    /\ far = "down"
    /\ handling' = None
    /\ lost' = (lost \/ handling = now)
    /\ UNCHANGED <<channel, far, now, wire, latest, pending, service, picture>>

\* The manager replaces a bridge that died; the teleop bridge is not its child.
VolatileSample == <<>>  \* mutant: volatile durability on the latched topics
LatchedSample == IF channel \in Latched /\ far # "down" THEN <<now>> ELSE <<>>

Respawn ==
    /\ channel \notin Toggle
    /\ latest' = 0
    /\ pending' = FALSE
    /\ calls' = <<>>
    /\ answers' = <<>>
    /\ wire' = LatchedSample
    /\ lost' = FALSE
    /\ UNCHANGED <<channel, far, now, handling, picture>>

-----------------------------------------------------------------------------
Bridge ==
    \/ TopicCallback \/ PublishTimer
    \/ IoStatesCallback \/ ToolDataCallback \/ CommandCallback
    \/ \E msg \in JointMsgs : JointCallback(msg)
    \/ PollControllers \/ OnResponse \/ InfoTick \/ InfoDone \/ CallRaises
    \/ OnEnable \/ CallService \/ ServiceTimeout

Next ==
    \/ Changes \/ Streams \/ Fails \/ GoesDown \/ ComesUp \/ Serve \/ Refuse
    \/ Bridge \/ Respawn

Spec == Init /\ [][Next]_vars

\* The executors run what is ready, broadcasters repeat, services that are up
\* serve (strongly fair: not every call may raise or be refused), and complete
\* joint messages keep coming.
Fairness ==
    /\ WF_vars(TopicCallback) /\ WF_vars(PublishTimer)
    /\ WF_vars(IoStatesCallback \/ ToolDataCallback \/ CommandCallback)
    /\ SF_vars(\E msg \in JointMsgs : Converted(msg) # Dropped /\ JointCallback(msg))
    /\ WF_vars(PollControllers) /\ WF_vars(OnResponse)
    /\ WF_vars(InfoTick) /\ WF_vars(InfoDone)
    /\ WF_vars(OnEnable) /\ WF_vars(CallService \/ ServiceTimeout)
    /\ WF_vars(Streams) /\ SF_vars(Serve)

FairSpec == Spec /\ Fairness

-----------------------------------------------------------------------------
\* Every variable has its type.  A polling bridge has at most one call under
\* way, and its flag is set exactly while there is one or one was lost.
TypeOK ==
    /\ channel \in Channels
    /\ far \in {"up", "failing", "down"}
    /\ {now, latest, shown, newest} \subseteq 0..MaxChanges
    /\ wire \in Seq(1..MaxChanges) /\ Len(wire) <= Depth
    /\ handling \in 1..MaxChanges \cup {None}
    /\ calls \in Seq(0..MaxChanges) /\ answers \in Seq(0..MaxChanges)
    /\ channel \in Polled => /\ Len(calls) + Len(answers) <= 1
                             /\ pending = (lost \/ calls # <<>> \/ answers # <<>>)
    /\ channel \notin Polled => ~pending

\* No joint is shown another one's reading: the driver's order, extra joints and
\* short arrays never reach Unity (joint_state_bridge 52-89, joint_torque_bridge
\* 59-77), and a message that lacks a joint's reading never does.
ReadingsByName ==
    [][\A msg \in JointMsgs : JointCallback(msg) => ReadsByName(msg)]_vars

\* Late answers, overflowing queues, toggles dropped or delayed and processes
\* started anew: the other side shows nothing or something true, never
\* something older than it has shown before.
Picture == INSTANCE UnityPicture
KeepsPicture == Picture!Spec

\* Once the far side stays up, the picture comes to be the truth and stays it,
\* across all that happened before -- unless a call was lost or the last toggle
\* lost or refused, which nothing repairs but a new process or a new toggle.
CatchesUp ==
    (<>[](far = "up" /\ ~lost) /\ <>[][~Respawn]_vars) => <>[](shown = now)
=============================================================================
