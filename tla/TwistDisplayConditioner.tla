---------------------- MODULE TwistDisplayConditioner ----------------------
(***************************************************************************)
(* twist_display_conditioner_ros2unity.py: repeats the last nonzero twist  *)
(* on Unity's display topic while DisplayTwistState holds it, and clears   *)
(* the display on stops, rejections and expiry.                            *)
(*                                                                         *)
(* The three subscriptions are separate FIFO queues; the executor serves   *)
(* them in any order.  The teleop manager upstream is external: it sends   *)
(* twists only while it permits motion and reports every change of mind on *)
(* the status topic.                                                       *)
(***************************************************************************)
EXTENDS DisplayTwistState, Sequences

CONSTANTS
    Velocities,     \* nonzero twists
    Zero,           \* the zero twist
    None,           \* Python's None
    DisplayPeriod,  \* 1 / display_rate_hz
    QueueDepth      \* bound: depth of each subscription (10 in the code)

Samples == Velocities \cup {Zero}
Hold == IF InitialHold >= ActiveTimeout THEN InitialHold ELSE ActiveTimeout

ASSUME DisplayAssumption ==
    /\ Zero \notin Velocities
    /\ None \notin Samples
    /\ DisplayPeriod \in Nat \ {0}
    /\ QueueDepth \in Nat \ {0}
    /\ Hold + DisplayPeriod <= AgeCap

VARIABLES
    last_nonzero,   \* the cached twist
    screen,         \* the last message on the display topic
    timer,          \* age of the last run of publish_display
    permitted,      \* the teleop manager lets motion through
    twistQueue,     \* /servo_node/delta_twist_cmds
    statusQueue,    \* /teleop/status: TRUE is enabled, safe and no e-stop
    \* observers
    sinceSample,    \* age of the last nonzero twist handled
    gap,            \* time between the last two such twists, Never after a stop
    heardSafe       \* the last status handled

upstream == <<permitted, twistQueue, statusQueue>>
observers == <<sinceSample, gap, heardSafe>>
vars == <<machine, last_nonzero, screen, timer, upstream, observers>>

Init ==
    /\ MachineInit
    /\ last_nonzero = None
    /\ screen = Zero
    /\ timer = 0
    /\ permitted = TRUE
    /\ twistQueue = <<>>
    /\ statusQueue = <<>>
    /\ sinceSample = Never
    /\ gap = Never
    /\ heardSafe = TRUE

-----------------------------------------------------------------------------
(* Upstream: the teleop manager, and the clock.                            *)

KeepOneMore(queue, msg) ==  \* mutant: the depth is off by one
    IF Len(queue) <= QueueDepth THEN Append(queue, msg)
    ELSE Append(Tail(queue), msg)

\* KEEP_LAST: a full queue loses its oldest message.
KeepLast(queue, msg) ==
    IF Len(queue) < QueueDepth THEN Append(queue, msg)
    ELSE Append(Tail(queue), msg)

SendTwist(v) ==
    /\ permitted
    /\ twistQueue' = KeepLast(twistQueue, v)
    /\ UNCHANGED <<machine, last_nonzero, screen, timer, permitted, statusQueue,
                   observers>>

\* The manager rejects or resumes motion, and reports it.
SendStatus(ok) ==
    /\ permitted' = ok
    /\ statusQueue' = KeepLast(statusQueue, ok)
    /\ UNCHANGED <<machine, last_nonzero, screen, timer, twistQueue, observers>>

\* No callback of this node blocks, so the display timer is served on time.
Tick ==
    /\ timer < DisplayPeriod
    /\ timer' = timer + 1
    /\ MachineAges
    /\ sinceSample' = Older(sinceSample)
    /\ UNCHANGED <<last_nonzero, screen, upstream, gap, heardSafe>>

-----------------------------------------------------------------------------
(* The node.                                                               *)

\* on_twist, for a nonzero and for a zero message.
CacheTwist(v) ==
    /\ last_nonzero' = v
    /\ ObserveNonzero
    /\ sinceSample' = 0
    /\ gap' = IF last_nonzero = None THEN Never ELSE sinceSample

OnTwist ==
    /\ twistQueue # <<>>
    /\ Head(twistQueue) # Zero
    /\ CacheTwist(Head(twistQueue))
    /\ twistQueue' = Tail(twistQueue)
    /\ UNCHANGED <<screen, timer, permitted, statusQueue, heardSafe>>

IgnoreZeroTwist ==
    /\ twistQueue # <<>>
    /\ Head(twistQueue) = Zero
    /\ twistQueue' = Tail(twistQueue)
    /\ UNCHANGED <<machine, last_nonzero, screen, timer, permitted, statusQueue,
                   observers>>

\* _force_stop: one zero if something was visible, and the cache is dropped.
StopPublishesNothing == screen  \* mutant
ScreenAfterStop == IF Displaying THEN Zero ELSE screen
ForceStopKeepsCache ==  \* mutant: last_nonzero survives
    /\ screen' = ScreenAfterStop
    /\ Reset
    /\ UNCHANGED last_nonzero
ForceStop ==
    /\ screen' = ScreenAfterStop
    /\ Reset
    /\ last_nonzero' = None

\* on_command.  A command that moves nothing is a stop as well.
Command == [emergency_stop : BOOLEAN, enable : BOOLEAN,
            control_mode : {"CARTESIAN_TWIST", "other"}, target_twist : Samples]
HardStop(msg) ==
    \/ msg.emergency_stop
    \/ ~msg.enable
    \/ msg.control_mode # "CARTESIAN_TWIST"
    \/ msg.target_twist = Zero

OnCommand(msg) ==
    /\ HardStop(msg)
    /\ ForceStop
    /\ UNCHANGED <<timer, upstream, observers>>

\* on_status.
OnStatus ==
    /\ statusQueue # <<>>
    /\ IF Head(statusQueue)
       THEN UNCHANGED <<machine, last_nonzero, screen>>
       ELSE ForceStop
    /\ heardSafe' = Head(statusQueue)
    /\ statusQueue' = Tail(statusQueue)
    /\ UNCHANGED <<timer, permitted, twistQueue, sinceSample, gap>>

\* publish_display, for the three answers of DisplayTwistState.tick.
DisplayTimer ==
    /\ timer = DisplayPeriod
    /\ timer' = 0
    /\ UNCHANGED <<upstream, observers>>

DisplaysNothing ==
    /\ DisplayTimer
    /\ ~Displaying
    /\ UNCHANGED <<machine, last_nonzero, screen>>

DisplayStops ==
    /\ DisplayTimer
    /\ Displaying
    /\ HasExpired
    /\ Reset
    /\ screen' = Zero
    /\ last_nonzero' = None

DisplayRepeats ==
    /\ DisplayTimer
    /\ Displaying
    /\ ~HasExpired
    /\ screen' = IF last_nonzero # None THEN last_nonzero ELSE screen
    /\ UNCHANGED <<machine, last_nonzero>>

PublishDisplay == DisplaysNothing \/ DisplayStops \/ DisplayRepeats

-----------------------------------------------------------------------------
Next ==
    \/ \E v \in Samples : SendTwist(v)
    \/ \E ok \in BOOLEAN : SendStatus(ok)
    \/ \E msg \in Command : OnCommand(msg)
    \/ OnTwist
    \/ IgnoreZeroTwist
    \/ OnStatus
    \/ PublishDisplay
    \/ Tick

Spec == Init /\ [][Next]_vars

\* The clock advances, and the executor serves the timer and the queues.
Fairness ==
    /\ WF_vars(Tick)
    /\ WF_vars(PublishDisplay)
    /\ WF_vars(OnTwist)
    /\ WF_vars(IgnoreZeroTwist)
    /\ WF_vars(OnStatus)

FairSpec == Spec /\ Fairness

-----------------------------------------------------------------------------
\* Every variable has its type, and no queue grows past its depth.
TypeOK ==
    /\ MachineTypeOK
    /\ last_nonzero \in Velocities \cup {None}
    /\ screen \in Samples
    /\ timer \in 0 .. DisplayPeriod
    /\ permitted \in BOOLEAN
    /\ twistQueue \in Seq(Samples) /\ Len(twistQueue) <= QueueDepth
    /\ statusQueue \in Seq(BOOLEAN) /\ Len(statusQueue) <= QueueDepth
    /\ sinceSample \in Readings
    /\ gap \in Readings
    /\ heardSafe \in BOOLEAN

\* The node clears what it showed: whichever of the two stops, of the expiry
\* and of the silent reset inside observe_nonzero came last, an idle machine
\* never leaves motion on the screen.
NoGhostMotion == ~Displaying => screen = Zero

\* The cached message and the machine, kept by two objects, agree: there is a
\* twist to repeat exactly while the machine displays, so the None test of
\* publish_display (line 104) never skips a publication.
CacheFollowsMachine == Displaying <=> last_nonzero # None

\* A key held down is released quickly: once two samples came closer together
\* than both timeouts, the value is repeated at most ActiveTimeout after the
\* last one, not for the long first hold (_has_expired, lines 62-67).
QuickRelease ==
    [][DisplayRepeats /\ gap # Never /\ gap <= ActiveTimeout /\ gap <= InitialHold
        => sinceSample <= ActiveTimeout]_vars

\* The node implements the abstract display.
Promise == INSTANCE DisplayPromise WITH
    Period <- DisplayPeriod, Cap <- AgeCap,
    shown <- screen, latest <- last_nonzero, since <- sinceSample
KeepsPromise == Promise!Spec

\* When the operator lets go, whatever zeros, stops or status messages were
\* lost or reordered, the display ends at zero and stays there.
Handled == twistQueue # <<>> /\ Head(twistQueue) # Zero
Released == <>[](~Handled) => <>[](screen = Zero)

\* What the docstring of on_status says (line 97): no command is held across a
\* safety rejection or a disabled state.
NeverHeldAcrossRejection == ~heardSafe => ~Displaying
=============================================================================
