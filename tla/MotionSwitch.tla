---------------------------- MODULE MotionSwitch ----------------------------
(***************************************************************************)
(* keyboard_unity_servo_ros2unity.py, the routines behind the h and c      *)
(* keys: drive home with a joint trajectory, and toggle between the        *)
(* trajectory and the servo controller.                                    *)
(*                                                                         *)
(* Each routine is a straight line of blocking calls to four other         *)
(* processes: the controller manager, the MoveIt Servo node, the home      *)
(* action server and the robot.  pc names the call that is next, so other  *)
(* actors interleave between any two calls.  A call that times out may     *)
(* still be executed later: it joins "abandoned" and LateRequest runs it.  *)
(*                                                                         *)
(* The four processes are external; their actions model what the node      *)
(* relies on.  The two controllers claim the same joint interfaces, so a   *)
(* STRICT switch succeeds only when it deactivates exactly what is active. *)
(***************************************************************************)
EXTENDS Naturals

CONSTANTS
    Positions,               \* robot positions the model tells apart
    Home,                    \* home_joint_positions
    None,                    \* Python's None
    AutoSwitchForHome,       \* auto_switch_for_home
    ReturnToServoAfterHome,  \* return_to_servo_after_home
    ManageServoNode,         \* manage_servo_node_on_switch
    SeedOnSwitch,            \* seed_servo_on_switch
    Faults                   \* what may go wrong, a subset of FaultKinds

FaultKinds == {"list_fails", "trigger_fails", "trigger_late", "switch_refused",
               "switch_late", "goal_unavailable", "goal_aborted", "goal_hangs",
               "external_motion"}

ASSUME MotionAssumption ==
    /\ Home \in Positions
    /\ None \notin Positions
    /\ AutoSwitchForHome \in BOOLEAN
    /\ ReturnToServoAfterHome \in BOOLEAN
    /\ ManageServoNode \in BOOLEAN
    /\ SeedOnSwitch \in BOOLEAN
    /\ Faults \subseteq FaultKinds

VARIABLES
    \* the node
    pc,         \* the blocking call that is next, "idle" in the main loop
    task,       \* "home" or "toggle"
    mode,       \* the last answer of get_controller_mode
    restore,    \* restore_servo
    seed,       \* seed_positions
    heard,      \* last_joint_state
    \* the other processes
    active,     \* active controllers
    servoNode,  \* MoveIt Servo is started
    pos,        \* position of the robot
    target,     \* command the servo controller follows, None after activation
    server,     \* the home action server is "up" or "down"
    goalLost,   \* it died with the node's goal, which nobody will answer
    abandoned,  \* timed-out requests that may still be executed
    \* observers
    meddled,    \* an abandoned request was executed
    failed,     \* a call of this or an earlier routine has failed
    startedIn,  \* controllers active when the routine began
    seedCurrent \* the joint state read as a seed was where the robot stood

node == <<pc, task, mode, restore, seed>>
robot == <<active, servoNode, pos, target>>
homeServer == <<server, goalLost>>
observers == <<meddled, failed, startedIn, seedCurrent>>
seeding == <<seed, seedCurrent>>
motionVars == <<node, heard, robot, homeServer, abandoned, observers>>

Controllers == {"trajectory", "servo"}
Steps == {"idle", "list", "stop", "to_trajectory", "goal", "accept", "result",
          "relist", "stop_again", "read", "preseed", "to_servo", "seed",
          "reset", "start"}
Requests == [kind : {"stop_servo", "start_servo"} \cup Controllers,
             off : SUBSET Controllers]

MotionInit ==
    /\ pc = "idle"
    /\ task = "toggle"
    /\ mode = "unknown"
    /\ restore = FALSE
    /\ seed = None
    /\ heard = None
    /\ active \in {{}, {"trajectory"}, {"servo"}}
    /\ servoNode = ("servo" \in active)
    /\ pos \in Positions
    /\ target = None
    /\ server = "up"
    /\ goalLost = FALSE
    /\ abandoned = {}
    /\ meddled = FALSE
    /\ failed = FALSE
    /\ startedIn = {}
    /\ seedCurrent = FALSE

-----------------------------------------------------------------------------
(* The robot and the other processes.                                      *)

\* MoveIt Servo turns twists into targets of the active servo controller.
ServoMoves(p) ==
    /\ servoNode
    /\ "servo" \in active
    /\ p # pos
    /\ pos' = p
    /\ target' = p
    /\ UNCHANGED <<node, heard, active, servoNode, homeServer, abandoned, observers>>

\* The servo controller drives the robot to its target.
ServoFollows ==
    /\ "servo" \in active
    /\ target # None
    /\ pos # target
    /\ pos' = target
    /\ UNCHANGED <<node, heard, active, servoNode, target, homeServer, abandoned,
                   observers>>

\* Another client's trajectory (MoveIt, the pendant) moves the robot.
ExternalMotion(p) ==
    /\ "external_motion" \in Faults
    /\ "trajectory" \in active
    /\ p # pos
    /\ pos' = p
    /\ UNCHANGED <<node, heard, active, servoNode, target, homeServer, abandoned,
                   observers>>

\* The process of the home action server dies with the goal it was given, and
\* may come back without it.
ServerDies ==
    /\ "goal_hangs" \in Faults
    /\ server = "up"
    /\ server' = "down"
    /\ goalLost' = (pc \in {"accept", "result"})
    /\ UNCHANGED <<node, heard, robot, abandoned, observers>>

ServerRestarts ==
    /\ server = "down"
    /\ server' = "up"
    /\ UNCHANGED <<node, heard, robot, goalLost, abandoned, observers>>

SwitchApplies(off) == active = off

\* Activating the servo controller empties its command buffer.
Switched(on) ==
    /\ active' = {on}
    /\ target' = IF on = "servo" THEN None ELSE target

LateRequest(r) ==
    /\ r \in abandoned
    /\ abandoned' = abandoned \ {r}
    /\ meddled' = TRUE
    /\ servoNode' = CASE r.kind = "stop_servo" -> FALSE
                      [] r.kind = "start_servo" -> TRUE
                      [] OTHER -> servoNode
    /\ IF r.kind \in Controllers /\ SwitchApplies(r.off) THEN Switched(r.kind)
       ELSE UNCHANGED <<active, target>>
    /\ UNCHANGED <<node, heard, pos, homeServer, failed, startedIn, seedCurrent>>

-----------------------------------------------------------------------------
(* The calls of the node.                                                  *)

\* on_joint_state, from the spins inside every blocking call.
OnJointState ==
    /\ heard # pos
    /\ heard' = pos
    /\ UNCHANGED <<node, robot, homeServer, abandoned, observers>>

\* send_home_joint_trajectory and toggle_motion_controller begin.
BeginHome ==
    /\ pc = "idle"
    /\ task' = "home"
    /\ restore' = FALSE
    /\ pc' = IF AutoSwitchForHome THEN "list" ELSE "goal"
    /\ startedIn' = active
    /\ UNCHANGED <<mode, seeding, heard, robot, homeServer, abandoned, meddled, failed>>

BeginToggle ==
    /\ pc = "idle"
    /\ task' = "toggle"
    /\ restore' = FALSE
    /\ pc' = "list"
    /\ startedIn' = active
    /\ UNCHANGED <<mode, seeding, heard, robot, homeServer, abandoned, meddled, failed>>

\* A routine that returns takes its local variables with it.
Locals ==
    IF pc' = "idle"
    THEN /\ task' = "toggle" /\ mode' = "unknown" /\ restore' = FALSE /\ seed' = None
         /\ startedIn' = {} /\ seedCurrent' = FALSE
    ELSE UNCHANGED <<task, mode, restore, seeding, startedIn>>

\* get_controller_mode: the trajectory controller wins, failures are UNKNOWN.
ModeOf(controllers) ==
    IF "trajectory" \in controllers THEN "trajectory"
    ELSE IF "servo" \in controllers THEN "servo" ELSE "unknown"
Answers ==
    {ModeOf(active)} \cup (IF "list_fails" \in Faults THEN {"unknown"} ELSE {})

\* What each routine does with the mode (lines 421-425 and 480-483).
RestoreFromUnknown(m) == m = "unknown" /\ ReturnToServoAfterHome  \* mutant
RestoreAfterList(m) == m = "servo" /\ ReturnToServoAfterHome
SwitchOnlyFromServo(m) == IF m = "servo" THEN "stop" ELSE "goal"  \* mutant
SwitchWithoutStop(m) == IF m = "trajectory" THEN "goal" ELSE "to_trajectory"  \* mutant
HomeAfterList(m) == IF m = "trajectory" THEN "goal" ELSE "stop"
ToggleWithoutStop(m) == IF m = "trajectory" THEN "relist" ELSE "to_trajectory"  \* mutant
ToggleAfterList(m) == IF m = "trajectory" THEN "relist" ELSE "stop"

GetControllerMode(m) ==
    /\ pc = "list"
    /\ m \in Answers
    /\ mode' = m
    /\ restore' = (task = "home" /\ RestoreAfterList(m))
    /\ pc' = IF task = "home" THEN HomeAfterList(m) ELSE ToggleAfterList(m)
    /\ failed' = (failed \/ m # ModeOf(active))
    /\ UNCHANGED <<task, seeding, heard, robot, homeServer, abandoned, meddled, startedIn>>

\* call_trigger_service, whose result every caller ignores: it works, or fails,
\* or times out and may still be executed.
TriggerWorks(on) == servoNode' = on /\ UNCHANGED <<abandoned, failed>>
TriggerFails ==
    /\ "trigger_fails" \in Faults
    /\ failed' = TRUE
    /\ UNCHANGED <<servoNode, abandoned>>
TriggerLate(service) ==
    /\ "trigger_late" \in Faults
    /\ abandoned' = abandoned \cup {[kind |-> service, off |-> {}]}
    /\ failed' = TRUE
    /\ UNCHANGED servoNode
TriggerSkipped == ~ManageServoNode /\ UNCHANGED <<servoNode, abandoned, failed>>

StopMoveitServo ==
    /\ pc \in {"stop", "stop_again"}
    /\ \/ ManageServoNode /\ (TriggerWorks(FALSE) \/ TriggerFails \/ TriggerLate("stop_servo"))
       \/ TriggerSkipped
    /\ pc' = IF pc = "stop" THEN "to_trajectory" ELSE "read"
    /\ UNCHANGED <<task, mode, restore, seeding, heard, active, pos, target, homeServer,
                   meddled, startedIn>>

\* switch_controllers: STRICT, and a failure ends the routine.
Deactivates(m) == IF m \in Controllers THEN {m} ELSE {}

SwitchSucceeds(on, off, after) ==
    /\ SwitchApplies(off)
    /\ Switched(on)
    /\ pc' = after
    /\ UNCHANGED <<abandoned, failed>>

SwitchFails(off) ==
    /\ ~SwitchApplies(off) \/ "switch_refused" \in Faults
    /\ pc' = "idle"
    /\ failed' = TRUE
    /\ UNCHANGED <<active, target, abandoned>>

SwitchTimesOut(on, off) ==
    /\ "switch_late" \in Faults
    /\ pc' = "idle"
    /\ abandoned' = abandoned \cup {[kind |-> on, off |-> off]}
    /\ failed' = TRUE
    /\ UNCHANGED <<active, target>>

Switch(on, off, after) ==
    /\ SwitchSucceeds(on, off, after) \/ SwitchFails(off) \/ SwitchTimesOut(on, off)
    /\ Locals
    /\ UNCHANGED <<heard, servoNode, pos, homeServer, meddled>>

AfterTrajectory == IF task = "home" THEN "goal" ELSE "idle"

SwitchToTrajectory ==
    /\ pc = "to_trajectory"
    /\ Switch("trajectory", Deactivates(mode), AfterTrajectory)

\* The home action: wait_for_server, send_goal_async, get_result_async.  The
\* last two spin without a timeout.
SendGoal ==
    /\ pc = "goal"
    /\ \/ server = "up" /\ pc' = "accept"
       \/ (server = "down" \/ "goal_unavailable" \in Faults) /\ pc' = "idle"
    /\ failed' = (failed \/ pc' = "idle")
    /\ Locals
    /\ UNCHANGED <<heard, robot, homeServer, abandoned, meddled>>

\* The action server belongs to the trajectory controller, which rejects goals
\* while it is inactive.
GoalResponse ==
    /\ pc = "accept"
    /\ ~goalLost
    /\ pc' = IF "trajectory" \in active THEN "result" ELSE "idle"
    /\ failed' = (failed \/ pc' = "idle")
    /\ Locals
    /\ UNCHANGED <<heard, robot, homeServer, abandoned, meddled>>

GoesHomeAgain == IF restore THEN "relist" ELSE "goal"  \* mutant
AfterResult == IF restore THEN "relist" ELSE "idle"

GoalResult ==
    /\ pc = "result"
    /\ ~goalLost
    /\ \/ "trajectory" \in active /\ pos' = Home /\ UNCHANGED failed
       \/ /\ "trajectory" \notin active \/ "goal_aborted" \in Faults
          /\ failed' = TRUE
          /\ UNCHANGED pos
    /\ pc' = AfterResult
    /\ Locals
    /\ UNCHANGED <<heard, active, servoNode, target, homeServer, abandoned, meddled>>

\* switch_to_servo_controller: the mode is asked for again.
ListAgain(m) ==
    /\ pc = "relist"
    /\ m \in Answers
    /\ mode' = m
    /\ pc' = "stop_again"
    /\ failed' = (failed \/ m # ModeOf(active))
    /\ UNCHANGED <<task, restore, seeding, heard, robot, homeServer, abandoned, meddled,
                   startedIn>>

\* current_joint_positions_for_servo: one spin is enough if there is some joint
\* state, however old, and a spin may serve another callback.  None: five spins
\* brought no joint state, or the last one lacks a home joint.
SeedFromHome == Home  \* mutant: where the home joints go, not where they are
SeedRead == heard
ReadJoints ==
    /\ pc = "read"
    /\ seed' \in {SeedRead, None}
    /\ seedCurrent' = (heard = pos)
    /\ pc' = IF SeedOnSwitch /\ seed' # None THEN "preseed" ELSE "to_servo"
    /\ UNCHANGED <<task, mode, restore, heard, robot, homeServer, abandoned, meddled,
                   failed, startedIn>>

\* publish_servo_seed before and after the switch.  The message is the same
\* in each of its repetitions, and an inactive controller ignores it.
ServoCommand(p) == IF "servo" \in active THEN p ELSE target

PublishSeed ==
    /\ pc \in {"preseed", "seed"}
    /\ target' = ServoCommand(seed)
    /\ pc' = IF pc = "preseed" THEN "to_servo" ELSE "reset"
    /\ UNCHANGED <<task, mode, restore, seed, heard, active, servoNode, pos,
                   homeServer, abandoned, observers>>

SeedsAnyway == IF SeedOnSwitch THEN "seed" ELSE "reset"  \* mutant: no None test
AfterServo == IF SeedOnSwitch /\ seed # None THEN "seed" ELSE "reset"
DeactivatesForServo == IF mode = "trajectory" THEN {"trajectory"} ELSE {}

IgnoresSwitchResult ==  \* mutant: goes on after a failed switch
    /\ pc = "to_servo"
    /\ pc' = AfterServo
    /\ \/ SwitchSucceeds("servo", DeactivatesForServo, AfterServo)
       \/ failed' = TRUE /\ UNCHANGED <<active, target, abandoned>>
    /\ UNCHANGED <<task, mode, restore, seeding, heard, servoNode, pos, homeServer,
                   meddled, startedIn>>

SwitchToServo ==
    /\ pc = "to_servo"
    /\ Switch("servo", DeactivatesForServo, AfterServo)

\* reset_moveit_servo_status changes nothing this model keeps but takes time.
ResetServoStatus ==
    /\ pc = "reset"
    /\ pc' = "start"
    /\ UNCHANGED <<task, mode, restore, seed, heard, robot, homeServer, abandoned,
                   observers>>

StartMoveitServo ==
    /\ pc = "start"
    /\ \/ ManageServoNode /\ (TriggerWorks(TRUE) \/ TriggerFails \/ TriggerLate("start_servo"))
       \/ TriggerSkipped
    /\ pc' = "idle"
    /\ Locals
    /\ UNCHANGED <<heard, active, pos, target, homeServer, meddled>>

-----------------------------------------------------------------------------
RoutineStep ==
    \/ \E m \in {"trajectory", "servo", "unknown"} : GetControllerMode(m) \/ ListAgain(m)
    \/ StopMoveitServo
    \/ SwitchToTrajectory
    \/ SendGoal
    \/ GoalResponse
    \/ GoalResult
    \/ ReadJoints
    \/ PublishSeed
    \/ SwitchToServo
    \/ ResetServoStatus
    \/ StartMoveitServo

WorldStep ==
    \/ \E p \in Positions : ServoMoves(p) \/ ExternalMotion(p)
    \/ ServoFollows
    \/ OnJointState
    \/ ServerDies
    \/ ServerRestarts
    \/ \E r \in abandoned : LateRequest(r)

MotionNext == BeginHome \/ BeginToggle \/ RoutineStep \/ WorldStep

MotionSpec == MotionInit /\ [][MotionNext]_motionVars

\* Every call returns or times out, the two spins on the home action only when
\* its server answers.
MotionFairness == WF_motionVars(RoutineStep)

FairMotionSpec == MotionSpec /\ MotionFairness

-----------------------------------------------------------------------------
\* Every variable has its type, the two controllers are never both active, and
\* publish_servo_seed never gets None, also when no joint state ever came.
MotionTypeOK ==
    /\ pc \in Steps
    /\ task \in {"home", "toggle"}
    /\ mode \in Controllers \cup {"unknown"}
    /\ restore \in BOOLEAN
    /\ seed \in Positions \cup {None}
    /\ heard \in Positions \cup {None}
    /\ active \in {{}, {"trajectory"}, {"servo"}}
    /\ servoNode \in BOOLEAN
    /\ pos \in Positions
    /\ target \in Positions \cup {None}
    /\ server \in {"up", "down"}
    /\ goalLost \in BOOLEAN
    /\ abandoned \subseteq Requests
    /\ meddled \in BOOLEAN
    /\ failed \in BOOLEAN
    /\ startedIn \in {{}, {"trajectory"}, {"servo"}}
    /\ seedCurrent \in BOOLEAN
    /\ pc \in {"preseed", "seed"} => seed # None

\* Whatever fails on the way, the home goal is only sent, and the arm only
\* waited for, while the trajectory controller drives the robot; only an
\* abandoned switch that is executed late can break this (lines 419-468).
GoalUnderTrajectory ==
    pc \in {"accept", "result"} /\ AutoSwitchForHome /\ ~meddled
        => active = {"trajectory"}

\* MoveIt Servo is seeded, reset and started only while the servo controller
\* is active, again up to late switches (lines 501-515).
StartedUnderServo == pc \in {"seed", "reset", "start"} /\ ~meddled => active = {"servo"}

\* MoveIt Servo never streams into a controller that does not own the joints:
\* it is stopped before its controller goes and started after it comes.
StreamNeedsController == servoNode => "servo" \in active

\* "seeding it with current joints" (line 494): the switch and the other calls
\* between the reading of the joints and the publication of the seed do not
\* outdate it.  A joint state that is old when it is read gives an old seed.
SeedIsCurrent == [][PublishSeed /\ pc = "seed" /\ seedCurrent => target' = pos]_motionVars

\* As long as no call fails, a finished routine leaves MoveIt Servo running
\* exactly if its controller is active.
ModesAgree == pc = "idle" /\ ~failed => (servoNode <=> "servo" \in active)

\* As long as no call fails, a home run that began under the servo controller
\* ends there with MoveIt Servo running again, if it is configured to.
RestoresServo ==
    [][pc # "idle" /\ pc' = "idle" /\ task = "home" /\ AutoSwitchForHome
        /\ ReturnToServoAfterHome /\ startedIn = {"servo"} /\ ~failed'
        => active' = {"servo"} /\ servoNode']_motionVars

\* A routine always comes back to the main loop.
RoutineEnds == pc # "idle" ~> pc = "idle"
=============================================================================
