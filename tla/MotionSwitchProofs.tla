------------------------- MODULE MotionSwitchProofs -------------------------
(***************************************************************************)
(* The routines of MotionSwitch, for every set of faults, every set of     *)
(* positions and every configuration.                                      *)
(*                                                                         *)
(* Only three actions change the active controllers: the two switches,     *)
(* which lead to a known pc, and a late request, which is marked by        *)
(* meddled.  So what a switch established stays true up to the next one.   *)
(***************************************************************************)
EXTENDS MotionSwitch, TLAPS

\* From the answer or the switch on, the goal has its controller.
GoalPrepared ==
    pc \in {"goal", "accept", "result"} /\ AutoSwitchForHome /\ ~meddled
        => active = {"trajectory"}

IInv == MotionTypeOK /\ GoalPrepared /\ StartedUnderServo

LEMMA InitIInv == MotionInit => IInv
<1> SUFFICES ASSUME MotionInit PROVE IInv
    OBVIOUS
<1>1. servoNode \in BOOLEAN
    BY DEF MotionInit
<1>2. /\ abandoned \subseteq Requests
      /\ seed \in Positions \cup {None} /\ heard \in Positions \cup {None}
      /\ target \in Positions \cup {None}
    BY DEF MotionInit
<1>3. pc \in Steps /\ mode \in Controllers \cup {"unknown"} /\ pc = "idle"
    BY DEF MotionInit, Steps
<1> QED BY <1>1, <1>2, <1>3
    DEF MotionInit, IInv, MotionTypeOK, GoalPrepared, StartedUnderServo

LEMMA LateRequestKeeps == ASSUME IInv, NEW r \in abandoned, LateRequest(r) PROVE IInv'
<1>1. r \in Requests
    BY DEF IInv, MotionTypeOK
<1>2. MotionTypeOK'
  <2>1. active' \in {{}, {"trajectory"}, {"servo"}} /\ target' \in Positions \cup {None}
    <3>1. CASE r.kind \in Controllers /\ SwitchApplies(r.off)
        BY <3>1 DEF IInv, MotionTypeOK, LateRequest, Switched, Controllers
    <3>2. CASE ~(r.kind \in Controllers /\ SwitchApplies(r.off))
        BY <3>2 DEF IInv, MotionTypeOK, LateRequest
    <3> QED BY <3>1, <3>2
  <2>2. servoNode' \in BOOLEAN
      BY <1>1 DEF IInv, MotionTypeOK, LateRequest, Requests
  <2>3. abandoned' \subseteq Requests /\ meddled' \in BOOLEAN
      BY DEF IInv, MotionTypeOK, LateRequest
  <2> QED BY <2>1, <2>2, <2>3 DEF IInv, MotionTypeOK, LateRequest, node, homeServer
<1>3. meddled'
    BY DEF LateRequest
<1> QED BY <1>2, <1>3 DEF IInv, GoalPrepared, StartedUnderServo

\* The other actions of the world leave the controllers and the routine alone.
LEMMA WorldKeeps == ASSUME IInv, WorldStep PROVE IInv'
<1>1. CASE \E p \in Positions : ServoMoves(p) \/ ExternalMotion(p)
    BY <1>1 DEF IInv, MotionTypeOK, GoalPrepared, StartedUnderServo, ServoMoves,
       ExternalMotion, node, homeServer, observers
<1>2. CASE ServoFollows
    BY <1>2 DEF IInv, MotionTypeOK, GoalPrepared, StartedUnderServo, ServoFollows,
       node, homeServer, observers
<1>4. CASE OnJointState
  <2>1. heard' \in Positions \cup {None}
      BY <1>4 DEF IInv, MotionTypeOK, OnJointState
  <2>2. UNCHANGED <<node, robot, homeServer, abandoned, observers>>
      BY <1>4 DEF OnJointState
  <2>3. MotionTypeOK'
      BY <2>1, <2>2 DEF IInv, MotionTypeOK, node, robot, homeServer, observers
  <2> QED BY <2>2, <2>3
      DEF IInv, GoalPrepared, StartedUnderServo, node, robot, observers
<1>3. CASE ServerDies \/ ServerRestarts
  <2>1. goalLost' \in BOOLEAN
    <3>1. CASE ServerDies
      <4> DEFINE waits == pc \in {"accept", "result"}
      <4>1. goalLost' = waits /\ waits \in BOOLEAN
          BY <3>1 DEF ServerDies
      <4> HIDE DEF waits
      <4> QED BY <4>1
    <3>2. CASE ServerRestarts
        BY <3>2 DEF ServerRestarts, IInv, MotionTypeOK
    <3> QED BY <1>3, <3>1, <3>2
  <2>2. server' \in {"up", "down"} /\ UNCHANGED <<node, heard, robot, abandoned, observers>>
      BY <1>3 DEF ServerDies, ServerRestarts
  <2>3. MotionTypeOK'
      BY <2>1, <2>2 DEF IInv, MotionTypeOK, node, robot, observers
  <2> QED BY <2>2, <2>3
      DEF IInv, GoalPrepared, StartedUnderServo, node, robot, observers
<1> QED BY <1>1, <1>2, <1>3, <1>4, LateRequestKeeps DEF WorldStep

LEMMA BeginKeeps == ASSUME IInv, BeginHome \/ BeginToggle PROVE IInv'
<1>1. /\ task' \in {"home", "toggle"} /\ restore' = FALSE
      /\ pc' \in {"list", "goal"} /\ startedIn' = active
      /\ pc' = "goal" => ~AutoSwitchForHome
      /\ UNCHANGED <<mode, seeding, heard, robot, homeServer, abandoned, meddled, failed>>
    BY DEF BeginHome, BeginToggle
<1>2. /\ UNCHANGED <<mode, seed, seedCurrent, heard, active, servoNode, pos, target, server>>
      /\ UNCHANGED <<goalLost, abandoned, meddled, failed>>
    BY <1>1 DEF seeding, robot, homeServer
<1>3. restore' \in BOOLEAN
    BY <1>1
<1>4. MotionTypeOK'
    BY <1>1, <1>2, <1>3 DEF IInv, MotionTypeOK, Steps
<1> QED BY <1>1, <1>2, <1>4 DEF IInv, GoalPrepared, StartedUnderServo

\* Whether or not the routine returns, its locals keep their types.
LEMMA LocalsTyped ==
    ASSUME MotionTypeOK, Locals
    PROVE  /\ task' \in {"home", "toggle"}
           /\ mode' \in Controllers \cup {"unknown"}
           /\ restore' \in BOOLEAN
           /\ startedIn' \in {{}, {"trajectory"}, {"servo"}}
           /\ seed' \in Positions \cup {None} /\ seedCurrent' \in BOOLEAN
           /\ pc' # "idle" => seed' = seed /\ seedCurrent' = seedCurrent
BY DEF MotionTypeOK, Locals, Controllers, seeding

LEMMA ListKeeps ==
    ASSUME IInv, NEW m \in {"trajectory", "servo", "unknown"},
           GetControllerMode(m) \/ ListAgain(m)
    PROVE  IInv'
<1>1. CASE GetControllerMode(m)
  <2>1. pc' \in Steps \ {"idle", "accept", "result", "preseed", "seed", "reset", "start"}
      BY <1>1 DEF GetControllerMode, HomeAfterList, ToggleAfterList, Steps
  <2>2. restore' \in BOOLEAN /\ mode' \in Controllers \cup {"unknown"} /\ failed' \in BOOLEAN
      BY <1>1 DEF GetControllerMode, RestoreAfterList, Controllers
  <2>3. MotionTypeOK'
      BY <1>1, <2>1, <2>2 DEF IInv, MotionTypeOK, GetControllerMode, seeding, robot, homeServer
  <2>4. pc' = "goal" => m = "trajectory"
      BY <1>1 DEF GetControllerMode, HomeAfterList, ToggleAfterList
  <2>5. m = "trajectory" => active = {"trajectory"}
      BY <1>1 DEF GetControllerMode, Answers, ModeOf, IInv, MotionTypeOK
  <2> QED BY <1>1, <2>1, <2>3, <2>4, <2>5
      DEF IInv, GoalPrepared, StartedUnderServo, GetControllerMode, robot
<1>2. CASE ListAgain(m)
    BY <1>2 DEF IInv, MotionTypeOK, GoalPrepared, StartedUnderServo, ListAgain, Steps,
       Controllers, seeding, robot, homeServer
<1> QED BY <1>1, <1>2

LEMMA TriggersKeep == ASSUME IInv, StopMoveitServo \/ StartMoveitServo PROVE IInv'
<1>1. /\ servoNode' \in BOOLEAN /\ failed' \in BOOLEAN
      /\ abandoned' \subseteq Requests
  <2>1. \A service \in {"stop_servo", "start_servo"} :
            [kind |-> service, off |-> {}] \in Requests
      BY DEF Requests
  <2>2. CASE \E service \in {"stop_servo", "start_servo"} : TriggerLate(service)
      BY <2>1, <2>2 DEF TriggerLate, IInv, MotionTypeOK
  <2>3. CASE TriggerFails \/ TriggerSkipped \/ \E on \in BOOLEAN : TriggerWorks(on)
      BY <2>3 DEF TriggerFails, TriggerSkipped, TriggerWorks, IInv, MotionTypeOK
  <2> QED BY <2>2, <2>3 DEF StopMoveitServo, StartMoveitServo
<1>2. CASE StopMoveitServo
  <2>1. pc' \in {"to_trajectory", "read"}
      BY <1>2 DEF StopMoveitServo
  <2> QED BY <1>1, <1>2, <2>1
      DEF IInv, MotionTypeOK, GoalPrepared, StartedUnderServo, StopMoveitServo, Steps,
          seeding, homeServer
<1>3. CASE StartMoveitServo
    BY <1>1, <1>3, LocalsTyped
    DEF IInv, MotionTypeOK, GoalPrepared, StartedUnderServo, StartMoveitServo, Steps,
        homeServer
<1> QED BY <1>2, <1>3

\* A switch ends the routine, or leaves the controller it asked for active.
LEMMA SwitchOutcome ==
    ASSUME IInv, NEW on \in Controllers, NEW off \in SUBSET Controllers,
           NEW after \in Steps \ {"preseed"}, after = "seed" => seed # None,
           Switch(on, off, after)
    PROVE  /\ MotionTypeOK'
           /\ pc' = "idle" \/ (pc' = after /\ active' = {on})
           /\ meddled' = meddled
<1>1. /\ active' \in {{}, {"trajectory"}, {"servo"}}
      /\ target' \in Positions \cup {None}
      /\ pc' = "idle" \/ (pc' = after /\ active' = {on})
  <2>1. CASE SwitchSucceeds(on, off, after)
      BY <2>1 DEF SwitchSucceeds, Switched, Controllers, IInv, MotionTypeOK
  <2>2. CASE SwitchFails(off) \/ SwitchTimesOut(on, off)
      BY <2>2 DEF SwitchFails, SwitchTimesOut, IInv, MotionTypeOK
  <2> QED BY <2>1, <2>2 DEF Switch
<1>2. abandoned' \subseteq Requests /\ failed' \in BOOLEAN
  <2>1. CASE SwitchSucceeds(on, off, after) \/ SwitchFails(off)
      BY <2>1 DEF SwitchSucceeds, SwitchFails, IInv, MotionTypeOK
  <2>2. CASE SwitchTimesOut(on, off)
    <3>1. [kind |-> on, off |-> off] \in Requests
        BY DEF Requests
    <3> QED BY <2>2, <3>1 DEF SwitchTimesOut, IInv, MotionTypeOK
  <2> QED BY <2>1, <2>2 DEF Switch
<1>3. Locals /\ UNCHANGED <<heard, servoNode, pos, homeServer, meddled>>
    BY DEF Switch
<1> QED BY <1>1, <1>2, <1>3, LocalsTyped DEF IInv, MotionTypeOK, Steps, homeServer

LEMMA SwitchesKeep == ASSUME IInv, SwitchToTrajectory \/ SwitchToServo PROVE IInv'
<1>1. CASE SwitchToTrajectory
  <2>1. Deactivates(mode) \in SUBSET Controllers
      BY DEF Deactivates, Controllers
  <2>2. AfterTrajectory \in {"goal", "idle"}
      BY DEF AfterTrajectory
  <2> QED BY <1>1, <2>1, <2>2, SwitchOutcome
      DEF SwitchToTrajectory, IInv, GoalPrepared, StartedUnderServo, Controllers, Steps
<1>2. CASE SwitchToServo
  <2>1. DeactivatesForServo \in SUBSET Controllers
      BY DEF DeactivatesForServo, Controllers
  <2>2. AfterServo \in {"seed", "reset"} /\ (AfterServo = "seed" => seed # None)
      BY DEF AfterServo
  <2> QED BY <1>2, <2>1, <2>2, SwitchOutcome
      DEF SwitchToServo, IInv, GoalPrepared, StartedUnderServo, Controllers, Steps
<1> QED BY <1>1, <1>2

LEMMA GoalKeeps == ASSUME IInv, SendGoal \/ GoalResponse \/ GoalResult PROVE IInv'
<1>1. CASE SendGoal
    BY <1>1, LocalsTyped DEF IInv, MotionTypeOK, GoalPrepared, StartedUnderServo,
       SendGoal, Steps, robot, homeServer
<1>2. CASE GoalResponse
    BY <1>2, LocalsTyped DEF IInv, MotionTypeOK, GoalPrepared, StartedUnderServo,
       GoalResponse, Steps, robot, homeServer
<1>3. CASE GoalResult
  <2>1. pos' \in Positions /\ failed' \in BOOLEAN
      BY <1>3, MotionAssumption DEF IInv, MotionTypeOK, GoalResult
  <2>2. pc' \in {"relist", "idle"}
      BY <1>3 DEF GoalResult, AfterResult
  <2> QED BY <1>3, <2>1, <2>2, LocalsTyped
      DEF IInv, MotionTypeOK, GoalPrepared, StartedUnderServo, GoalResult, Steps, homeServer
<1> QED BY <1>1, <1>2, <1>3

LEMMA SeedKeeps == ASSUME IInv, ReadJoints \/ PublishSeed \/ ResetServoStatus PROVE IInv'
<1>1. CASE ReadJoints
    BY <1>1 DEF IInv, MotionTypeOK, GoalPrepared, StartedUnderServo, ReadJoints, SeedRead,
       Steps, robot, homeServer, observers
<1>2. CASE PublishSeed
    BY <1>2 DEF IInv, MotionTypeOK, GoalPrepared, StartedUnderServo, PublishSeed,
       ServoCommand, Steps, homeServer, observers
<1>3. CASE ResetServoStatus
    BY <1>3 DEF IInv, MotionTypeOK, GoalPrepared, StartedUnderServo, ResetServoStatus,
       Steps, robot, homeServer, observers
<1> QED BY <1>1, <1>2, <1>3

LEMMA StutterKeeps == IInv /\ UNCHANGED motionVars => IInv'
BY DEF IInv, MotionTypeOK, GoalPrepared, StartedUnderServo, motionVars, node, robot,
   homeServer, observers

-----------------------------------------------------------------------------
\* The invariant holds of every behaviour, whatever fails, times out or is
\* executed late.
THEOREM Inductive == MotionSpec => []IInv
<1>1. IInv /\ [MotionNext]_motionVars => IInv'
    BY WorldKeeps, BeginKeeps, ListKeeps, TriggersKeep, SwitchesKeep, GoalKeeps, SeedKeeps,
       StutterKeeps DEF MotionNext, RoutineStep
<1> QED BY InitIInv, <1>1, PTL DEF MotionSpec

\* Every variable has its type, and publish_servo_seed never gets None.
THEOREM TypeCorrect == MotionSpec => []MotionTypeOK
<1>1. IInv => MotionTypeOK BY DEF IInv
<1> QED BY <1>1, Inductive, PTL

\* The home goal is only sent and waited for under the trajectory controller,
\* up to switches that are executed late.
THEOREM GoalTheorem == MotionSpec => []GoalUnderTrajectory
<1>1. IInv => GoalUnderTrajectory BY DEF IInv, GoalPrepared, GoalUnderTrajectory
<1> QED BY <1>1, Inductive, PTL

\* MoveIt Servo is seeded, reset and started only under the servo controller,
\* up to switches that are executed late.
THEOREM StartTheorem == MotionSpec => []StartedUnderServo
<1>1. IInv => StartedUnderServo BY DEF IInv
<1> QED BY <1>1, Inductive, PTL

-----------------------------------------------------------------------------
(* What MoveIt Servo and the controllers have to do with each other.       *)

Between == {"to_trajectory", "read", "preseed", "to_servo"}
Last == {"seed", "reset", "start"}

\* As long as no call has failed, the servo node is off from its stop to its
\* start, and follows its controller outside.
AgreeInv ==
    ManageServoNode /\ ~failed =>
        /\ abandoned = {}
        /\ pc \notin Between \cup Last => (servoNode <=> "servo" \in active)
        /\ pc \in Between \cup Last => ~servoNode
        /\ pc \in Last => active = {"servo"}

\* A home run that took the servo controller away remembers to bring it back.
RestoreInv ==
    /\ ManageServoNode /\ AutoSwitchForHome /\ ReturnToServoAfterHome
    /\ ~failed /\ pc # "idle" /\ task = "home" /\ startedIn = {"servo"}
    => /\ pc = "list" => active = {"servo"}
       /\ pc \in {"stop", "to_trajectory", "goal", "accept", "result"} => restore

\* The faults under which StreamNeedsController is claimed: the servo's own
\* services work, and no switch is executed late.
ServoCallsWork ==
    ManageServoNode /\ Faults \cap {"trigger_fails", "trigger_late", "switch_late"} = {}
StreamInv ==
    ServoCallsWork =>
        /\ abandoned = {}
        /\ StreamNeedsController
        /\ pc \in Between => ~servoNode
        /\ pc \in Last => active = {"servo"}


LEMMA AgreeKeeps == IInv /\ AgreeInv /\ [MotionNext]_motionVars => AgreeInv'
<1> SUFFICES ASSUME IInv, AgreeInv, [MotionNext]_motionVars, ManageServoNode, ~failed'
    PROVE  AgreeInv'
    BY DEF AgreeInv
<1> USE DEF AgreeInv, Between, Last
<1>1. CASE UNCHANGED motionVars
    BY <1>1 DEF motionVars, node, robot, observers
<1>2. CASE WorldStep
  <2>1. CASE \E p \in Positions : ServoMoves(p) \/ ExternalMotion(p)
      BY <2>1 DEF ServoMoves, ExternalMotion, node, observers
  <2>2. CASE ServoFollows \/ OnJointState
      BY <2>2 DEF ServoFollows, OnJointState, node, robot, observers
  <2>3. CASE ServerDies \/ ServerRestarts
      BY <2>3 DEF ServerDies, ServerRestarts, node, robot, observers
  <2>4. CASE \E r \in abandoned : LateRequest(r)
      BY <2>4 DEF LateRequest
  <2> QED BY <1>2, <2>1, <2>2, <2>3, <2>4 DEF WorldStep
<1>3. CASE BeginHome \/ BeginToggle
    BY <1>3 DEF BeginHome, BeginToggle, robot
<1>4. CASE \E m \in {"trajectory", "servo", "unknown"} : GetControllerMode(m) \/ ListAgain(m)
  <2>1. pc' \notin Between \cup Last
      BY <1>4 DEF GetControllerMode, ListAgain, HomeAfterList, ToggleAfterList
  <2>2. pc \notin Between \cup Last /\ ~failed
      BY <1>4 DEF GetControllerMode, ListAgain, IInv, MotionTypeOK
  <2>3. UNCHANGED <<servoNode, active, abandoned>>
      BY <1>4 DEF GetControllerMode, ListAgain, robot
  <2> QED BY <2>1, <2>2, <2>3
<1>5. CASE StopMoveitServo
    BY <1>5 DEF StopMoveitServo, TriggerWorks, TriggerFails, TriggerLate, TriggerSkipped
<1>6. CASE SwitchToTrajectory
    BY <1>6 DEF SwitchToTrajectory, Switch, SwitchSucceeds, SwitchFails, SwitchTimesOut,
       Switched, AfterTrajectory
<1>7. CASE SendGoal \/ GoalResponse
    BY <1>7 DEF SendGoal, GoalResponse, robot
<1>8. CASE GoalResult
    BY <1>8 DEF GoalResult, AfterResult
<1>9. CASE ReadJoints
    BY <1>9 DEF ReadJoints, robot, observers
<1>10. CASE PublishSeed
    BY <1>10 DEF PublishSeed, observers
<1>11. CASE SwitchToServo
    BY <1>11 DEF SwitchToServo, Switch, SwitchSucceeds, SwitchFails, SwitchTimesOut,
       Switched, AfterServo
<1>12. CASE ResetServoStatus
    BY <1>12 DEF ResetServoStatus, robot, observers
<1>13. CASE StartMoveitServo
    BY <1>13 DEF StartMoveitServo, TriggerWorks, TriggerFails, TriggerLate, TriggerSkipped
<1> QED BY <1>1, <1>2, <1>3, <1>4, <1>5, <1>6, <1>7, <1>8, <1>9, <1>10, <1>11, <1>12,
           <1>13 DEF MotionNext, RoutineStep

LEMMA StreamKeeps == IInv /\ StreamInv /\ [MotionNext]_motionVars => StreamInv'
<1> SUFFICES ASSUME IInv, StreamInv, [MotionNext]_motionVars, ServoCallsWork
    PROVE  StreamInv'
    BY DEF StreamInv, ServoCallsWork
<1> USE DEF StreamInv, StreamNeedsController, Between, Last
<1>1. CASE UNCHANGED motionVars
    BY <1>1 DEF motionVars, node, robot
<1>2. CASE WorldStep
  <2>1. CASE \E p \in Positions : ServoMoves(p) \/ ExternalMotion(p)
      BY <2>1 DEF ServoMoves, ExternalMotion, node
  <2>2. CASE ServoFollows \/ OnJointState
      BY <2>2 DEF ServoFollows, OnJointState, node, robot
  <2>3. CASE ServerDies \/ ServerRestarts
      BY <2>3 DEF ServerDies, ServerRestarts, node, robot
  <2>4. CASE \E r \in abandoned : LateRequest(r)
      BY <2>4
  <2> QED BY <1>2, <2>1, <2>2, <2>3, <2>4 DEF WorldStep
<1>3. CASE BeginHome \/ BeginToggle
    BY <1>3 DEF BeginHome, BeginToggle, robot
<1>4. CASE \E m \in {"trajectory", "servo", "unknown"} : GetControllerMode(m) \/ ListAgain(m)
  <2>1. pc' \notin Between \cup Last
      BY <1>4 DEF GetControllerMode, ListAgain, HomeAfterList, ToggleAfterList
  <2>2. UNCHANGED <<servoNode, active, abandoned>>
      BY <1>4 DEF GetControllerMode, ListAgain, robot
  <2> QED BY <2>1, <2>2
<1>5. CASE StopMoveitServo
    BY <1>5 DEF StopMoveitServo, TriggerWorks, TriggerFails, TriggerLate, TriggerSkipped,
       ServoCallsWork
<1>6. CASE SwitchToTrajectory
    BY <1>6 DEF SwitchToTrajectory, Switch, SwitchSucceeds, SwitchFails, SwitchTimesOut,
       Switched, AfterTrajectory, ServoCallsWork
<1>7. CASE SendGoal \/ GoalResponse
    BY <1>7 DEF SendGoal, GoalResponse, robot
<1>8. CASE GoalResult
    BY <1>8 DEF GoalResult, AfterResult
<1>9. CASE ReadJoints
    BY <1>9 DEF ReadJoints, robot
<1>10. CASE PublishSeed
    BY <1>10 DEF PublishSeed, observers
<1>11. CASE SwitchToServo
    BY <1>11 DEF SwitchToServo, Switch, SwitchSucceeds, SwitchFails, SwitchTimesOut,
       Switched, AfterServo, ServoCallsWork
<1>12. CASE ResetServoStatus
    BY <1>12 DEF ResetServoStatus, robot
<1>13. CASE StartMoveitServo
    BY <1>13 DEF StartMoveitServo, TriggerWorks, TriggerFails, TriggerLate, TriggerSkipped,
       ServoCallsWork
<1> QED BY <1>1, <1>2, <1>3, <1>4, <1>5, <1>6, <1>7, <1>8, <1>9, <1>10, <1>11, <1>12,
           <1>13 DEF MotionNext, RoutineStep

\* The routine's place, its locals and failed only change in its own steps.
LEMMA RestoreKeeps ==
    IInv /\ AgreeInv /\ RestoreInv /\ [MotionNext]_motionVars => RestoreInv'
<1> SUFFICES ASSUME IInv, AgreeInv, RestoreInv, [MotionNext]_motionVars,
                    ManageServoNode, AutoSwitchForHome, ReturnToServoAfterHome,
                    ~failed', pc' # "idle", task' = "home", startedIn' = {"servo"}
    PROVE  RestoreInv'
    BY DEF RestoreInv
<1> USE DEF RestoreInv
<1>1. CASE UNCHANGED motionVars
    BY <1>1 DEF motionVars, node, robot, observers
<1>2. CASE WorldStep
  <2>1. CASE \E p \in Positions : ServoMoves(p) \/ ExternalMotion(p)
      BY <2>1 DEF ServoMoves, ExternalMotion, node, observers
  <2>2. CASE ServoFollows \/ OnJointState
      BY <2>2 DEF ServoFollows, OnJointState, node, robot, observers
  <2>3. CASE ServerDies \/ ServerRestarts
      BY <2>3 DEF ServerDies, ServerRestarts, node, robot, observers
  <2>4. CASE \E r \in abandoned : LateRequest(r)
      BY <2>4 DEF LateRequest, AgreeInv
  <2> QED BY <1>2, <2>1, <2>2, <2>3, <2>4 DEF WorldStep
<1>3. CASE BeginHome \/ BeginToggle
    BY <1>3 DEF BeginHome, BeginToggle, robot
<1>4. CASE \E m \in {"trajectory", "servo", "unknown"} : GetControllerMode(m)
  <2>1. PICK m \in {"trajectory", "servo", "unknown"} : GetControllerMode(m)
      BY <1>4
  <2>2. active = {"servo"} /\ m = ModeOf(active)
      BY <2>1 DEF GetControllerMode, IInv, MotionTypeOK
  <2>3. m = "servo"
      BY <2>2 DEF ModeOf
  <2> QED BY <2>1, <2>3 DEF GetControllerMode, RestoreAfterList, HomeAfterList
<1>5. CASE \E m \in {"trajectory", "servo", "unknown"} : ListAgain(m)
    BY <1>5 DEF ListAgain
<1>6. CASE StopMoveitServo
  <2>1. ~failed
      BY <1>6 DEF StopMoveitServo, TriggerWorks, TriggerFails, TriggerLate, TriggerSkipped
  <2> QED BY <1>6, <2>1 DEF StopMoveitServo
<1>7. CASE SwitchToTrajectory
    BY <1>7 DEF SwitchToTrajectory, Switch, SwitchSucceeds, SwitchFails, SwitchTimesOut,
       AfterTrajectory, Locals
<1>8. CASE SendGoal \/ GoalResponse
    BY <1>8 DEF SendGoal, GoalResponse, Locals, IInv, MotionTypeOK
<1>9. CASE GoalResult
    BY <1>9 DEF GoalResult, AfterResult
<1>10. CASE ReadJoints \/ PublishSeed \/ ResetServoStatus
    BY <1>10 DEF ReadJoints, PublishSeed, ResetServoStatus
<1>11. CASE SwitchToServo
    BY <1>11 DEF SwitchToServo, Switch, SwitchSucceeds, SwitchFails, SwitchTimesOut,
       AfterServo
<1>12. CASE StartMoveitServo
    BY <1>12 DEF StartMoveitServo
<1> QED BY <1>1, <1>2, <1>3, <1>4, <1>5, <1>6, <1>7, <1>8, <1>9, <1>10, <1>11, <1>12
    DEF MotionNext, RoutineStep

\* All three, of every behaviour.
LEMMA AlwaysConsistent == MotionSpec => [](AgreeInv /\ RestoreInv /\ StreamInv)
<1>1. MotionInit => AgreeInv /\ RestoreInv /\ StreamInv
    BY DEF MotionInit, AgreeInv, RestoreInv, StreamInv, StreamNeedsController, Between, Last
<1>2. /\ IInv /\ AgreeInv /\ RestoreInv /\ StreamInv /\ [MotionNext]_motionVars
      => (AgreeInv /\ RestoreInv /\ StreamInv)'
    BY AgreeKeeps, RestoreKeeps, StreamKeeps
<1> QED BY <1>1, <1>2, Inductive, PTL DEF MotionSpec

\* As long as no call fails, a routine that has come to its end leaves MoveIt
\* Servo running exactly if its controller is active, whatever the faults are.
THEOREM ModesTheorem == ManageServoNode => (MotionSpec => []ModesAgree)
<1> SUFFICES ASSUME ManageServoNode PROVE MotionSpec => []ModesAgree
    OBVIOUS
<1>1. AgreeInv => ModesAgree
    BY DEF AgreeInv, ModesAgree, Between, Last
<1> QED BY <1>1, AlwaysConsistent, PTL

\* MoveIt Servo never streams into a controller that does not own the joints,
\* if its own services work and no switch is executed late; the other faults
\* may happen in any number.
THEOREM StreamTheorem == ServoCallsWork => (MotionSpec => []StreamNeedsController)
<1> SUFFICES ASSUME ServoCallsWork PROVE MotionSpec => []StreamNeedsController
    OBVIOUS
<1>1. StreamInv => StreamNeedsController
    BY DEF StreamInv
<1> QED BY <1>1, AlwaysConsistent, PTL

\* A home run under the servo controller in which nothing fails ends under it,
\* with MoveIt Servo running again.
THEOREM RestoreTheorem == ManageServoNode => (MotionSpec => RestoresServo)
<1> SUFFICES ASSUME ManageServoNode PROVE MotionSpec => RestoresServo
    OBVIOUS
<1>1. ASSUME IInv, AgreeInv, RestoreInv, [MotionNext]_motionVars,
             pc # "idle", pc' = "idle", task = "home", AutoSwitchForHome,
             ReturnToServoAfterHome, startedIn = {"servo"}, ~failed'
      PROVE  active' = {"servo"} /\ servoNode'
  <2>1. CASE StartMoveitServo
      BY <1>1, <2>1 DEF StartMoveitServo, AgreeInv, Last, TriggerWorks, TriggerFails,
         TriggerLate, TriggerSkipped
  <2>2. CASE GoalResult
      BY <1>1, <2>2 DEF GoalResult, AfterResult, RestoreInv
  <2>3. CASE SendGoal \/ GoalResponse
      BY <1>1, <2>3 DEF SendGoal, GoalResponse, IInv, MotionTypeOK
  <2>4. CASE SwitchToTrajectory \/ SwitchToServo
      BY <1>1, <2>4 DEF SwitchToTrajectory, SwitchToServo, Switch, SwitchSucceeds,
         SwitchFails, SwitchTimesOut, AfterTrajectory, AfterServo
  <2>5. CASE UNCHANGED pc
      BY <1>1, <2>5
  <2>6. CASE \E m \in {"trajectory", "servo", "unknown"} : GetControllerMode(m) \/ ListAgain(m)
      BY <1>1, <2>6 DEF GetControllerMode, ListAgain, HomeAfterList, ToggleAfterList
  <2>7. CASE StopMoveitServo \/ ReadJoints \/ PublishSeed \/ ResetServoStatus
      BY <1>1, <2>7 DEF StopMoveitServo, ReadJoints, PublishSeed, ResetServoStatus
  <2>8. CASE BeginHome \/ BeginToggle
      BY <1>1, <2>8 DEF BeginHome, BeginToggle
  <2>9. WorldStep \/ UNCHANGED motionVars => UNCHANGED pc
      BY DEF WorldStep, ServoMoves, ExternalMotion, ServoFollows, OnJointState,
         ServerDies, ServerRestarts, LateRequest, motionVars, node
  <2> QED BY <1>1, <2>1, <2>2, <2>3, <2>4, <2>5, <2>6, <2>7, <2>8, <2>9
      DEF MotionNext, RoutineStep
<1>2. IInv /\ AgreeInv /\ RestoreInv /\ [MotionNext]_motionVars
      => [pc # "idle" /\ pc' = "idle" /\ task = "home" /\ AutoSwitchForHome
            /\ ReturnToServoAfterHome /\ startedIn = {"servo"} /\ ~failed'
            => active' = {"servo"} /\ servoNode']_motionVars
    BY <1>1
<1> QED BY <1>2, Inductive, AlwaysConsistent, PTL DEF MotionSpec, RestoresServo

-----------------------------------------------------------------------------
(* The seed.                                                               *)

\* What SeedIsCurrent takes: nobody but MoveIt Servo and the home action moves
\* the arm.
ArmIsOurs == ServoCallsWork /\ "external_motion" \notin Faults

\* If the joint state that was read was current, the arm stands still from then
\* on: MoveIt Servo is off, and the servo controller, if it is active, will
\* refuse to be switched to.
SeedInv ==
    ArmIsOurs /\ seedCurrent =>
        /\ pc \in {"preseed", "to_servo"} /\ active # {"servo"} /\ seed # None => seed = pos
        /\ pc = "seed" => seed = pos /\ target = None /\ ~servoNode

LEMMA SeedHolds == IInv /\ StreamInv /\ SeedInv /\ [MotionNext]_motionVars => SeedInv'
<1> SUFFICES ASSUME IInv, StreamInv, SeedInv, [MotionNext]_motionVars, ArmIsOurs,
                    seedCurrent'
    PROVE  SeedInv'
    BY DEF SeedInv, ArmIsOurs, ServoCallsWork
<1>0. abandoned = {} /\ (pc \in {"preseed", "to_servo"} => ~servoNode)
    BY DEF ArmIsOurs, StreamInv, Between
<1> USE DEF SeedInv
<1>1. CASE UNCHANGED motionVars
    BY <1>1 DEF motionVars, node, robot, observers
<1>2. CASE WorldStep
  <2>1. CASE \E p \in Positions : ServoMoves(p)
      BY <1>0, <2>1 DEF ServoMoves, node, observers
  <2>2. CASE ServoFollows
    <3>1. active = {"servo"} /\ target # None /\ UNCHANGED <<pc, active, seedCurrent>>
        BY <2>2 DEF ServoFollows, node, observers, IInv, MotionTypeOK
    <3> QED BY <3>1
  <2>3. CASE OnJointState
      BY <2>3 DEF OnJointState, node, robot, observers
  <2>4. CASE ServerDies \/ ServerRestarts
      BY <2>4 DEF ServerDies, ServerRestarts, node, robot, observers
  <2> QED BY <1>0, <1>2, <2>1, <2>2, <2>3, <2>4 DEF WorldStep, ExternalMotion, ArmIsOurs
<1>3. CASE BeginHome \/ BeginToggle
    BY <1>3 DEF BeginHome, BeginToggle
<1>4. CASE \E m \in {"trajectory", "servo", "unknown"} : GetControllerMode(m) \/ ListAgain(m)
    BY <1>4 DEF GetControllerMode, ListAgain, HomeAfterList, ToggleAfterList
<1>5. CASE StopMoveitServo
    BY <1>5 DEF StopMoveitServo
<1>6. CASE SwitchToTrajectory
    BY <1>6 DEF SwitchToTrajectory, Switch, SwitchSucceeds, SwitchFails, SwitchTimesOut,
       AfterTrajectory
<1>7. CASE SendGoal \/ GoalResponse
    BY <1>7 DEF SendGoal, GoalResponse
<1>8. CASE GoalResult
    BY <1>8 DEF GoalResult, AfterResult
<1>9. CASE ReadJoints
  <2>1. heard = pos /\ seed' \in {heard, None} /\ pos' = pos
        /\ pc' \in {"preseed", "to_servo"}
      BY <1>9 DEF ReadJoints, SeedRead, robot
  <2> QED BY <2>1
<1>10. CASE PublishSeed
    BY <1>10 DEF PublishSeed, observers
<1>11. CASE SwitchToServo
  <2>1. CASE pc' = "idle"
      BY <2>1
  <2>2. CASE pc' # "idle"
    <3>1. /\ active # {"servo"} /\ target' = None
          /\ pc' = "reset" \/ (pc' = "seed" /\ seed # None)
        BY <1>11, <2>2 DEF SwitchToServo, Switch, SwitchSucceeds, SwitchFails,
           SwitchTimesOut, SwitchApplies, Switched, DeactivatesForServo, AfterServo
    <3>2. seed' = seed /\ seedCurrent' = seedCurrent
        BY <1>11, <2>2, LocalsTyped DEF SwitchToServo, Switch, IInv
    <3> QED BY <1>0, <1>11, <3>1, <3>2 DEF SwitchToServo, Switch
  <2> QED BY <2>1, <2>2
<1>12. CASE ResetServoStatus
    BY <1>12 DEF ResetServoStatus
<1>13. CASE StartMoveitServo
    BY <1>13 DEF StartMoveitServo
<1> QED BY <1>1, <1>2, <1>3, <1>4, <1>5, <1>6, <1>7, <1>8, <1>9, <1>10, <1>11, <1>12,
           <1>13 DEF MotionNext, RoutineStep

\* A seed that was current when the joints were read is current when the servo
\* controller gets it, if nobody else moves the arm and the servo's own calls
\* work: stopping MoveIt Servo first is what keeps the arm still meanwhile.
THEOREM SeedTheorem == ArmIsOurs => (MotionSpec => SeedIsCurrent)
<1> SUFFICES ASSUME ArmIsOurs PROVE MotionSpec => SeedIsCurrent
    OBVIOUS
<1>1. MotionInit => SeedInv
    BY DEF MotionInit, SeedInv
<1>2. IInv /\ StreamInv /\ SeedInv
      => [PublishSeed /\ pc = "seed" /\ seedCurrent => target' = pos]_motionVars
  <2>1. ASSUME IInv, StreamInv, SeedInv, PublishSeed, pc = "seed",
               seedCurrent
        PROVE  target' = pos
      BY <2>1 DEF SeedInv, StreamInv, ArmIsOurs, Last, PublishSeed, ServoCommand
  <2> QED BY <2>1
<1> QED BY <1>1, <1>2, SeedHolds, Inductive, AlwaysConsistent, PTL
    DEF MotionSpec, SeedIsCurrent
=============================================================================
