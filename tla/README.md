# TLA+ models of the Unity / ROS 2 digital twin

The repository connects a Unity scene to a UR arm through ROS 2. Twelve Python
nodes run on the ROS side: *command bridges* (from Unity, or from the
teleoperation stack, towards the robot), *state bridges* (from the robot to
Unity), a torque bridge that speaks RTDE, and a manager that supervises them
all. Every node is a small single-threaded program, and what can go wrong is
mostly **between** programs: an answer that never comes, a message that is
overwritten, a controller switch that is executed after the caller has given up,
a process that is replaced while its predecessor is still shutting down. These
models are about that.

Paths below are relative to `src/src/digital_twin_on_unity_and_ros2/` unless
they start with `src/`; `…/command_bridges` stands for
`digital_twin_on_unity_and_ros2/command_bridges`.

## 1. Inventory

| component | state | operations | interacts with | what is hard | what makes it correct |
|---|---|---|---|---|---|
| **Robot program watchdog** `…/command_bridges/robot_program_watchdog_ros2unity.py` | last_running, false_since, last_resend_time, consecutive_resends, _resend_in_flight, _gate_active_since, _backoff_warned | message on the latched topic, 1 Hz `check`, blocking `_send_resend`, answer callback | UR driver (topic and service), number of publishers of the twist topic, manager (respawn) | data read before a blocking wait and used after it; depth-1 latched queue; a call without an answer; a process that forgets | resends are within budget, apart, one at a time, only when wanted; a lasting outage is answered |
| **Twist display conditioner** `…/twist_display_conditioner_ros2unity.py`, `display_twist_state.py` | hold machine (phase, two times), cached twist | twist, command and status callbacks, display timer | teleop manager upstream, Unity's display | three queues read in any order; two timeouts; two objects that have to agree; a silent reset | no motion on the screen of an idle machine; quick release; the display ends at zero |
| **Keyboard servo, motion routines** `…/keyboard_unity_servo_ros2unity.py` 388-705 | controller mode, seed, joint state, restore flag | go home (`h`), toggle controller (`c`): sequences of blocking calls | controller manager, MoveIt Servo, home action server, robot | every call fails, times out or is executed late; results that are ignored; two waits without a timeout; stale joint state | goals and servo starts only under their controllers; the servo is restored; routines end |
| **Keyboard servo, input loop** the rest of that file; `keyboard_jog.py` | held_keys, _pending_actions, next_publish, recorded home pose | key messages, dispatch of the action keys (stop, clear, home, toggle, record), periodic publish, Ctrl-C | Unity, the routines above | nested spins inside actions; queue of bounded depth; a loop that blocks | keys released mean zero twist; stops are published; clear stays clear; publishing goes on |
| **Digital twin manager** `…/manager/digital_twin_manager_node.py` | lock file, a `Popen` handle per node, shutting-down flag | lock, start, monitor (every 2 s), stop | the twelve nodes through `ros2 run`, other managers, the OS | the process it waits for is a wrapper; failures in the middle of a loop; a killed manager; two managers | one supervisor; one copy of a node under it; exited nodes come back; a shutdown reaches every child |
| **RTDE torque source and publisher** `src/src/ur_rtde_torque_bridge/…` | socket, connected flag, byte buffer | connect with its handshake (blocking), drain and parse, publish and reconnect timers, destroy | the robot over TCP | packets over read boundaries; other packets among the samples; failures at every step of connecting; a half-open connection | the freshest whole sample is published; no socket is leaked; samples come again |
| **Teleop enable bridge** `…/command_bridges/teleop_enable_bridge_ros2unity.py` | none but the toggle it is handling | Bool message → `set_teleop_enable` after a wait of at most 0.5 s | Unity, teleop manager | toggles dropped while the service is away; several in flight; no echo to Unity | toggles take effect in order; the last one wins if it was not dropped |
| **Controller status bridge** `…/state_bridges/controller_status_bridge_ros2unity.py` | `_pending` | poll timer, answer | controller manager, Unity | a call that is never answered leaves `_pending` set | no call beside another; never an older list after a newer one |
| **Robot info bridge** `robot_info_bridge_ros2unity.py` | three values, three pending flags | the same, three times | dashboard and UR services, Unity | the same, for each value; answers that arrive between two timers | the same, for each value |
| **UR state bridge** `ur_state_bridge_ros2unity.py` | latest pose, mode, safety, program, scaling, wrench | six subscriptions, three timers | UR driver, Unity | latched and volatile topics mixed; queues overflow; the bridge or the driver starts anew | what is shown was true, and never goes back |
| **Command supervisor, IO state and tool data bridges** | none | republish a message | UR driver, command topics, Unity | overflow, nothing else | the same |
| **Joint state and joint torque bridges** | none | reorder a message by joint name and republish it | UR driver, Unity | the driver's order, extra joints, repeated names, short arrays | a reading is shown for the joint it is of |

Not modelled:

- *Launch files, parameters, packaging* (`setup.py`, `package.xml`, `launch/`,
  `config/`): declarative. Their numbers are constants of the runs.
- *Message definitions* (`msg/`, `srv/`): types without behaviour. A message
  is a model value or a record of the fields that some property tells apart.
- Log texts, labels of enumerations, stamps and units, everywhere.

The UR driver, the controller manager, MoveIt Servo, the action server, the
teleop manager, `ros2 run`, DDS and Unity are outside this repository. They are
modelled from what the code relies on and are marked external in `PROJECT.json`.

## 2. Modules

```
RobotProgramWatchdog ─────────────┬─ RobotProgramWatchdogProofs
                                  └─ MCRobotProgramWatchdog
DisplayTwistState ── TwistDisplayConditioner ─┬─ TwistDisplayConditionerProofs
                     DisplayPromise (abstract)┘  MCTwistDisplayConditioner
MotionSwitch ─┬─ MotionSwitchProofs, MCMotionSwitch
KeyboardJog ──┴─ KeyboardUnityServo ─┬─ KeyboardUnityServoProofs
                                     └─ MCKeyboardUnityServo
DigitalTwinManager ───────────────┬─ DigitalTwinManagerProofs
                                  └─ MCDigitalTwinManager
RtdeTorqueSource ─────────────────┬─ RtdeTorqueSourceProofs
                                  └─ MCRtdeTorqueSource
JointMessages ── UnityBridges ────┬─ UnityBridgesProofs
                 UnityPicture     └─ MCUnityBridges
                 (abstract)
```

`KeyboardUnityServoProofs` also extends `MotionSwitchProofs`, whose theorems it
takes over to the composition. `LeastNumber` holds two lemmas about sets of naturals
that `RtdeTorqueSourceProofs` and `UnityBridgesProofs` cite.

`RobotProgramWatchdog`. One action per callback: `OnProgramRunning`, the three
outcomes of `check` (`CheckStandsBy`, `CheckBacksOff`, `CheckSends`),
`SendResend`/`ServiceTimeout` for the two ends of `wait_for_service`, and
`OnResendResponse`. `pc = "waiting"` is the wait: the world moves, no callback
runs. The code stores clock readings and compares them with now(); the model
stores their ages, which `Tick` increases, so that time is finite: an age stops
at `AgeCap`, which no comparison of the code can tell from a larger one
(`TimingAssumption`). Respawning replaces the process with what `__init__` sets,
and the latched topic delivers its value again. `sinceCall`, `sinceOnline`,
`outageCalls` and `respawned` only watch.

`DisplayTwistState` is `display_twist_state.py` alone, with ages again.
`TwistDisplayConditioner` is the node around it: three inputs in separate
queues, each of which loses its oldest message when it is full. Commands on
the command topic are enumerated directly by `OnCommand`, which covers every
queue content. `DisplayPromise` is what the display promises, with no hold
machine at all: only the latest sample, only while it is fresh, cleared within
one period, nothing after a stop. `KeepsPromise` is the refinement.

`MotionSwitch`. `pc` names the next blocking call of a routine, so the other
processes move between any two calls: `list`, `stop`, `to_trajectory`, `goal`,
`accept`, `result` for the way home; `relist`, `stop_again`, `read`, `preseed`,
`to_servo`, `seed`, `reset`, `start` for the way back to the servo. Every call
has its failures, each enabled by a member of `Faults`. A call that timed out is
not cancelled by the code; it is kept in `abandoned` and may be executed at any
later time (`LateRequest`). A STRICT switch works only when it deactivates
exactly what is active. `ReadJoints` takes the last joint state whatever its age, or
nothing: the code leaves its loop after one spin if there is any (573-576), and
gives up without one or without one of the home joints. Observers: `meddled` (a
late request was executed), `failed` (a call has failed), `startedIn`
(controllers when the routine began), `seedCurrent` (the joint state read as a
seed was where the robot stood).
Between two routines the locals of the last one (`Locals`) have no value.

`KeyboardUnityServo` composes the input loop with the routines: it EXTENDS
`MotionSwitch` and conjoins its actions with an unchanged input side. The loop is
`spin` → `actions` → `publish`. `OnKeys` also runs while a routine blocks
(`pc # "idle"`), because every blocking call of the code spins the node. The
actions are `DispatchStop` (space), `DispatchStopAndClear` (x), `DispatchHome` and
`DispatchHomePose` (h: with home joints a routine, with a recorded pose one
command), `DispatchToggle` (c) and `DispatchRecord` (r and z, of which r sets the
home pose if the observation is fresh: a choice). `cleared` watches that an x was
executed and that no message with a held key has come since. `Interrupted` is Ctrl-C, which
publishes one last IDLE. `KeyboardJog` is the key mapping; a held-key string is
the set of its characters, which is all that `held_keys_to_twist` looks at, and
the two step sizes are factored out.

`DigitalTwinManager`. A child is the pair of the `ros2 run` wrapper the manager
holds and the node behind it, with one of the states running, leaving, orphan,
stuck, gone (unborn before it is started). `next` is the position in the start or
stop loop, so a fault may hit between any two children. Managers are processes of
their own, one of them started without respawning.

`RtdeTorqueSource`. `pc` names the reply that connect() waits for; it blocks the only
thread, so the timers run at `pc = "idle"` alone. The stream is modelled byte by byte,
each byte with the packet it belongs to and its place in it, since the boundaries
are what the parser can get wrong: `PublishTorques(k)` reads any number `k` of the
bytes that are there and parses what is complete. The robot is up, moody
(it refuses, closes, is slow) or down; its end of a connection may close or
vanish without a word. `arrived` and `published` watch the last sample that came
in whole, and the last that was published.

`UnityBridges` is seven nodes in one module. Their values travel by *channels*:
an attribute, a queue, a client and a pending flag of its own per value, with no
state shared between two of them. So a behaviour follows one channel, chosen in
`Init`, and an action is the part of a callback that handles it; no interleaving
of two channels is lost that a property about one could see. The channels differ in
how they get the value (latched or volatile topic, polled service,
toggle) and in how they pass it on (timer, at once, by a call). Values are
numbered in the order in which they become true. `JointMessages` is what the two
joint bridges do to one message, against its definition `ReadsByName`.
`UnityPicture` is what every one of them promises: the other side shows nothing,
or something that was true, and never something older than before.
A polled call may be answered (`Serve`), raise in the bridge (`CallRaises`: the
flag is cleared, the value stays) or vanish with its service; a toggle may be
taken over or refused (`Refuse`: the bridge warns and does nothing).
`KeepsPicture` is the refinement.

Operators marked `mutant` in the modules are wrong versions of their
neighbours. No specification uses them; replacing the right one by the wrong one
has to break the property that is about it.

## 3. Runs

| run | configuration | what it shows |
|---|---|---|
| `watchdog` | `MCRobotProgramWatchdog.cfg` | eight properties with flapping program, service and stack, lost calls and respawns |
| `watchdog_lost_reply` | `…_lost.cfg` | **violation**: one unanswered request ends all resending |
| `display` | `MCTwistDisplayConditioner.cfg` | safety, quick release, refinement of `DisplayPromise`, and the release at last |
| `display_rejected` | `…_rejected.cfg` | **violation**: a queued twist is displayed after the rejection |
| `motion_faults` | `MCMotionSwitch_faults.cfg` | what holds under every fault |
| `motion_partial` | `MCMotionSwitch_partial.cfg` | what holds when calls are refused but servo calls work and nothing is late |
| `keyboard` | `MCKeyboardUnityServo.cfg` | the loop with every action key, with and without home joints |
| `keyboard_hang` | `…_hang.cfg` | **violation**: the loop hangs with the home action server |
| `manager` | `MCDigitalTwinManager.cfg` | two managers and every fault |
| `torque` | `MCRtdeTorqueSource.cfg` | samples and sockets with every failure of connecting and reading |
| `bridges` | `MCUnityBridges.cfg` | every channel, with overflow, restarts of both sides, lost and late calls, irregular joint messages |
| `manager_copies` | `…_copies.cfg` | **violation**: copies of one node under successive managers |

### Properties

*Watchdog.* `OutageBudget`: one process sends at most max_consecutive_resends
requests per outage, also when the depth-1 latch swallows the short TRUE
between two outages. `ResendSpacing`: requests are at least
`ResendCooldown - ServiceWait` apart — not `ResendCooldown`, see section 6 —
or, for a new process, a fresh debounce apart. `NoUnsolicitedResend`: the stack
was online at most one service wait before the request.
`NoResendAgainstNews`: the request may hit a program that is running again, but
only while the message that says so is unread. `LatchedView`,
`OneRequestAtATime` relate the node's state with the world and with the wire.
`OutageAnswered`: a lasting outage uses the whole budget, unless an answer is
lost or the process is replaced over and over.

*Display.* `NoGhostMotion`, `CacheFollowsMachine` (so the None test of
publish_display never skips), `QuickRelease`, `KeepsPromise`, `Released`.

*Motion.* `GoalUnderTrajectory` and `StartedUnderServo` survive every fault
except a late switch, and say so with `~meddled`. `StreamNeedsController` does
need stop_servo to work: the code ignores its result (line 426), and with
`trigger_fails` TLC finds MoveIt Servo streaming into an inactive controller.
`SeedIsCurrent`: the calls between the reading of the joints and the publication of the
seed, the switch among them, do not outdate it, since MoveIt Servo is stopped first. Of a joint state that is old when it is read it says nothing, since the
code accepts one of any age (section 6). `ModesAgree` and `RestoresServo` are about
routines in which no call failed: after a failure the code leaves things as they
are. `RoutineEnds` holds because every call fails or returns; the two waits that do
not are the subject of `keyboard_hang`.

*Keyboard.* `ClearedStaysClear`: from an x on, through the actions and the
routine queued behind it and the ticks after them, the arm stays still until
a message with a held key comes. Such a message ends it also when it was sent
before the x: the node cannot tell. `StopPublished`: a stop that the node has
taken from its subscription is published, behind a home run or another action
queued before it. An action key that is lost in the full subscription is not
sent again, and no property covers it. `ReleaseZeroes`, `KeepsPublishing`.

*Manager.* `OneSupervisor`, `OneCopyPerManager` (of wrappers, all that the
manager can see), `NothingLeftRunning` (after a shutdown loop that came to its
end), `Respawns`.

*Torque.* `FreshestSample`: what is on the topic is the last sample of this
connection that came in whole, however TCP cuts the stream. `NoSocketLeak`:
outside connect() the socket is open exactly while is_connected(), after any
failure. `SamplesResume`: once the robot stays up samples flow again — unless its
end vanished without closing, see section 6.

*Bridges.* `ReadingsByName`, `KeepsPicture`; `CatchesUp`: once the far side stays up,
the picture becomes true and stays so — unless a call was lost, or
the last toggle lost or refused, which nothing in the code repairs.

### Bounds and why they are enough

- Watchdog: one unit is 0.5 s, so CheckPeriod 2, GateDebounce 2, FalseDebounce 3
  and ServiceWait 1 are the defaults; ResendCooldown 6 instead of 10 and MaxResends
  2 instead of 5 keep the run short and still make the cooldown longer than a
  debounce, two check periods and a wait together. The proofs need no such choice.
- Display: ages count in display periods; the hold lasts 5 and the timeout 2 of
  them, so a sample is handled before, between and after both expiries. Two
  velocities show a stale one; queues of depth 2 overflow.
- Motion: home and one or two other positions: a wrong seed is a position
  that differs from the current one. Routines follow each other without a bound.
- Keyboard: one jog key and one position, since only zero and nonzero twists and no positions
  matter here; key queue of depth 1 (overflow at once), at most two actions waiting
  *beside* the one that runs: a stop behind a home run, a home run behind an x, and
  one more that arrives while a routine blocks. `MaxPending` bounds a list that is
  unbounded in the code: `OnKeys` waits while it is full. The operator uses space, x
  and h where home joints are configured (h is the routine there, which switches
  the controllers and manages MoveIt Servo) and h, r and c where they are not (c is
  the other routine; h publishes the pose that r recorded). z is r without an
  effect that anything reads.
- Torque: header 3, data packet 5, other packets 4 bytes, at most 15 bytes on their
  way: three data packets, or any two packets and a part, so a read ends in
  a header, in a body, and between packets. Sample numbers count modulo 4, more
  than fit on the way.
- Bridges: four values of one channel, queues of depth 2: overflow, and a value
  that changes while an answer, a toggle or a queue still has the last two.
- Manager: two of the twelve nodes (the loop can break between them), two
  managers (after and beside each other), two copies of each node per manager;
  the last copy does not crash, since the bound leaves no room for its successor.

`CHECK_DEADLOCK FALSE` is used where the system may stop: all managers have
ended, or the home action server is gone and the routine waits for it.

### Fairness and its justification

- Watchdog, display: weak fairness of each callback (the executor runs what is ready;
  no callback of these nodes runs without end) and of the clock. `Serve` is weakly fair: a driver that
  stays up answers. Nothing is assumed of the program, the publishers or the
  service's availability.
- Motion: weak fairness of the routine (every call has a timeout; the two that do
  not wait for a goal that is answered unless its server died). Nothing is assumed
  of the robot, the joint states or the other processes.
- Keyboard: weak fairness of the loop, of the period and of Unity's frames, which
  are sent again and again; strong fairness of `OnKeys`, since the loop leaves
  and re-enters its spin and a waiting message is taken by one of them. The
  liveness properties about publishing and release assume that the operator
  at some time presses no more action keys: each of them may take the loop for
  a whole routine.
  They also assume that nobody presses Ctrl-C (`Runs`).
- Torque: weak fairness of connect() (each of its waits has a timeout) and of the timers;
  strong fairness of the robot's answers and samples, which it sends whenever
  there is room. Its moods, and closing or vanishing, are not fair.
- Bridges: weak fairness of the callbacks and timers, of a broadcaster
  that repeats its value; strong fairness of a service that is up (it is called again
  and again, and not every call raises or is refused) and of complete joint
  messages, which the driver sends all the time among incomplete ones of others.
- Manager: weak fairness of the loops, of the monitor timer, and of a node that was told
  to stop and obeys. Starting a manager and ending it are not fair.

## 4. Proofs

`RobotProgramWatchdogProofs` proves every safety property of the watchdog for
every value of the constants that satisfies `TimingAssumption` and
`ParameterAssumption` (periods and thresholds are naturals, none above
`AgeCap`). None is inductive alone: a request leaves in `SendResend`, but what
entitles the node to send it was decided in `CheckSends`, one wait earlier. The
inductive invariant `IInv` therefore adds

- `WaitingInv`, which carries the entitlement through the wait: budget left, last
  message "stopped", nothing in flight, stack online at most `waitAge` ago,
  cooldown over but for one wait;
- `ResendClock`, which relates the node's idea of its last resend with the true
  one: it is too old by at most one wait; a new process has none, but its
  debounce began after the last request;
- `BudgetInv`, `InFlightHasReply` and `OnlineClock`.

The type invariant, `OutageBudget`, `LatchedView`, `OneRequestAtATime` and
`FalseSinceTracks` (false_since is set exactly while the last message said
"stopped", so the repair at lines 188-190 is dead code) follow from it, and the action properties `ResendSpacing`,
`NoUnsolicitedResend`, `NoResendAgainstNews` from it and the one action that
sends (`RequestIsSend`).

`TwistDisplayConditionerProofs` proves the same way the type invariant, `NoGhostMotion`,
`CacheFollowsMachine`, `QuickRelease` and `KeepsPromise`: the conditioner
implements `DisplayPromise` for every hold time, period, queue depth and set of
velocities. Its invariant adds `MachineClock` (the time the machine looks at is
the age of the last sample; while priming, the sample before was not a quick
one) and `ScreenClock` (a visible sample is no older than the hold time plus
the age of the display timer).

`MotionSwitchProofs` proves every safety property of the routines for every
set of faults, positions and configuration flags. Only the two switches of a
routine change the active controllers, and a late request, which raises
`meddled`; so what a switch established stays true up to the next one.
`GoalPrepared` says so from the switch up to the goal, and makes
`GoalUnderTrajectory` and `StartedUnderServo` inductive together with the types.
The other four hold on conditions, which the theorems name:

- `ManageServoNode` for `ModesAgree` and `RestoresServo`: a node that does not start and
  stop MoveIt Servo has no part in either;
- `ServoCallsWork` for `StreamNeedsController`: `trigger_fails`, `trigger_late` and
  `switch_late` are not among the faults. Every other one may be;
- `ArmIsOurs` for `SeedIsCurrent`: moreover no other client moves the arm. Its
  invariant `SeedInv` carries a seed that was current when it was read to the publication:
  MoveIt Servo is off and the arm stands still between them, or the servo
  controller is active and refuses to be switched to.

`DigitalTwinManagerProofs` proves the type invariant, `OneSupervisor`, `OneCopyPerManager` and
`NothingLeftRunning` for any number of managers, nodes and copies and every set
of faults. The invariant adds `Held` (a wrapper that is alive is the one its
manager has the handle of, because a handle is replaced or forgotten only
after an exit was seen), `Unstarted` (the starting loop finds no handles before
it) and `Told` (behind the shutdown loop no wrapper is alive, and nothing is
started any more). It takes that names are distinct, which `ManagerAssumption`
states: they are the keys of a dict.

`KeyboardUnityServoProofs` proves that the composition implements the routines
(`ImplementsMotion`: `Spec => MotionSpec`): whatever the loop does, to the state of the
routines it is a step of theirs or a stutter. So everything `MotionSwitchProofs`
shows holds with keys arriving, queues overflowing and Ctrl-C at any call;
`RoutinesInLoop` says it of the two controller invariants, and the type invariant
gets `MotionTypeOK` that way. Its other half needs that a routine starts only where the
loop dispatches actions and that the loop waits for it (`InRoutine`).
`ClearedStaysClear` needs moreover that held_keys is empty, since the next
tick reads it, and that messages without a held key keep it so (`ClearInv`).

`RtdeTorqueSourceProofs` proves `NoSocketLeak`, the type invariant and
`FreshestSample` for all packet sizes, every cut of the stream and every failure.

- The parser is a recursive function, and the provers have no induction over data. The
  proof replaces it by the least-number principle (`LeastElement`, from the
  well-foundedness of < in the library): a solution of the recursion is written
  down explicitly, and two solutions would differ at a last position, after which
  they agree, so they agree there too. `ParsesWholePackets` is the result: on
  every *stream* — packets one behind the other, the last one perhaps
  unfinished — the loop stops behind the last whole packet.
- `ParserFindsFreshest` is what get_torques makes of it. The bytes of this read
  follow a buffer without a whole packet, so the newest sample found is the last one
  that ended in this read, or there is none; and what is left begins with a header
  and is shorter than its packet, so the next read finds a buffer without a whole
  packet again.
- The inductive invariant `StreamInv` says that the buffer followed by the wire is a
  stream; that, while the robot's end is alive, it ends at a packet's boundary, so
  the next packet continues it; and that nothing is buffered or on its way for a
  connection that is not there.

`UnityBridgesProofs` proves all safety properties of the bridges, for every kind of
channel, any queue depth and number of values.

- `EveryMessageByName` is about every joint message there is: names in any order,
  repeated, missing or extra, arrays of any lengths, any list of joints. `IsJointMessage`
  says what a message is (four arrays); the result of dropping one must not be
  a message, which `BridgeAssumption` states of the enumerated ones.
- `PictureTheorem` is the refinement of `UnityPicture`. `IInv` orders all that is
  on its way: along queue, attribute, request and answer, values never increase
  towards the far side; a call without an answer is the only one; a pending flag
  is set exactly while a call is under way or one was lost.

The constants' assumptions are the only ones, and every one of them is evaluated by a
run. Only model-checked: all liveness (`OutageAnswered`, `Released`, `RoutineEnds`,
`ReleaseZeroes`, `StopPublished`, `KeepsPublishing`, `Respawns`, `SamplesResume`,
`CatchesUp`), which is out of the prover's reach. Every safety property of every
passing run is proved.

## 5. Plan

Written in this order: watchdog, display, motion routines, input loop,
manager — the parts that command the robot, or the operator's view of it, first —
then the torque bridge and the bridges to Unity. Every component with
state of its own is modelled, and its safety properties are proved. What is left:

1. *Prove* the safety halves of the liveness properties: what each of them rests on in
   every state (a stop that was queued stays queued until it is published, a
   sample on its way is not overtaken).
2. *Compose.* Watchdog under the manager: Respawn of the former is the monitor of
   the latter.

## 6. Where the code and its documentation differ

Found by a run:

- `watchdog_lost_reply`: `_resend_in_flight` is cleared by the answer alone
  (line 246). If the driver goes away with the request, no resend follows, while
  the header says the node "resends the program automatically".
- `display_rejected`: on_status forgets the display but remembers nothing; a
  twist sent before the rejection and handled after it is displayed, while the
  docstring says "Never hold a command across a safety rejection or disabled
  state."
- `keyboard_hang`: two spins on the home action have no timeout (lines 460,
  468); spin_unity_keyboard is to "publish at a fixed rate".
- `manager_copies`: the lock is to "Prevent multiple supervisors from spawning
  competing TCP endpoints", but it is released when the wrappers have exited, not
  the nodes.

Seen while modelling and left without a run:

- The cooldown is measured from before wait_for_service (line 235), so it may
  fall short by one service wait; `ResendSpacing` states the true distance.
- The header's "periodic warnings" after backing off come once per outage
  (`_backoff_warned`).
- switch_to_servo_controller is said to be "seeding it with current joints" (line
  494), but the seed may be old. The reading takes any last_joint_state (573-576),
  while a recorded pose has to be younger than current_pose_timeout_s; if the
  joint states stop, the seed is where the arm was then. And it is read before
  the switch and published after it: if another client moves the arm in between it
  is old too (`SeedIsCurrent` fails with `external_motion`). Only what the
  node itself does in between is covered by `SeedIsCurrent`.
- Without home joints the toggle still seeds the servo: with an empty list,
  since no joint is asked for (598). The models have home joints whenever they seed.
- A refused toggle is only logged (`teleop_enable_bridge_ros2unity.py` 64-68), like
  one whose service is away (49-52): Unity and the teleop manager differ from
  then on until the operator moves the switch.
- held_keys has no age: when the link to Unity goes down with a key held, the
  node publishes that motion on and on.
- process_pending_actions drains a list that the nested spins of its own
  actions refill, so action keys that keep coming keep the publish waiting.
- A half-open connection reads as "no data": is_connected() stays true, which is to be
  "Whether the source currently holds a live connection." (`torque_source.py`
  line 42), and the reconnect timer never acts, though the node "keeps it
  connected" (`torque_publisher_node.py` line 5). `SamplesResume` excludes it.
- The pending flags of the polling bridges have no timeout: a call that is lost with
  its service ends the polling of that value for good, while robot_info_bridge
  promises "Last-known values are retained on service timeout" (line 16) — they
  are, with a fresh stamp each time. And an empty answer overwrites a
  dashboard value with NONE or UNKNOWN.
- The robot status of the UR state bridge is stamped now() whatever the ages of
  its parts.
- A command to the recorded home pose is followed by the next tick's twist
  within one period, as is the IDLE of a stop.
