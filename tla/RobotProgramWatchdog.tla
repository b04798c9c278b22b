------------------------ MODULE RobotProgramWatchdog ------------------------
(***************************************************************************)
(* robot_program_watchdog_ros2unity.py: the node that calls                *)
(* resend_robot_program when the UR external-control program drops while   *)
(* the teleop stack is online.                                             *)
(*                                                                         *)
(* Time.  The code compares clock readings it has stored (false_since,     *)
(* last_resend_time, _gate_active_since) with now().  The model keeps the  *)
(* AGE of each stored reading instead: Tick makes every age one unit       *)
(* older, Never stands for None, and ages stop counting at AgeCap, which   *)
(* is above every threshold of the code.                                   *)
(*                                                                         *)
(* Concurrency.  The node runs in a single-threaded executor, so the       *)
(* callbacks do not overlap, but _send_resend blocks in wait_for_service:  *)
(* pc = "waiting" is that wait, during which the world moves and no        *)
(* callback of the node runs.                                              *)
(***************************************************************************)
EXTENDS Integers

CONSTANTS
    CheckPeriod,          \* check_period_s
    GateDebounce,         \* gate_debounce_s
    FalseDebounce,        \* false_debounce_s
    ResendCooldown,       \* resend_cooldown_s
    ServiceWait,          \* service_wait_timeout_s
    MaxResends,           \* max_consecutive_resends
    GateMinPublishers,    \* gate_min_publishers
    RequireControlActive, \* require_control_active
    Enable,               \* enable
    MaxPublishers,        \* bound: publishers of the control gate topic
    AgeCap,               \* bound: ages saturate here
    Faults                \* environment faults, a subset of FaultKinds

FaultKinds == {"respawn", "lost_call"}

ASSUME TimingAssumption ==
    /\ CheckPeriod \in Nat \ {0}
    /\ GateDebounce \in Nat
    /\ FalseDebounce \in Nat
    /\ ResendCooldown \in Nat
    /\ ServiceWait \in Nat
    /\ AgeCap \in Nat
    /\ GateDebounce <= AgeCap
    /\ FalseDebounce <= AgeCap
    /\ ResendCooldown <= AgeCap
    /\ ServiceWait <= AgeCap

ASSUME ParameterAssumption ==
    /\ MaxResends \in Nat
    /\ GateMinPublishers \in Nat
    /\ MaxPublishers \in Nat
    /\ RequireControlActive \in BOOLEAN
    /\ Enable \in BOOLEAN
    /\ Faults \subseteq FaultKinds

VARIABLES
    \* the world outside the node
    program,           \* what the broadcaster last published
    svcUp,             \* the resend service is discoverable
    publishers,        \* count_publishers(control_gate_topic)
    reply,             \* the resend call on the wire
    \* the node
    inbox,             \* the latched, depth-1 subscription queue
    last_running,
    falseAge,          \* age of false_since
    resendAge,         \* age of last_resend_time
    resends,           \* consecutive_resends
    resend_in_flight,
    gateAge,           \* age of _gate_active_since
    backoff_warned,
    pc,                \* "spin" in the executor, "waiting" in wait_for_service
    waitAge,           \* age of the now() that check() handed to _send_resend
    timer,             \* units since the check timer last expired
    due,               \* the check timer has expired and check() has not run
    \* observers: read by properties, never by the node
    sinceCall,         \* age of the last request that went out
    sinceOnline,       \* age of the last instant the control stack was online
    outageCalls,       \* requests of this process since the program last ran
    respawned          \* the process was replaced after the last request

world == <<program, svcUp, publishers>>
memory == <<last_running, falseAge, resendAge, resends, resend_in_flight,
            gateAge, backoff_warned>>
control == <<pc, waitAge>>
clock == <<timer, due>>
observers == <<sinceCall, sinceOnline, outageCalls, respawned>>
vars == <<world, reply, inbox, memory, control, clock, observers>>

Never == -1
Ages == 0 .. AgeCap
Readings == Ages \cup {Never}
Older(age) == IF age = Never \/ age = AgeCap THEN age ELSE age + 1

Program == {"running", "stopped"}
Online == publishers >= GateMinPublishers

-----------------------------------------------------------------------------
Init ==
    /\ program = "unknown"
    /\ svcUp \in BOOLEAN
    /\ publishers = 0
    /\ reply = "none"
    /\ inbox = "empty"
    /\ last_running = "unknown"
    /\ falseAge = Never
    /\ resendAge = Never
    /\ resends = 0
    /\ resend_in_flight = FALSE
    /\ gateAge = Never
    /\ backoff_warned = FALSE
    /\ pc = "spin"
    /\ waitAge = 0
    /\ timer = 0
    /\ due = FALSE
    /\ sinceCall = Never
    /\ sinceOnline = IF Online THEN 0 ELSE Never
    /\ outageCalls = 0
    /\ respawned = FALSE

-----------------------------------------------------------------------------
(* The world: the UR driver, the control stack and the clock.              *)

\* The broadcaster publishes a change.  The queue has depth 1, so a value the
\* node has not read yet is overwritten.
ProgramPublished(p) ==
    /\ p # program
    /\ program' = p
    /\ inbox' = p
    /\ outageCalls' = IF p = "running" THEN 0 ELSE outageCalls
    /\ UNCHANGED <<svcUp, publishers, reply, memory, control, clock,
                   sinceCall, sinceOnline, respawned>>

\* An unanswered request dies with its server.
ServiceDown ==
    /\ svcUp
    /\ svcUp' = FALSE
    /\ reply = "pending" => "lost_call" \in Faults
    /\ reply' = IF reply = "pending" THEN "lost" ELSE reply
    /\ UNCHANGED <<program, publishers, inbox, memory, control, clock, observers>>

ServiceUp ==
    /\ ~svcUp
    /\ svcUp' = TRUE
    /\ UNCHANGED <<program, publishers, reply, inbox, memory, control, clock,
                   observers>>

PublishersChange(n) ==
    /\ n # publishers
    /\ publishers' = n
    /\ sinceOnline' = IF n >= GateMinPublishers THEN 0 ELSE sinceOnline
    /\ UNCHANGED <<program, svcUp, reply, inbox, memory, control, clock,
                   sinceCall, outageCalls, respawned>>

\* The driver answers; whether the program really restarts is up to
\* ProgramPublished.
Serve ==
    /\ reply = "pending"
    /\ svcUp
    /\ reply' = "answered"
    /\ UNCHANGED <<world, inbox, memory, control, clock, observers>>

\* The timer of check() keeps its phase and coalesces expirations.
TimerAdvances ==
    /\ timer' = (timer + 1) % CheckPeriod
    /\ due' = (due \/ timer' = 0)

Tick ==
    /\ pc = "waiting" => waitAge < ServiceWait
    /\ waitAge' = IF pc = "waiting" THEN waitAge + 1 ELSE waitAge
    /\ TimerAdvances
    /\ falseAge' = Older(falseAge)
    /\ resendAge' = Older(resendAge)
    /\ gateAge' = Older(gateAge)
    /\ sinceCall' = Older(sinceCall)
    /\ sinceOnline' = IF Online THEN 0 ELSE Older(sinceOnline)
    /\ UNCHANGED <<world, reply, inbox, last_running, resends,
                   resend_in_flight, backoff_warned, pc, outageCalls, respawned>>

-----------------------------------------------------------------------------
(* The node.                                                               *)

\* on_program_running: what the message does to false_since, to the number of
\* consecutive resends and to the warning latch.
FalseAgeAfter(msg) ==
    IF msg = "running" THEN Never
    ELSE IF falseAge = Never THEN 0 ELSE falseAge
ResendsAfter(msg) == IF msg = "running" THEN 0 ELSE resends

IgnoresRecovery ==  \* mutant: returns before it stores a "running" message
    /\ pc = "spin"
    /\ inbox # "empty"
    /\ inbox' = "empty"
    /\ falseAge' = FalseAgeAfter(inbox)
    /\ resends' = ResendsAfter(inbox)
    /\ last_running' = IF inbox = "running" THEN last_running ELSE inbox
    /\ UNCHANGED <<world, reply, resendAge, resend_in_flight, gateAge,
                   backoff_warned, control, clock, observers>>

OnProgramRunning ==
    /\ pc = "spin"
    /\ inbox # "empty"
    /\ inbox' = "empty"
    /\ falseAge' = FalseAgeAfter(inbox)
    /\ resends' = ResendsAfter(inbox)
    /\ backoff_warned' = (inbox = "stopped" /\ backoff_warned)
    /\ last_running' = inbox
    /\ UNCHANGED <<world, reply, resendAge, resend_in_flight, gateAge, control,
                   clock, observers>>

\* _evaluate_control_gate: the stored rising edge and the verdict.
GateAfter ==
    IF ~Online THEN Never ELSE IF gateAge = Never THEN 0 ELSE gateAge
StoredEdgeOnly == gateAge >= GateDebounce  \* mutant: does not look at the topic
ControlActive == Online /\ GateAfter >= GateDebounce

MayActInFlight ==  \* mutant: resend_in_flight is not tested
    /\ Enable
    /\ RequireControlActive => ControlActive
    /\ last_running = "stopped"

\* check(), lines 173 to 185: the conditions under which it looks at the clock.
MayAct ==
    /\ Enable
    /\ RequireControlActive => ControlActive
    /\ last_running = "stopped"
    /\ ~resend_in_flight

Debounced == falseAge # Never /\ falseAge >= FalseDebounce
NoCooldown == TRUE  \* mutant
CooledDown == resendAge = Never \/ resendAge >= ResendCooldown
Ripe == MayAct /\ Debounced /\ CooledDown
BudgetPlusOne == resends <= MaxResends  \* mutant
BudgetLessOne == resends + 1 < MaxResends  \* mutant
BudgetLeft == resends < MaxResends

CheckBegins ==
    /\ pc = "spin"
    /\ due
    /\ due' = FALSE
    /\ gateAge' = GateAfter
    /\ UNCHANGED <<world, reply, inbox, last_running, resendAge, resends,
                   resend_in_flight, timer, observers>>

\* An early return; the last line is the code's own repair of a missing
\* false_since (FalseSinceTracks shows that it is never needed).
CheckStandsBy ==
    /\ CheckBegins
    /\ ~Ripe
    /\ falseAge' = IF MayAct /\ falseAge = Never THEN 0 ELSE falseAge
    /\ UNCHANGED <<backoff_warned, control>>

CheckBacksOff ==
    /\ CheckBegins
    /\ Ripe
    /\ ~BudgetLeft
    /\ backoff_warned' = TRUE
    /\ UNCHANGED <<falseAge, control>>

CheckSends ==
    /\ CheckBegins
    /\ Ripe
    /\ BudgetLeft
    /\ pc' = "waiting"
    /\ waitAge' = 0
    /\ UNCHANGED <<falseAge, backoff_warned>>

Check == CheckStandsBy \/ CheckBacksOff \/ CheckSends

\* _send_resend once the service is there.  last_resend_time is the reading
\* taken BEFORE the wait, hence the age waitAge and not 0.
ResendAgeAfterSend == waitAge
ResendsAfterSend == resends + 1

SendResend ==
    /\ pc = "waiting"
    /\ svcUp
    /\ resendAge' = ResendAgeAfterSend
    /\ resends' = ResendsAfterSend
    /\ resend_in_flight' = TRUE
    /\ reply' = "pending"
    /\ pc' = "spin"
    /\ waitAge' = 0
    /\ sinceCall' = 0
    /\ outageCalls' = IF program = "stopped" THEN outageCalls + 1 ELSE outageCalls
    /\ respawned' = FALSE
    /\ UNCHANGED <<world, inbox, last_running, falseAge, gateAge,
                   backoff_warned, clock, sinceOnline>>

ServiceTimeout ==
    /\ pc = "waiting"
    /\ ~svcUp
    /\ waitAge = ServiceWait
    /\ pc' = "spin"
    /\ waitAge' = 0
    /\ UNCHANGED <<world, reply, inbox, memory, clock, observers>>

OnResendResponse ==
    /\ pc = "spin"
    /\ reply = "answered"
    /\ reply' = "none"
    /\ resend_in_flight' = FALSE
    /\ UNCHANGED <<world, inbox, last_running, falseAge, resendAge, resends,
                   gateAge, backoff_warned, control, clock, observers>>

\* What a transient-local publisher delivers to a new subscription.
VolatileValue == "empty"  \* mutant: the subscription is not transient-local
LatchedValue == IF program = "unknown" THEN "empty" ELSE program

\* The manager replaces the process: __init__ again, and the latched topic
\* delivers the current value to the new subscription.
Respawn ==
    /\ "respawn" \in Faults
    /\ last_running' = "unknown"
    /\ falseAge' = Never
    /\ resendAge' = Never
    /\ resends' = 0
    /\ resend_in_flight' = FALSE
    /\ gateAge' = Never
    /\ backoff_warned' = FALSE
    /\ pc' = "spin"
    /\ waitAge' = 0
    /\ timer' = 0
    /\ due' = FALSE
    /\ reply' = "none"
    /\ inbox' = LatchedValue
    /\ respawned' = TRUE
    /\ outageCalls' = 0
    /\ UNCHANGED <<world, sinceCall, sinceOnline>>

-----------------------------------------------------------------------------
NodeNext == OnProgramRunning \/ Check \/ SendResend \/ ServiceTimeout \/ OnResendResponse

WorldNext ==
    \/ \E p \in Program : ProgramPublished(p)
    \/ \E n \in 0 .. MaxPublishers : PublishersChange(n)
    \/ ServiceDown
    \/ ServiceUp
    \/ Serve
    \/ Tick
    \/ Respawn

Next == NodeNext \/ WorldNext

\* The executor runs every ready callback, the clock advances, and a driver
\* that is up answers.  Nothing is assumed of the program, of the publishers
\* or of the service's availability.
Fairness ==
    /\ WF_vars(OnProgramRunning)
    /\ WF_vars(Check)
    /\ WF_vars(SendResend)
    /\ WF_vars(ServiceTimeout)
    /\ WF_vars(OnResendResponse)
    /\ WF_vars(Tick)
    /\ WF_vars(Serve)

Spec == Init /\ [][Next]_vars
FairSpec == Spec /\ Fairness

-----------------------------------------------------------------------------
\* Every variable has its type: ages are Never or below the cap, the retry
\* counter is within the budget of the constructor's max_consecutive_resends.
TypeOK ==
    /\ program \in Program \cup {"unknown"}
    /\ svcUp \in BOOLEAN
    /\ publishers \in 0 .. MaxPublishers
    /\ reply \in {"none", "pending", "lost", "answered"}
    /\ inbox \in Program \cup {"empty"}
    /\ last_running \in Program \cup {"unknown"}
    /\ falseAge \in Readings
    /\ resendAge \in Readings
    /\ resends \in 0 .. MaxResends
    /\ resend_in_flight \in BOOLEAN
    /\ gateAge \in Readings
    /\ backoff_warned \in BOOLEAN
    /\ pc \in {"spin", "waiting"}
    /\ waitAge \in 0 .. ServiceWait
    /\ timer \in 0 .. CheckPeriod - 1
    /\ due \in BOOLEAN
    /\ sinceCall \in Readings
    /\ sinceOnline \in Readings
    /\ outageCalls \in Nat
    /\ respawned \in BOOLEAN

RequestSent == reply # "pending" /\ reply' = "pending"

\* Two requests are never closer than the cooldown less the time the code may
\* spend in wait_for_service; a replaced process, which has forgotten its last
\* request, still waits out a fresh debounce (check, lines 191-196).
ResendSpacing ==
    [][RequestSent =>
        \/ sinceCall = Never
        \/ sinceCall >= ResendCooldown - ServiceWait
        \/ respawned /\ sinceCall >= FalseDebounce]_vars

\* However the program flaps, messages are overwritten and answers arrive, one
\* process sends at most max_consecutive_resends requests in one outage
\* (check, lines 197-205, against the reset in on_program_running).
OutageBudget == outageCalls <= MaxResends

\* No unsolicited restart: when a request goes out the control stack is online
\* or was so when check() looked, at most one service wait ago (lines 176-178).
NoUnsolicitedResend ==
    [][RequestSent /\ RequireControlActive =>
        sinceOnline # Never /\ sinceOnline <= ServiceWait]_vars

\* The node never prepares a request while an earlier one is unanswered or its
\* answer unread, whatever order answers and checks take (line 184 against 246).
OneRequestAtATime == pc = "waiting" => reply = "none"

\* false_since is set exactly while the last message said "stopped", so the
\* branch of check() that repairs a missing false_since is dead (lines 188-190).
FalseSinceTracks == last_running = "stopped" <=> falseAge # Never

\* The latched topic keeps the node's view current: either the newest value is
\* still unread in the queue, or it is last_running.  It survives overwritten
\* messages and the replacement of the process (lines 106-119).
LatchedView ==
    IF inbox = "empty" THEN last_running = program ELSE inbox = program

\* A request can only hit a program that is running again while that news is
\* unread: the program came back during wait_for_service or the message is in
\* the queue.  It is never sent against news the node has heard.
NoResendAgainstNews == [][RequestSent /\ program = "running" => inbox = "running"]_vars

\* A permanent outage with the stack online and the driver up uses the whole
\* budget, unless a request is never answered: no early return of check(), no
\* lost wake-up and no earlier fault starves the resend.
Outage == Online /\ svcUp /\ program = "stopped"
Answered == <>[](reply # "lost")
KeepsRunning == <>[][~Respawn]_vars
OutageAnswered ==
    (Enable /\ <>[]Outage /\ Answered /\ KeepsRunning) => <>[](resends = MaxResends)

\* What the header comment says (lines 7-8): "This node watches that state and
\* resends the program automatically", whatever became of earlier requests.
ResendsAutomatically ==
    (Enable /\ <>[]Outage /\ KeepsRunning) => <>[](resends = MaxResends)
=============================================================================
