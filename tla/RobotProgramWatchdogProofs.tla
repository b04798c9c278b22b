--------------------- MODULE RobotProgramWatchdogProofs ---------------------
(***************************************************************************)
(* Safety of the robot program watchdog, for every value of the constants. *)
(*                                                                         *)
(* None of the properties is inductive alone.  A request leaves in         *)
(* SendResend, but everything that entitles the node to send it was        *)
(* decided in CheckSends, up to ServiceWait earlier; WaitingInv carries    *)
(* that entitlement through the wait, and ResendClock relates the node's   *)
(* own clock of resends with the true age of the last request.             *)
(***************************************************************************)
EXTENDS RobotProgramWatchdog, TLAPS

\* Requests of the outage are counted by the node, and a program that runs
\* ends the outage.
BudgetInv ==
    /\ outageCalls <= resends
    /\ program = "running" => outageCalls = 0

\* What check() established still holds while _send_resend waits.
WaitingInv ==
    pc = "waiting" =>
        /\ resends < MaxResends
        /\ last_running = "stopped"
        /\ reply = "none"
        /\ RequireControlActive => sinceOnline # Never /\ sinceOnline <= waitAge
        /\ \/ sinceCall = Never
           \/ sinceCall >= ResendCooldown - ServiceWait
           \/ respawned /\ sinceCall >= FalseDebounce

\* The node's clock of resends runs at most one service wait fast, and a new
\* process has none but starts its debounce after the last request.
ResendClock ==
    /\ respawned => resendAge = Never
    /\ respawned /\ falseAge # Never /\ sinceCall # Never => falseAge <= sinceCall
    /\ ~respawned /\ resendAge # Never =>
         sinceCall # Never /\ resendAge <= sinceCall + ServiceWait
    /\ ~respawned /\ resendAge = Never => sinceCall = Never

\* The flag is up only while an answer is to come or is unread.
InFlightHasReply == resend_in_flight <=> reply # "none"

OnlineClock == Online => sinceOnline = 0

\* The inductive invariant.
IInv ==
    /\ TypeOK
    /\ FalseSinceTracks
    /\ InFlightHasReply
    /\ LatchedView
    /\ BudgetInv
    /\ WaitingInv
    /\ ResendClock
    /\ OnlineClock

-----------------------------------------------------------------------------
\* Ageing keeps a reading a reading, keeps Never, and keeps the order of two
\* readings, also at the cap.
LEMMA OlderReading ==
    ASSUME NEW age \in Readings
    PROVE  /\ Older(age) \in Readings
           /\ Older(age) = Never <=> age = Never
           /\ age # Never => Older(age) >= age /\ Older(age) <= age + 1
BY TimingAssumption DEF Older, Readings, Ages, Never

LEMMA OlderMonotone ==
    ASSUME NEW a \in Readings, NEW b \in Readings, NEW slack \in Nat,
           a # Never, b # Never, a <= b + slack
    PROVE  Older(a) <= Older(b) + slack
BY TimingAssumption DEF Older, Readings, Ages, Never

\* The initial state satisfies the inductive invariant.
LEMMA InitIInv == Init => IInv
<1> SUFFICES ASSUME Init PROVE IInv
    OBVIOUS
<1>1. TypeOK
  <2>1. /\ timer \in 0 .. CheckPeriod - 1
        /\ waitAge \in 0 .. ServiceWait
        /\ resends \in 0 .. MaxResends
        /\ publishers \in 0 .. MaxPublishers
        /\ outageCalls \in Nat
      BY TimingAssumption, ParameterAssumption DEF Init
  <2>2. /\ falseAge \in Readings /\ resendAge \in Readings
        /\ gateAge \in Readings /\ sinceCall \in Readings
        /\ sinceOnline \in Readings
      BY TimingAssumption DEF Init, Readings, Ages, Never
  <2> QED BY <2>1, <2>2 DEF Init, TypeOK
<1>2. /\ FalseSinceTracks /\ InFlightHasReply /\ LatchedView
      /\ BudgetInv /\ WaitingInv /\ ResendClock /\ OnlineClock
    BY DEF Init, FalseSinceTracks, InFlightHasReply, LatchedView, BudgetInv,
           WaitingInv, ResendClock, OnlineClock, Online, Never
<1> QED BY <1>1, <1>2 DEF IInv

-----------------------------------------------------------------------------
\* Every step of the world keeps the inductive invariant.
LEMMA ProgramPublishedKeeps ==
    ASSUME IInv, NEW p \in Program, ProgramPublished(p)
    PROVE  IInv'
<1>1. TypeOK'
    BY DEF IInv, ProgramPublished, TypeOK, memory, control, clock
<1>2. LatchedView' /\ BudgetInv'
    BY ParameterAssumption
    DEF IInv, TypeOK, ProgramPublished, LatchedView, BudgetInv, Program, memory
<1>3. (/\ FalseSinceTracks /\ InFlightHasReply /\ WaitingInv
       /\ ResendClock /\ OnlineClock)'
    BY DEF IInv, ProgramPublished, FalseSinceTracks, InFlightHasReply,
           WaitingInv, ResendClock, OnlineClock, Online, memory, control
<1> QED BY <1>1, <1>2, <1>3 DEF IInv

LEMMA PublishersChangeKeeps ==
    ASSUME IInv, NEW n \in 0 .. MaxPublishers, PublishersChange(n)
    PROVE  IInv'
<1> USE TimingAssumption, ParameterAssumption
<1>1. TypeOK'
    BY DEF IInv, PublishersChange, TypeOK, Readings, Ages, memory, control, clock
<1>2. WaitingInv' /\ OnlineClock'
    BY DEF IInv, PublishersChange, TypeOK, WaitingInv, OnlineClock, Online,
           Never, memory, control, clock
<1>3. (/\ FalseSinceTracks /\ InFlightHasReply /\ LatchedView
       /\ BudgetInv /\ ResendClock)'
    BY DEF IInv, PublishersChange, FalseSinceTracks, InFlightHasReply,
           LatchedView, BudgetInv, ResendClock, memory, control, clock
<1> QED BY <1>1, <1>2, <1>3 DEF IInv

LEMMA ServiceKeeps ==
    ASSUME IInv, ServiceDown \/ ServiceUp \/ Serve
    PROVE  IInv'
<1>1. UNCHANGED <<program, publishers, inbox, memory, control, clock, observers>>
    BY DEF ServiceDown, ServiceUp, Serve, world
<1>2. /\ svcUp' \in BOOLEAN
      /\ reply' \in {"none", "pending", "lost", "answered"}
      /\ reply = "none" <=> reply' = "none"
    BY DEF IInv, TypeOK, ServiceDown, ServiceUp, Serve, world
<1>3. TypeOK'
    BY <1>1, <1>2 DEF IInv, TypeOK, memory, control, clock, observers
<1>4. (/\ FalseSinceTracks /\ InFlightHasReply /\ LatchedView /\ BudgetInv
       /\ WaitingInv /\ ResendClock /\ OnlineClock)'
    BY <1>1, <1>2 DEF IInv, FalseSinceTracks, InFlightHasReply, LatchedView,
       BudgetInv, WaitingInv, ResendClock, OnlineClock, Online, memory,
       control, observers
<1> QED BY <1>3, <1>4 DEF IInv

LEMMA TickKeeps ==
    ASSUME IInv, Tick
    PROVE  IInv'
<1> USE TimingAssumption, ParameterAssumption
<1>0. /\ falseAge \in Readings /\ resendAge \in Readings /\ gateAge \in Readings
      /\ sinceCall \in Readings /\ sinceOnline \in Readings
    BY DEF IInv, TypeOK
<1>1. TypeOK'
  <2>1. timer' \in 0 .. CheckPeriod - 1 /\ due' \in BOOLEAN
      BY DEF IInv, TypeOK, Tick, TimerAdvances
  <2>2. waitAge' \in 0 .. ServiceWait
      BY DEF IInv, TypeOK, Tick
  <2>3. /\ falseAge' \in Readings /\ resendAge' \in Readings
        /\ gateAge' \in Readings /\ sinceCall' \in Readings
        /\ sinceOnline' \in Readings
      BY <1>0, OlderReading DEF Tick, Readings, Ages
  <2> QED BY <2>1, <2>2, <2>3 DEF IInv, TypeOK, Tick, world
<1>2. FalseSinceTracks'
    BY <1>0, OlderReading DEF IInv, FalseSinceTracks, Tick
<1>3. InFlightHasReply' /\ LatchedView' /\ BudgetInv'
    BY DEF IInv, InFlightHasReply, LatchedView, BudgetInv, Tick, world
<1>4. OnlineClock'
    BY DEF IInv, OnlineClock, Online, Tick, world
<1>5. WaitingInv'
  <2> SUFFICES ASSUME pc = "waiting" PROVE WaitingInv'
      BY DEF WaitingInv, Tick
  <2>1. RequireControlActive => sinceOnline' # Never /\ sinceOnline' <= waitAge'
      BY <1>0, OlderReading
      DEF IInv, WaitingInv, TypeOK, Tick, Never, Readings, Ages
  <2>2. \/ sinceCall' = Never
        \/ sinceCall' >= ResendCooldown - ServiceWait
        \/ respawned' /\ sinceCall' >= FalseDebounce
      BY <1>0, OlderReading
      DEF IInv, WaitingInv, TypeOK, Tick, Never, Readings, Ages
  <2> QED BY <2>1, <2>2 DEF IInv, WaitingInv, Tick, world
<1>6. ResendClock'
  <2>1. respawned /\ falseAge # Never /\ sinceCall # Never =>
            Older(falseAge) <= Older(sinceCall) + 0
      BY <1>0, OlderMonotone DEF IInv, ResendClock, Readings, Ages, Never
  <2>2. ~respawned /\ resendAge # Never =>
            Older(resendAge) <= Older(sinceCall) + ServiceWait
      BY <1>0, OlderMonotone DEF IInv, ResendClock
  <2>3. /\ Older(falseAge) = Never <=> falseAge = Never
        /\ Older(resendAge) = Never <=> resendAge = Never
        /\ Older(sinceCall) = Never <=> sinceCall = Never
        /\ Older(sinceCall) \in Readings
      BY <1>0, OlderReading
  <2> QED BY <2>1, <2>2, <2>3
      DEF IInv, ResendClock, Tick, Readings, Ages, Never
<1> QED BY <1>1, <1>2, <1>3, <1>4, <1>5, <1>6 DEF IInv

LEMMA RespawnKeeps ==
    ASSUME IInv, Respawn
    PROVE  IInv'
<1>1. TypeOK'
  <2>1. /\ timer' \in 0 .. CheckPeriod - 1
        /\ waitAge' \in 0 .. ServiceWait
        /\ resends' \in 0 .. MaxResends
        /\ outageCalls' \in Nat
      BY TimingAssumption, ParameterAssumption DEF Respawn
  <2>2. falseAge' \in Readings /\ resendAge' \in Readings /\ gateAge' \in Readings
      BY DEF Respawn, Readings
  <2> QED BY <2>1, <2>2 DEF IInv, Respawn, LatchedValue, TypeOK, Program, world
<1>2. (/\ FalseSinceTracks /\ InFlightHasReply /\ LatchedView /\ BudgetInv
       /\ WaitingInv /\ ResendClock /\ OnlineClock)'
    BY DEF IInv, Respawn, LatchedValue, TypeOK, FalseSinceTracks, InFlightHasReply,
           LatchedView, BudgetInv, WaitingInv, ResendClock, OnlineClock, Online,
           Program, Never, world
<1> QED BY <1>1, <1>2 DEF IInv

-----------------------------------------------------------------------------
\* Every callback of the node keeps the inductive invariant.
LEMMA OnProgramRunningKeeps ==
    ASSUME IInv, OnProgramRunning
    PROVE  IInv'
<1> USE TimingAssumption, ParameterAssumption
<1>1. TypeOK'
    BY DEF IInv, OnProgramRunning, TypeOK, FalseAgeAfter, ResendsAfter, Program,
           Readings, Ages, Never, world, control, clock, observers
<1>2. FalseSinceTracks' /\ InFlightHasReply' /\ LatchedView' /\ BudgetInv'
    BY DEF IInv, OnProgramRunning, TypeOK, FalseAgeAfter, ResendsAfter, Program,
           FalseSinceTracks, InFlightHasReply, LatchedView, BudgetInv, Readings,
           Ages, Never, world, observers
<1>3. WaitingInv' /\ OnlineClock'
    BY DEF IInv, OnProgramRunning, WaitingInv, OnlineClock, Online, world,
           control, observers
<1>4. ResendClock'
    BY DEF IInv, OnProgramRunning, TypeOK, FalseAgeAfter, ResendClock, Readings,
           Ages, Never, observers
<1> QED BY <1>1, <1>2, <1>3, <1>4 DEF IInv

LEMMA CheckKeeps ==
    ASSUME IInv, Check
    PROVE  IInv'
<1> USE TimingAssumption, ParameterAssumption
<1>0. CheckBegins /\ falseAge' = falseAge
    BY DEF IInv, Check, CheckStandsBy, CheckBacksOff, CheckSends, MayAct,
           FalseSinceTracks
<1>1. TypeOK'
  <2>1. gateAge' \in Readings
      BY <1>0 DEF IInv, TypeOK, CheckBegins, GateAfter, Readings, Ages
  <2>2. pc' \in {"spin", "waiting"} /\ waitAge' \in 0 .. ServiceWait
      BY DEF IInv, TypeOK, Check, CheckStandsBy, CheckBacksOff, CheckSends, control
  <2>3. due' = FALSE /\ (backoff_warned' = TRUE \/ UNCHANGED backoff_warned)
      BY <1>0, Zenon DEF CheckBegins, Check, CheckStandsBy, CheckBacksOff, CheckSends
  <2>4. UNCHANGED <<program, svcUp, publishers, reply, inbox, last_running,
                    falseAge, resendAge, resends, resend_in_flight, timer,
                    sinceCall, sinceOnline, outageCalls, respawned>>
      BY <1>0 DEF CheckBegins, world, observers
  <2>5. due' \in BOOLEAN /\ backoff_warned' \in BOOLEAN
      BY <2>3, Zenon DEF IInv, TypeOK
  <2> QED BY <2>1, <2>2, <2>4, <2>5 DEF IInv, TypeOK
<1>2. (/\ FalseSinceTracks /\ InFlightHasReply /\ LatchedView /\ BudgetInv
       /\ ResendClock /\ OnlineClock)'
    BY <1>0 DEF IInv, CheckBegins, FalseSinceTracks, InFlightHasReply,
                LatchedView, BudgetInv, ResendClock, OnlineClock, Online,
                world, observers
<1>3. WaitingInv'
  <2>1. CASE CheckStandsBy \/ CheckBacksOff
      BY <1>0, <2>1 DEF CheckStandsBy, CheckBacksOff, CheckBegins, WaitingInv, control
  <2>2. CASE CheckSends
    <3>1. /\ resends < MaxResends
          /\ last_running = "stopped"
          /\ reply = "none"
        BY <2>2 DEF IInv, CheckSends, Ripe, MayAct, BudgetLeft, InFlightHasReply
    <3>2. RequireControlActive => sinceOnline # Never /\ sinceOnline <= waitAge'
        BY <2>2 DEF IInv, CheckSends, Ripe, MayAct, ControlActive, OnlineClock, Never
    <3>3. \/ sinceCall = Never
          \/ sinceCall >= ResendCooldown - ServiceWait
          \/ respawned /\ sinceCall >= FalseDebounce
        BY <2>2 DEF IInv, TypeOK, CheckSends, Ripe, Debounced, CooledDown,
                    ResendClock, Readings, Ages, Never
    <3> QED BY <1>0, <3>1, <3>2, <3>3 DEF CheckBegins, WaitingInv, observers
  <2> QED BY <2>1, <2>2 DEF Check
<1> QED BY <1>1, <1>2, <1>3 DEF IInv

LEMMA SendResendKeeps ==
    ASSUME IInv, SendResend
    PROVE  IInv'
<1> USE TimingAssumption, ParameterAssumption
<1>1. TypeOK'
  <2>1. /\ resendAge' \in Readings
        /\ sinceCall' \in Readings
      BY DEF IInv, TypeOK, SendResend, ResendAgeAfterSend, Readings, Ages
  <2>2. /\ resends' \in 0 .. MaxResends
        /\ waitAge' \in 0 .. ServiceWait
        /\ outageCalls' \in Nat
      BY DEF IInv, TypeOK, SendResend, WaitingInv, ResendsAfterSend
  <2>3. /\ resend_in_flight' = TRUE /\ reply' = "pending" /\ pc' = "spin"
        /\ respawned' = FALSE
        /\ UNCHANGED <<program, svcUp, publishers, inbox, last_running, falseAge,
                       gateAge, backoff_warned, timer, due, sinceOnline>>
      BY DEF SendResend, world, clock
  <2> QED BY <2>1, <2>2, <2>3 DEF IInv, TypeOK
<1>2. FalseSinceTracks' /\ InFlightHasReply' /\ LatchedView' /\ OnlineClock'
    BY DEF IInv, SendResend, FalseSinceTracks, InFlightHasReply, LatchedView,
           OnlineClock, Online, world
<1>3. BudgetInv' /\ WaitingInv' /\ ResendClock'
    BY DEF IInv, SendResend, TypeOK, BudgetInv, WaitingInv, ResendClock,
           ResendAgeAfterSend, ResendsAfterSend, Readings, Ages, Never, world
<1> QED BY <1>1, <1>2, <1>3 DEF IInv

LEMMA AnswerKeeps ==
    ASSUME IInv, ServiceTimeout \/ OnResendResponse
    PROVE  IInv'
<1>1. UNCHANGED <<program, svcUp, publishers, inbox, last_running, falseAge,
                  resendAge, resends, gateAge, backoff_warned, timer, due,
                  sinceCall, sinceOnline, outageCalls, respawned>>
    BY DEF ServiceTimeout, OnResendResponse, world, memory, clock, observers
<1>2. pc' = "spin" /\ waitAge' \in 0 .. ServiceWait
    BY TimingAssumption
    DEF IInv, TypeOK, ServiceTimeout, OnResendResponse, control
<1>3. /\ resend_in_flight' \in BOOLEAN
      /\ reply' \in {"none", "pending", "lost", "answered"}
      /\ InFlightHasReply'
  <2>1. CASE UNCHANGED <<reply, resend_in_flight>>
      BY <2>1 DEF IInv, TypeOK, InFlightHasReply
  <2>2. CASE reply' = "none" /\ resend_in_flight' = FALSE
      BY <2>2 DEF InFlightHasReply
  <2> QED BY <2>1, <2>2 DEF ServiceTimeout, OnResendResponse, memory
<1>4. TypeOK'
    BY <1>1, <1>2, <1>3 DEF IInv, TypeOK
<1>5. (/\ FalseSinceTracks /\ LatchedView /\ BudgetInv /\ WaitingInv
       /\ ResendClock /\ OnlineClock)'
    BY <1>1, <1>2 DEF IInv, FalseSinceTracks, LatchedView, BudgetInv,
       WaitingInv, ResendClock, OnlineClock, Online
<1> QED BY <1>3, <1>4, <1>5 DEF IInv

LEMMA NextIInv == IInv /\ [Next]_vars => IInv'
<1> SUFFICES ASSUME IInv, [Next]_vars PROVE IInv'
    OBVIOUS
<1>1. CASE NodeNext
    BY <1>1, OnProgramRunningKeeps, CheckKeeps, SendResendKeeps, AnswerKeeps
    DEF NodeNext
<1>2. CASE WorldNext
    BY <1>2, ProgramPublishedKeeps, PublishersChangeKeeps, ServiceKeeps,
       TickKeeps, RespawnKeeps
    DEF WorldNext
<1>3. CASE UNCHANGED vars
    BY <1>3 DEF IInv, TypeOK, FalseSinceTracks, InFlightHasReply, LatchedView,
       BudgetInv, WaitingInv, ResendClock, OnlineClock, Online, vars, world,
       memory, control, clock, observers
<1> QED BY <1>1, <1>2, <1>3 DEF Next

\* The inductive invariant holds in every reachable state.
THEOREM Inductive == Spec => []IInv
BY InitIInv, NextIInv, PTL DEF Spec

-----------------------------------------------------------------------------
\* Every variable keeps its type; in particular consecutive_resends never
\* passes max_consecutive_resends.
THEOREM TypeCorrect == Spec => []TypeOK
<1>1. IInv => TypeOK BY DEF IInv
<1> QED BY <1>1, Inductive, PTL

\* At most max_consecutive_resends requests are sent in one outage.
THEOREM BudgetTheorem == Spec => []OutageBudget
<1>1. IInv => OutageBudget
    BY ParameterAssumption DEF IInv, TypeOK, BudgetInv, OutageBudget
<1> QED BY <1>1, Inductive, PTL

\* The node's view of the program is never stale: the newest value is unread
\* or known.
THEOREM ViewTheorem == Spec => []LatchedView
<1>1. IInv => LatchedView BY DEF IInv
<1> QED BY <1>1, Inductive, PTL

\* The repair of a missing false_since in check() is dead code.
THEOREM DeadBranchTheorem == Spec => []FalseSinceTracks
<1>1. IInv => FalseSinceTracks BY DEF IInv
<1> QED BY <1>1, Inductive, PTL

\* No second request is prepared while an earlier one is unanswered.
THEOREM OneRequestTheorem == Spec => []OneRequestAtATime
<1>1. IInv => OneRequestAtATime BY DEF IInv, WaitingInv, OneRequestAtATime
<1> QED BY <1>1, Inductive, PTL

\* A request can only be sent by SendResend.
LEMMA RequestIsSend ==
    ASSUME Next, RequestSent
    PROVE  SendResend
BY DEF Next, NodeNext, WorldNext, RequestSent, OnProgramRunning, Check,
       CheckStandsBy, CheckBacksOff, CheckSends, CheckBegins, ServiceTimeout,
       OnResendResponse, ProgramPublished, PublishersChange, ServiceDown,
       ServiceUp, Serve, Tick, Respawn

\* Requests keep their distance: the cooldown less the service wait, or the
\* debounce when the process was replaced in between.
THEOREM SpacingTheorem == Spec => ResendSpacing
<1>1. ASSUME IInv, [Next]_vars
      PROVE  [RequestSent =>
                \/ sinceCall = Never
                \/ sinceCall >= ResendCooldown - ServiceWait
                \/ respawned /\ sinceCall >= FalseDebounce]_vars
    BY <1>1, RequestIsSend DEF IInv, WaitingInv, SendResend
<1> QED BY <1>1, Inductive, PTL DEF Spec, ResendSpacing

\* No unsolicited restart: the control stack was online within the last
\* service wait before any request.
THEOREM SolicitedTheorem == Spec => NoUnsolicitedResend
<1>1. ASSUME IInv, [Next]_vars
      PROVE  [RequestSent /\ RequireControlActive =>
                sinceOnline # Never /\ sinceOnline <= ServiceWait]_vars
  <2> SUFFICES ASSUME Next, RequestSent, RequireControlActive
               PROVE  sinceOnline # Never /\ sinceOnline <= ServiceWait
      BY <1>1
  <2>1. pc = "waiting"
      BY RequestIsSend DEF SendResend
  <2> QED BY <1>1, <2>1, TimingAssumption
      DEF IInv, TypeOK, WaitingInv, Readings, Ages, Never
<1> QED BY <1>1, Inductive, PTL DEF Spec, NoUnsolicitedResend

\* A request is sent to a running program only while that news is unread.
THEOREM NewsTheorem == Spec => NoResendAgainstNews
<1>1. ASSUME IInv, [Next]_vars
      PROVE  [RequestSent /\ program = "running" => inbox = "running"]_vars
    BY <1>1, RequestIsSend DEF IInv, WaitingInv, LatchedView, SendResend
<1> QED BY <1>1, Inductive, PTL DEF Spec, NoResendAgainstNews
=============================================================================
