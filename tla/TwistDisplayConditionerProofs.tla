------------------- MODULE TwistDisplayConditionerProofs -------------------
(***************************************************************************)
(* The display conditioner keeps the promise of DisplayPromise, for every  *)
(* hold time, display period and queue depth.                              *)
(*                                                                         *)
(* The age the machine looks at (of the first sample while priming, of the *)
(* last one while active) has to be related with the age of the last       *)
(* sample handled, and the age of a visible sample with the display timer. *)
(***************************************************************************)
EXTENDS TwistDisplayConditioner, TLAPS

\* In both phases the machine's own clock is the age of the last sample; while
\* priming, the previous sample was not a quick one.
MachineClock ==
    /\ phase = "priming" =>
         /\ sinceSample # Never
         /\ first_nonzero = sinceSample
         /\ gap = Never \/ gap > ActiveTimeout \/ gap > InitialHold
    /\ phase = "active" =>
         /\ sinceSample # Never
         /\ last_nonzero_s = sinceSample

\* A visible sample is at most Hold older than the last display tick.
ScreenClock == screen # Zero => sinceSample # Never /\ sinceSample <= Hold + timer

IInv ==
    /\ TypeOK
    /\ CacheFollowsMachine
    /\ NoGhostMotion
    /\ MachineClock
    /\ ScreenClock

-----------------------------------------------------------------------------
LEMMA OlderReading ==
    ASSUME NEW age \in Readings
    PROVE  /\ Older(age) \in Readings
           /\ Older(age) = Never <=> age = Never
           /\ age # Never => Older(age) >= age /\ Older(age) <= age + 1
BY HoldAssumption DEF Older, Readings, Never

LEMMA HoldProperties ==
    /\ Hold \in Nat
    /\ InitialHold <= Hold
    /\ ActiveTimeout <= Hold
    /\ Hold + DisplayPeriod <= AgeCap
BY HoldAssumption, DisplayAssumption DEF Hold

\* A bounded queue stays a bounded queue of the same messages.
LEMMA KeepLastBounded ==
    ASSUME NEW S, NEW queue \in Seq(S), Len(queue) <= QueueDepth, NEW msg \in S
    PROVE  KeepLast(queue, msg) \in Seq(S) /\ Len(KeepLast(queue, msg)) <= QueueDepth
<1>1. QueueDepth \in Nat \ {0} /\ Len(queue) \in Nat
    BY DisplayAssumption
<1>2. CASE Len(queue) < QueueDepth
    BY <1>1, <1>2 DEF KeepLast
<1>3. CASE ~(Len(queue) < QueueDepth)
  <2>1. queue # <<>>
      BY <1>1, <1>3
  <2>2. Tail(queue) \in Seq(S) /\ Len(Tail(queue)) = Len(queue) - 1
      BY <2>1
  <2> QED BY <1>1, <1>3, <2>2 DEF KeepLast
<1> QED BY <1>2, <1>3

LEMMA TailBounded ==
    ASSUME NEW S, NEW queue \in Seq(S), Len(queue) <= QueueDepth, queue # <<>>
    PROVE  /\ Tail(queue) \in Seq(S) /\ Len(Tail(queue)) <= QueueDepth
           /\ Head(queue) \in S
<1>1. Len(Tail(queue)) = Len(queue) - 1 /\ Tail(queue) \in Seq(S) /\ Head(queue) \in S
    OBVIOUS
<1>2. QueueDepth \in Nat /\ Len(queue) \in Nat
    BY DisplayAssumption
<1> QED BY <1>1, <1>2

LEMMA InitIInv == Init => IInv
<1> SUFFICES ASSUME Init PROVE IInv
    OBVIOUS
<1>1. TypeOK
  <2>1. timer \in 0 .. DisplayPeriod
      BY DisplayAssumption DEF Init
  <2>2. /\ twistQueue \in Seq(Samples) /\ Len(twistQueue) <= QueueDepth
        /\ statusQueue \in Seq(BOOLEAN) /\ Len(statusQueue) <= QueueDepth
      BY DisplayAssumption DEF Init
  <2> QED BY <2>1, <2>2
      DEF Init, MachineInit, TypeOK, MachineTypeOK, Readings, Samples
<1>2. CacheFollowsMachine /\ NoGhostMotion /\ MachineClock /\ ScreenClock
    BY DEF Init, MachineInit, CacheFollowsMachine, NoGhostMotion, MachineClock,
           ScreenClock, Displaying
<1> QED BY <1>1, <1>2 DEF IInv

-----------------------------------------------------------------------------
\* Messages on the way change nothing the invariant relates.
LEMMA UpstreamKeeps ==
    ASSUME IInv,
           \/ \E v \in Samples : SendTwist(v)
           \/ \E ok \in BOOLEAN : SendStatus(ok)
           \/ IgnoreZeroTwist
    PROVE  IInv'
<1>1. UNCHANGED <<machine, last_nonzero, screen, timer, observers>>
    BY DEF SendTwist, SendStatus, IgnoreZeroTwist
<1> DEFINE QueuesOK ==
              /\ twistQueue' \in Seq(Samples) /\ Len(twistQueue') <= QueueDepth
              /\ statusQueue' \in Seq(BOOLEAN) /\ Len(statusQueue') <= QueueDepth
              /\ permitted' \in BOOLEAN
<1>2. QueuesOK
  <2>1. ASSUME NEW v \in Samples, SendTwist(v) PROVE QueuesOK
      BY <2>1, KeepLastBounded DEF IInv, TypeOK, SendTwist
  <2>2. ASSUME NEW ok \in BOOLEAN, SendStatus(ok) PROVE QueuesOK
      BY <2>2, KeepLastBounded DEF IInv, TypeOK, SendStatus
  <2>3. CASE IgnoreZeroTwist
      BY <2>3, TailBounded DEF IInv, TypeOK, IgnoreZeroTwist
  <2> QED BY <2>1, <2>2, <2>3
<1>3. TypeOK'
    BY <1>1, <1>2 DEF IInv, TypeOK, MachineTypeOK, machine, observers
<1>4. (CacheFollowsMachine /\ NoGhostMotion /\ MachineClock /\ ScreenClock)'
    BY <1>1 DEF IInv, CacheFollowsMachine, NoGhostMotion, MachineClock,
       ScreenClock, Displaying, machine, observers
<1> QED BY <1>3, <1>4 DEF IInv

LEMMA TickKeeps ==
    ASSUME IInv, Tick
    PROVE  IInv'
<1> USE HoldAssumption, HoldProperties, DisplayAssumption
<1>0. /\ first_nonzero \in Readings /\ last_nonzero_s \in Readings
      /\ sinceSample \in Readings /\ timer \in 0 .. DisplayPeriod
    BY DEF IInv, TypeOK, MachineTypeOK
<1>1. TypeOK'
  <2>1. timer' \in 0 .. DisplayPeriod
      BY <1>0 DEF Tick
  <2>2. /\ first_nonzero' \in Readings /\ last_nonzero_s' \in Readings
        /\ sinceSample' \in Readings
      BY <1>0, OlderReading DEF Tick, MachineAges
  <2> QED BY <2>1, <2>2
      DEF IInv, TypeOK, MachineTypeOK, Tick, MachineAges, upstream
<1>2. CacheFollowsMachine' /\ NoGhostMotion'
    BY DEF IInv, CacheFollowsMachine, NoGhostMotion, Displaying, Tick, MachineAges
<1>3. MachineClock'
    BY <1>0, OlderReading DEF IInv, MachineClock, Tick, MachineAges
<1>4. ScreenClock'
  <2> SUFFICES ASSUME screen # Zero PROVE ScreenClock'
      BY DEF ScreenClock, Tick
  <2>1. sinceSample # Never /\ sinceSample <= Hold + timer
      BY DEF IInv, ScreenClock
  <2>2. sinceSample' # Never /\ sinceSample' <= sinceSample + 1
      BY <1>0, <2>1, OlderReading DEF Tick
  <2> QED BY <1>0, <2>1, <2>2, OlderReading
      DEF ScreenClock, Tick, Readings, Never
<1> QED BY <1>1, <1>2, <1>3, <1>4 DEF IInv

LEMMA OnTwistKeeps ==
    ASSUME IInv, OnTwist
    PROVE  IInv'
<1> DEFINE v == Head(twistQueue)
<1>1. v \in Velocities /\ v # None /\ twistQueue' \in Seq(Samples)
      /\ Len(twistQueue') <= QueueDepth
  <2>1. v \in Samples /\ twistQueue' \in Seq(Samples) /\ Len(twistQueue') <= QueueDepth
      BY TailBounded DEF IInv, TypeOK, OnTwist
  <2> QED BY <2>1, DisplayAssumption DEF OnTwist, Samples
<1>2. /\ first_nonzero' \in Readings /\ last_nonzero_s' \in Readings
      /\ sinceSample' \in Readings /\ gap' \in Readings
    BY HoldAssumption DEF IInv, TypeOK, MachineTypeOK, OnTwist, CacheTwist,
       ObserveNonzero, Readings
<1>3. phase' \in {"priming", "active"} /\ last_nonzero' = v
    BY DEF OnTwist, CacheTwist, ObserveNonzero, PhaseAfterSample
<1>4. TypeOK'
    BY <1>1, <1>2, <1>3 DEF IInv, TypeOK, MachineTypeOK, OnTwist
<1>5. CacheFollowsMachine' /\ NoGhostMotion'
    BY <1>1, <1>3 DEF CacheFollowsMachine, NoGhostMotion, Displaying
<1>6. MachineClock'
  <2>1. sinceSample' = 0 /\ last_nonzero_s' = 0
      BY DEF OnTwist, CacheTwist, ObserveNonzero
  <2>2. ASSUME phase' = "priming"
        PROVE  /\ first_nonzero' = 0
               /\ gap' = Never \/ gap' > ActiveTimeout \/ gap' > InitialHold
    <3>1. Starts /\ first_nonzero' = 0
        BY <2>2 DEF OnTwist, CacheTwist, ObserveNonzero, PhaseAfterSample
    <3>2. CASE phase = "idle"
        BY <3>1, <3>2 DEF IInv, CacheFollowsMachine, Displaying, OnTwist, CacheTwist
    <3>3. CASE HasExpired
        BY <3>1, <3>3 DEF IInv, CacheFollowsMachine, Displaying, MachineClock,
           HasExpired, OnTwist, CacheTwist
    <3> QED BY <3>1, <3>2, <3>3 DEF Starts
  <2> QED BY <2>1, <2>2, <1>3 DEF MachineClock, Never
<1>7. ScreenClock'
    BY HoldProperties, DisplayAssumption
    DEF IInv, TypeOK, ScreenClock, OnTwist, CacheTwist, Never
<1> QED BY <1>4, <1>5, <1>6, <1>7 DEF IInv

\* A stop, from a command or from a status, leaves nothing on the screen.
LEMMA ForceStopClears ==
    ASSUME IInv, ForceStop
    PROVE  phase' = "idle" /\ screen' = Zero /\ last_nonzero' = None
BY DEF IInv, NoGhostMotion, ForceStop, ScreenAfterStop, Reset

\* Whatever empties machine, screen and cache together keeps the relations.
LEMMA ClearedKeeps ==
    ASSUME phase' = "idle", screen' = Zero, last_nonzero' = None
    PROVE  (CacheFollowsMachine /\ NoGhostMotion /\ MachineClock /\ ScreenClock)'
BY DEF CacheFollowsMachine, NoGhostMotion, MachineClock, ScreenClock, Displaying

LEMMA StopsKeep ==
    ASSUME IInv, (\E msg \in Command : OnCommand(msg)) \/ DisplayStops
    PROVE  IInv'
<1>1. phase' = "idle" /\ screen' = Zero /\ last_nonzero' = None /\ Reset
    BY ForceStopClears DEF OnCommand, ForceStop, DisplayStops, Reset
<1>2. timer' \in 0 .. DisplayPeriod
    BY DisplayAssumption DEF IInv, TypeOK, OnCommand, DisplayStops, DisplayTimer
<1>3. UNCHANGED <<upstream, observers>>
    BY DEF OnCommand, DisplayStops, DisplayTimer
<1>4. TypeOK'
    BY <1>1, <1>2, <1>3 DEF IInv, TypeOK, MachineTypeOK, Reset, Readings,
       Samples, upstream, observers
<1> QED BY <1>1, <1>4, ClearedKeeps DEF IInv

LEMMA OnStatusKeeps ==
    ASSUME IInv, OnStatus
    PROVE  IInv'
<1>1. /\ statusQueue' \in Seq(BOOLEAN) /\ Len(statusQueue') <= QueueDepth
      /\ heardSafe' \in BOOLEAN
    BY TailBounded DEF IInv, TypeOK, OnStatus
<1>2. UNCHANGED <<timer, permitted, twistQueue, sinceSample, gap>>
    BY DEF OnStatus
<1>3. CASE UNCHANGED <<machine, last_nonzero, screen>>
  <2>1. TypeOK'
      BY <1>1, <1>2, <1>3 DEF IInv, TypeOK, MachineTypeOK, machine
  <2>2. (CacheFollowsMachine /\ NoGhostMotion /\ MachineClock /\ ScreenClock)'
      BY <1>2, <1>3 DEF IInv, CacheFollowsMachine, NoGhostMotion, MachineClock,
         ScreenClock, Displaying, machine
  <2> QED BY <2>1, <2>2 DEF IInv
<1>4. CASE ForceStop
  <2>1. phase' = "idle" /\ screen' = Zero /\ last_nonzero' = None
      BY <1>4, ForceStopClears
  <2>2. TypeOK'
      BY <1>1, <1>2, <1>4, <2>1 DEF IInv, TypeOK, MachineTypeOK, ForceStop,
         Reset, Readings, Samples
  <2> QED BY <2>1, <2>2, ClearedKeeps DEF IInv
<1> QED BY <1>3, <1>4 DEF OnStatus

LEMMA DisplayKeeps ==
    ASSUME IInv, DisplaysNothing \/ DisplayRepeats
    PROVE  IInv'
<1> USE HoldAssumption, HoldProperties, DisplayAssumption
<1>1. /\ timer' = 0
      /\ UNCHANGED <<machine, last_nonzero, upstream, observers>>
    BY DEF DisplaysNothing, DisplayRepeats, DisplayTimer
<1>2. screen' \in Samples
    BY DEF IInv, TypeOK, Samples, DisplaysNothing, DisplayRepeats
<1>3. TypeOK'
    BY <1>1, <1>2 DEF IInv, TypeOK, MachineTypeOK, machine, upstream, observers
<1>4. CacheFollowsMachine' /\ MachineClock'
    BY <1>1 DEF IInv, CacheFollowsMachine, MachineClock, Displaying, machine, observers
<1>5. NoGhostMotion' /\ ScreenClock'
  <2>1. CASE DisplaysNothing
      BY <1>1, <2>1 DEF IInv, NoGhostMotion, ScreenClock, Displaying,
         DisplaysNothing, machine, observers
  <2>2. CASE DisplayRepeats
    <3>1. sinceSample # Never /\ sinceSample <= Hold
        BY <2>2 DEF IInv, TypeOK, MachineTypeOK, MachineClock, Displaying,
           HasExpired, DisplayRepeats, Readings, Never
    <3> QED BY <1>1, <2>2, <3>1 DEF IInv, TypeOK, NoGhostMotion, ScreenClock,
            Displaying, DisplayRepeats, machine, observers, Readings, Never
  <2> QED BY <2>1, <2>2
<1> QED BY <1>3, <1>4, <1>5 DEF IInv

LEMMA NextIInv == IInv /\ [Next]_vars => IInv'
<1> SUFFICES ASSUME IInv, [Next]_vars PROVE IInv'
    OBVIOUS
<1>1. CASE Next
    BY <1>1, UpstreamKeeps, TickKeeps, OnTwistKeeps, StopsKeep, OnStatusKeeps,
       DisplayKeeps
    DEF Next, PublishDisplay
<1>2. CASE UNCHANGED vars
    BY <1>2 DEF IInv, TypeOK, MachineTypeOK, CacheFollowsMachine, NoGhostMotion,
       MachineClock, ScreenClock, Displaying, vars, machine, upstream, observers
<1> QED BY <1>1, <1>2

\* The inductive invariant holds in every reachable state.
THEOREM Inductive == Spec => []IInv
BY InitIInv, NextIInv, PTL DEF Spec

\* Every variable of the node keeps its type, and the queues their depth,
\* whatever callbacks and overflows come.
THEOREM TypeCorrect == Spec => []TypeOK
<1>1. IInv => TypeOK BY DEF IInv
<1> QED BY <1>1, Inductive, PTL

-----------------------------------------------------------------------------
\* An idle machine never leaves motion on Unity's screen.
THEOREM GhostTheorem == Spec => []NoGhostMotion
<1>1. IInv => NoGhostMotion BY DEF IInv
<1> QED BY <1>1, Inductive, PTL

\* The cache and the machine agree, so a repeat always has a twist to publish.
THEOREM CacheTheorem == Spec => []CacheFollowsMachine
<1>1. IInv => CacheFollowsMachine BY DEF IInv
<1> QED BY <1>1, Inductive, PTL

\* A repeated command is released after the short timeout.
THEOREM QuickReleaseTheorem == Spec => QuickRelease
<1>1. ASSUME IInv
      PROVE  [DisplayRepeats /\ gap # Never /\ gap <= ActiveTimeout
                /\ gap <= InitialHold => sinceSample <= ActiveTimeout]_vars
    BY <1>1, HoldAssumption DEF IInv, TypeOK, MachineTypeOK, MachineClock,
       Displaying, HasExpired, DisplayRepeats, Readings, Never
<1> QED BY <1>1, Inductive, PTL DEF QuickRelease

\* The conditioner implements the abstract display: every step is a sample, a
\* display of the fresh latest sample, a stop, the passing of time within the
\* deadline, or invisible.
THEOREM PromiseTheorem == Spec => KeepsPromise
<1>1. Init => Promise!Init
    BY DEF Init, Promise!Init, Never
<1>2. ASSUME IInv, Next
      PROVE  [Promise!Next]_(Promise!vars)
  <2>1. CASE (\E v \in Samples : SendTwist(v)) \/ (\E ok \in BOOLEAN : SendStatus(ok))
             \/ IgnoreZeroTwist
      BY <2>1 DEF SendTwist, SendStatus, IgnoreZeroTwist, observers, Promise!vars
  <2>2. CASE OnTwist
    <3>1. Head(twistQueue) \in Velocities
        BY <1>2, <2>2, TailBounded DEF IInv, TypeOK, OnTwist, Samples
    <3>2. Promise!Sample(Head(twistQueue))
        BY <2>2 DEF OnTwist, CacheTwist, Promise!Sample
    <3> QED BY <3>1, <3>2 DEF Promise!Next
  <2>3. CASE (\E msg \in Command : OnCommand(msg)) \/ DisplayStops
      BY <1>2, <2>3, ForceStopClears
      DEF OnCommand, DisplayStops, DisplayTimer, observers, Promise!Next, Promise!Stop
  <2>4. CASE OnStatus
      BY <1>2, <2>4, ForceStopClears
      DEF OnStatus, Promise!Next, Promise!Stop, Promise!vars
  <2>5. CASE DisplaysNothing
      BY <2>5 DEF DisplaysNothing, DisplayTimer, observers, Promise!vars
  <2>6. CASE DisplayRepeats
    <3>1. last_nonzero # None /\ sinceSample <= Hold
        BY <1>2, <2>6, HoldAssumption, HoldProperties
        DEF IInv, TypeOK, MachineTypeOK, CacheFollowsMachine, MachineClock,
            Displaying, HasExpired, DisplayRepeats, Readings, Never
    <3> QED BY <2>6, <3>1
        DEF DisplayRepeats, DisplayTimer, observers, Promise!Next, Promise!Show
  <2>7. CASE Tick
    <3>1. screen # Zero => sinceSample < Hold + DisplayPeriod
        BY <1>2, <2>7, HoldProperties, DisplayAssumption
        DEF IInv, TypeOK, ScreenClock, Tick, Readings, Never
    <3> QED BY <2>7, <3>1
        DEF Tick, Older, Never, Promise!Next, Promise!Pass
  <2> QED BY <1>2, <2>1, <2>2, <2>3, <2>4, <2>5, <2>6, <2>7 DEF Next, PublishDisplay
<1>3. UNCHANGED vars => UNCHANGED Promise!vars
    BY DEF vars, observers, Promise!vars
<1> QED BY <1>1, <1>2, <1>3, Inductive, PTL
    DEF Spec, KeepsPromise, Promise!Spec
=============================================================================
