------------------------- MODULE UnityBridgesProofs -------------------------
(***************************************************************************)
(* The bridges to Unity show nothing or something true, and never          *)
(* something older than before, for every queue depth and any number of    *)
(* changes; and no joint message, whatever its arrays, is misread.         *)
(***************************************************************************)
EXTENDS UnityBridges, LeastNumber

-----------------------------------------------------------------------------
(* The joint messages.                                                     *)

\* The dictionary of a callback holds the joints that the message gives a
\* reading, each with one of its readings.
LEMMA ReadingOfJoint ==
    ASSUME NEW msg, NEW readings, IsArray(msg.name), IsArray(readings), NEW j
    PROVE  /\ j \in DOMAIN ByName(msg.name, readings) <=> Given(msg, readings, j) # {}
           /\ Given(msg, readings, j) # {} =>
                ByName(msg.name, readings)[j] \in Given(msg, readings, j)
<1> DEFINE read == DOMAIN msg.name \cap DOMAIN readings
           places == {i \in read : msg.name[i] = j}
<1>1. j \in DOMAIN ByName(msg.name, readings) <=> places # {}
    BY DEF ByName
<1>2. Given(msg, readings, j) = {readings[i] : i \in places}
    BY DEF Given
<1>3. ASSUME places # {} PROVE Max(places) \in places
  <2>1. Len(readings) \in Nat /\ DOMAIN readings = 1..Len(readings)
      BY DEF IsArray
  <2>2. places \in SUBSET Nat /\ \A i \in places : i <= Len(readings)
      BY <2>1
  <2> HIDE DEF places
  <2> QED BY <1>3, <2>1, <2>2, BoundedMax
<1>4. ASSUME places # {} PROVE ByName(msg.name, readings)[j] = readings[Max(places)]
  <2>1. j \in {msg.name[i] : i \in read}
      BY <1>4
  <2> QED BY <2>1 DEF ByName
<1> HIDE DEF places
<1> QED BY <1>1, <1>2, <1>3, <1>4

\* In joint order, every reading is one that the message gives under that name.
LEMMA InOrderFaithful ==
    ASSUME NEW msg, NEW readings, IsArray(msg.name), IsArray(readings)
    PROVE  Faithful(msg, readings, InOrder(ByName(msg.name, readings)))
<1> DEFINE map == ByName(msg.name, readings)
<1> SUFFICES ASSUME NEW i \in DOMAIN JointOrder
             PROVE  IF Given(msg, readings, JointOrder[i]) = {}
                    THEN InOrder(map)[i] = Zero
                    ELSE InOrder(map)[i] \in Given(msg, readings, JointOrder[i])
    BY DEF Faithful
<1>1. InOrder(map)[i] = IF JointOrder[i] \in DOMAIN map THEN map[JointOrder[i]] ELSE Zero
    BY DEF InOrder
<1>2. /\ JointOrder[i] \in DOMAIN map <=> Given(msg, readings, JointOrder[i]) # {}
      /\ Given(msg, readings, JointOrder[i]) # {} =>
            map[JointOrder[i]] \in Given(msg, readings, JointOrder[i])
    BY ReadingOfJoint
<1> HIDE DEF map
<1> QED BY <1>1, <1>2

\* The callback's dictionary lacks a joint exactly when the message does.
LEMMA CompleteGiven ==
    ASSUME NEW msg, NEW readings, IsArray(msg.name), IsArray(readings)
    PROVE  Complete(ByName(msg.name, readings)) <=>
             ~ \E j \in Range(JointOrder) : Given(msg, readings, j) = {}
<1>1. \A j : j \in DOMAIN ByName(msg.name, readings) <=> Given(msg, readings, j) # {}
    BY ReadingOfJoint
<1> QED BY <1>1 DEF Complete

\* No joint is shown another one's reading, and exactly the messages without a
\* reading that the topic is about are dropped, for arrays of any lengths
\* (joint_state_bridge 52-89, joint_torque_bridge 59-77).
THEOREM EveryMessageByName ==
    ASSUME NEW msg, IsJointMessage(msg),
           Dropped \notin {JointStateUnity(msg), JointTorqueUnity(msg)}
    PROVE  ReadsByName(msg)
<1> DEFINE Lacking(readings) ==
              \E j \in Range(JointOrder) : Given(msg, readings, j) = {}
<1>1. /\ IsArray(msg.name) /\ IsArray(msg.position)
      /\ IsArray(msg.velocity) /\ IsArray(msg.effort)
    BY DEF IsJointMessage
<1>2. /\ Complete(ByName(msg.name, msg.position)) <=> ~Lacking(msg.position)
      /\ Complete(ByName(msg.name, msg.effort)) <=> ~Lacking(msg.effort)
    BY <1>1, CompleteGiven
<1>3. (JointState(msg) = Dropped) <=> Lacking(msg.position)
    BY <1>2 DEF JointState
<1>4. (JointTorque(msg) = Dropped) <=> Lacking(msg.effort)
    BY <1>2 DEF JointTorque
<1>5. ASSUME JointState(msg) # Dropped
      PROVE  /\ Faithful(msg, msg.position, JointState(msg).positions)
             /\ Faithful(msg, msg.velocity, JointState(msg).velocities)
             /\ Faithful(msg, msg.effort, JointState(msg).efforts)
  <2>1. JointState(msg) = JointStateUnity(msg)
      BY <1>5 DEF JointState
  <2>2. /\ JointState(msg).positions = InOrder(ByName(msg.name, msg.position))
        /\ JointState(msg).velocities = InOrder(ByName(msg.name, msg.velocity))
        /\ JointState(msg).efforts = InOrder(ByName(msg.name, msg.effort))
      BY <2>1 DEF JointStateUnity
  <2> QED BY <1>1, <2>2, InOrderFaithful
<1>6. ASSUME JointTorque(msg) # Dropped
      PROVE  Faithful(msg, msg.effort, JointTorque(msg).torques_nm)
  <2>1. JointTorque(msg).torques_nm = InOrder(ByName(msg.name, msg.effort))
      BY <1>6 DEF JointTorque, JointTorqueUnity
  <2> QED BY <1>1, <2>1, InOrderFaithful
<1> QED BY <1>3, <1>4, <1>5, <1>6 DEF ReadsByName

\* What the callback is given is always read by name.
THEOREM ReadingsTheorem == Spec => ReadingsByName
<1>1. \A msg \in JointMsgs : ReadsByName(msg)
    BY BridgeAssumption, EveryMessageByName
<1>2. \A msg \in JointMsgs : JointCallback(msg) => ReadsByName(msg)
    BY <1>1
<1> QED BY <1>2, PTL DEF ReadingsByName

-----------------------------------------------------------------------------
(* What is on its way to Unity.                                            *)

Rising(queue) == \A i, j \in DOMAIN queue : i <= j => queue[i] <= queue[j]
Between(queue, low, high) ==
    \A i \in DOMAIN queue : low <= queue[i] /\ queue[i] <= high
Precedes(first, second) ==
    \A i \in DOMAIN first, j \in DOMAIN second : first[i] <= second[j]

\* What is on a wire or in a bridge is in order, true at some time, and no
\* older than what is ahead of it: the picture, the bridge's attribute, the
\* toggle being handled and the calls made.
WireOrder ==
    /\ Rising(wire)
    /\ Between(wire, newest, now) /\ Between(wire, latest, now)
    /\ channel \in Polled => wire = <<>>
LatestOrder ==
    /\ latest = 0 \/ (newest <= latest /\ latest <= now)
    /\ channel \notin Latched \cup Streamed \cup Info => latest = 0
HandlingOrder ==
    handling # None =>
        /\ channel \in Toggle
        /\ newest <= handling /\ handling <= now
        /\ Between(wire, handling, now)
        /\ Between(calls, 0, handling)
CallsOrder ==
    /\ channel \in Toggle => /\ Rising(calls) /\ Precedes(calls, wire)
                             /\ Between(calls, newest, now) /\ Between(calls, 1, now)
    /\ channel \in Polled => Between(calls, 0, 0)
    /\ channel \notin Polled \cup Toggle => calls = <<>>
AnswersOrder ==
    /\ channel \notin Polled => answers = <<>>
    /\ \A i \in DOMAIN answers :
        answers[i] = 0 \/ (newest <= answers[i] /\ latest <= answers[i] /\ answers[i] <= now)

\* A polling bridge that lost a call has nothing under way.
LostCall == channel \in Polled /\ lost => calls = <<>> /\ answers = <<>>

IInv ==
    /\ TypeOK
    /\ pending \in BOOLEAN /\ lost \in BOOLEAN
    /\ 1 <= now /\ newest <= now /\ shown \in {0, newest}
    /\ WireOrder /\ LatestOrder /\ HandlingOrder /\ CallsOrder /\ AnswersOrder
    /\ LostCall

-----------------------------------------------------------------------------
LEMMA KindsOfChannel ==
    /\ channel \in Toggle => channel \notin Latched \cup Streamed \cup Joints \cup Mirrored \cup Polled
    /\ channel \in Polled => channel \notin Latched \cup Streamed \cup Joints \cup Mirrored \cup Toggle
    /\ channel \in Joints \cup Mirrored => channel \notin Latched \cup Streamed \cup Info
    /\ channel = "controllers" => channel \in Polled /\ channel \notin Info
    /\ channel \in Info => channel \in Polled
BY DEF Toggle, Latched, Streamed, Joints, Mirrored, Polled, Info, Dashboard

LEMMA MaxOfTwo ==
    ASSUME NEW a \in Nat, NEW b \in Nat
    PROVE  Max({a, b}) = IF a <= b THEN b ELSE a
<1>1. \E m \in {a, b} : \A x \in {a, b} : m >= x
    OBVIOUS
<1>2. Max({a, b}) \in {a, b} /\ \A x \in {a, b} : Max({a, b}) >= x
    BY <1>1 DEF Max
<1> QED BY <1>2

LEMMA TailOf ==
    ASSUME NEW S, NEW q \in Seq(S), q # <<>>
    PROVE  /\ Head(q) \in S /\ Head(q) = q[1] /\ 1 \in DOMAIN q
           /\ Tail(q) \in Seq(S) /\ Len(Tail(q)) = Len(q) - 1
           /\ \A i \in DOMAIN Tail(q) : i + 1 \in DOMAIN q /\ Tail(q)[i] = q[i + 1]
OBVIOUS

LEMMA OnlyElement ==
    ASSUME NEW S, NEW q \in Seq(S), q # <<>>, Len(q) <= 1
    PROVE  Len(q) = 1 /\ Tail(q) = <<>>
<1>1. Tail(q) \in Seq(S) /\ Len(Tail(q)) = Len(q) - 1 /\ Len(q) \in Nat /\ Len(q) # 0
    BY TailOf
<1>2. Len(q) = 1 /\ Len(Tail(q)) = 0
    BY <1>1
<1>3. \A t \in Seq(S) : Len(t) = 0 => t = <<>>
    OBVIOUS
<1> QED BY <1>1, <1>2, <1>3

LEMMA ElementOf ==
    ASSUME NEW S, NEW q \in Seq(S), NEW i \in DOMAIN q
    PROVE  q[i] \in S
OBVIOUS

LEMMA AppendOf ==
    ASSUME NEW S, NEW q \in Seq(S), NEW e \in S
    PROVE  /\ Append(q, e) \in Seq(S) /\ Len(Append(q, e)) = Len(q) + 1
           /\ DOMAIN Append(q, e) = 1 .. Len(q) + 1
           /\ \A i \in DOMAIN q : Append(q, e)[i] = q[i]
           /\ Append(q, e)[Len(q) + 1] = e
OBVIOUS

LEMMA TailOrder ==
    ASSUME NEW S \in SUBSET Nat, NEW q \in Seq(S), q # <<>>
    PROVE  /\ \A low, high \in Nat : Between(q, low, high) =>
                 low <= Head(q) /\ Head(q) <= high /\ Between(Tail(q), low, high)
           /\ Rising(q) => /\ Rising(Tail(q))
                           /\ \A low, high \in Nat : Between(q, low, high) =>
                                 Between(Tail(q), Head(q), high)
<1>1. /\ Head(q) = q[1] /\ 1 \in DOMAIN q
      /\ \A i \in DOMAIN Tail(q) : i + 1 \in DOMAIN q /\ Tail(q)[i] = q[i + 1]
    BY TailOf
<1>2. \A i \in DOMAIN Tail(q) : i \in Nat /\ i >= 1
    BY TailOf
<1>3. \A low, high \in Nat : Between(q, low, high) =>
          low <= Head(q) /\ Head(q) <= high /\ Between(Tail(q), low, high)
    BY <1>1 DEF Between
<1>4. ASSUME Rising(q) PROVE Rising(Tail(q))
  <2> SUFFICES ASSUME NEW i \in DOMAIN Tail(q), NEW j \in DOMAIN Tail(q), i <= j
               PROVE  Tail(q)[i] <= Tail(q)[j]
      BY DEF Rising
  <2>1. i + 1 <= j + 1
      BY <1>2
  <2> QED BY <1>1, <1>4, <2>1 DEF Rising
<1>5. ASSUME Rising(q), NEW low \in Nat, NEW high \in Nat, Between(q, low, high)
      PROVE  Between(Tail(q), Head(q), high)
  <2> SUFFICES ASSUME NEW i \in DOMAIN Tail(q)
               PROVE  Head(q) <= Tail(q)[i] /\ Tail(q)[i] <= high
      BY DEF Between
  <2>1. 1 <= i + 1
      BY <1>2
  <2> QED BY <1>1, <1>5, <2>1 DEF Rising, Between
<1> QED BY <1>3, <1>4, <1>5

LEMMA AppendOrder ==
    ASSUME NEW S \in SUBSET Nat, NEW q \in Seq(S), NEW e \in S
    PROVE  /\ \A low, high \in Nat : Between(q, low, high) /\ low <= e /\ e <= high =>
                 Between(Append(q, e), low, high)
           /\ \A low \in Nat : Rising(q) /\ Between(q, low, e) => Rising(Append(q, e))
<1>1. \A i \in DOMAIN Append(q, e) :
          (i \in DOMAIN q /\ Append(q, e)[i] = q[i]) \/ (i = Len(q) + 1 /\ Append(q, e)[i] = e)
    BY AppendOf
<1>2. Len(q) \in Nat /\ DOMAIN q = 1 .. Len(q)
    OBVIOUS
<1>3. e \in Nat
    OBVIOUS
<1>4. \A low, high \in Nat : Between(q, low, high) /\ low <= e /\ e <= high =>
          Between(Append(q, e), low, high)
    BY <1>1 DEF Between
<1>5. ASSUME NEW low \in Nat, Rising(q), Between(q, low, e)
      PROVE  Rising(Append(q, e))
  <2> SUFFICES ASSUME NEW i \in DOMAIN Append(q, e), NEW j \in DOMAIN Append(q, e), i <= j
               PROVE  Append(q, e)[i] <= Append(q, e)[j]
      BY DEF Rising
  <2>1. CASE i \in DOMAIN q /\ j \in DOMAIN q
      BY <1>1, <1>2, <1>5, <2>1 DEF Rising
  <2>2. CASE i \in DOMAIN q /\ j = Len(q) + 1
      BY <1>1, <1>2, <1>5, <2>2 DEF Between
  <2>3. CASE i = Len(q) + 1
    <3>1. j = Len(q) + 1
        BY <1>1, <1>2, <2>3
    <3> QED BY <1>1, <1>2, <2>3, <3>1
  <2> QED BY <1>1, <2>1, <2>2, <2>3
<1> QED BY <1>4, <1>5

LEMMA DepthPositive == Depth \in Nat /\ Depth >= 1
BY BridgeAssumption DEF Depth

\* A bounded queue stays a bounded queue, in order when the value is newest.
LEMMA KeepLastOrder ==
    ASSUME NEW S \in SUBSET Nat, NEW q \in Seq(S), Len(q) <= Depth, NEW v \in S
    PROVE  /\ KeepLast(q, v) \in Seq(S) /\ Len(KeepLast(q, v)) <= Depth
           /\ \A low, high \in Nat : Between(q, low, high) /\ low <= v /\ v <= high =>
                 Between(KeepLast(q, v), low, high)
           /\ \A low \in Nat : Rising(q) /\ Between(q, low, v) => Rising(KeepLast(q, v))
<1>1. CASE Len(q) < Depth
  <2>1. KeepLast(q, v) = Append(q, v)
      BY <1>1 DEF KeepLast
  <2>2. Append(q, v) \in Seq(S) /\ Len(Append(q, v)) <= Depth
      BY <1>1, DepthPositive, AppendOf
  <2> QED BY <2>1, <2>2, AppendOrder
<1>2. CASE ~(Len(q) < Depth)
  <2>1. q # <<>> /\ Len(q) = Depth
      BY <1>2, DepthPositive
  <2>2. Tail(q) \in Seq(S) /\ Len(Tail(q)) = Len(q) - 1
      BY <2>1, TailOf
  <2>3. KeepLast(q, v) = Append(Tail(q), v)
      BY <1>2 DEF KeepLast
  <2>4. Append(Tail(q), v) \in Seq(S) /\ Len(Append(Tail(q), v)) <= Depth
      BY <2>1, <2>2, DepthPositive, AppendOf
  <2>5. \A low, high \in Nat : Between(q, low, high) => Between(Tail(q), low, high)
      BY <2>1, TailOrder
  <2>6. Rising(q) => Rising(Tail(q))
      BY <2>1, TailOrder
  <2>7. /\ \A low, high \in Nat : Between(Tail(q), low, high) /\ low <= v /\ v <= high =>
              Between(Append(Tail(q), v), low, high)
        /\ \A low \in Nat : Rising(Tail(q)) /\ Between(Tail(q), low, v) =>
              Rising(Append(Tail(q), v))
      BY <2>2, AppendOrder
  <2>8. v \in Nat
      OBVIOUS
  <2> QED BY <2>3, <2>4, <2>5, <2>6, <2>7, <2>8
<1> QED BY <1>1, <1>2

-----------------------------------------------------------------------------
LEMMA Numbers ==
    ASSUME TypeOK
    PROVE  /\ now \in Nat /\ latest \in Nat /\ shown \in Nat /\ newest \in Nat
           /\ now <= MaxChanges /\ MaxChanges \in Nat
           /\ 1 .. MaxChanges \in SUBSET Nat /\ 0 .. MaxChanges \in SUBSET Nat
           /\ handling # None => handling \in Nat /\ handling >= 1
<1>1. MaxChanges \in Nat
    BY BridgeAssumption
<1>2. now \in 0 .. MaxChanges /\ latest \in 0 .. MaxChanges
      /\ shown \in 0 .. MaxChanges /\ newest \in 0 .. MaxChanges
    BY DEF TypeOK
<1>3. handling # None => handling \in 1 .. MaxChanges
    BY DEF TypeOK
<1> QED BY <1>1, <1>2, <1>3

LEMMA BetweenWider ==
    ASSUME NEW S \in SUBSET Nat, NEW q \in Seq(S),
           NEW low \in Nat, NEW high \in Nat, Between(q, low, high),
           NEW lower \in Nat, NEW higher \in Nat, lower <= low, high <= higher
    PROVE  Between(q, lower, higher)
<1>1. \A i \in DOMAIN q : q[i] \in S
    OBVIOUS
<1>2. \A i \in DOMAIN q : q[i] \in Nat
    BY <1>1
<1> QED BY <1>2 DEF Between

\* Showing a value that is not older than the picture.
LEMMA ShowEffect ==
    ASSUME TypeOK, NEW v \in Nat, v = 0 \/ newest <= v, Show(v)
    PROVE  /\ shown' = v /\ newest' = (IF v = 0 THEN newest ELSE v)
           /\ newest <= newest' /\ shown' \in {0, newest'} /\ newest' \in Nat
<1>1. newest \in Nat
    BY Numbers
<1>2. newest' = IF newest <= v THEN v ELSE newest
    BY <1>1, MaxOfTwo DEF Show
<1> QED BY <1>1, <1>2 DEF Show

\* The first message on a wire, and those behind it.
LEMMA TakenFromWire ==
    ASSUME IInv, wire # <<>>
    PROVE  /\ Head(wire) \in 1 .. MaxChanges
           /\ newest <= Head(wire) /\ latest <= Head(wire) /\ Head(wire) <= now
           /\ Tail(wire) \in Seq(1 .. MaxChanges) /\ Len(Tail(wire)) <= Depth
           /\ Rising(Tail(wire)) /\ Between(Tail(wire), Head(wire), now)
           /\ Between(Tail(wire), newest, now) /\ Between(Tail(wire), latest, now)
           /\ channel \notin Polled
           /\ handling # None => Between(Tail(wire), handling, now)
           /\ channel \in Toggle => /\ Precedes(calls, Tail(wire))
                                    /\ Between(calls, 0, Head(wire))
<1> USE Numbers
<1>1. TypeOK /\ WireOrder /\ HandlingOrder /\ CallsOrder
    BY DEF IInv
<1>2. wire \in Seq(1 .. MaxChanges) /\ Len(wire) <= Depth /\ calls \in Seq(0 .. MaxChanges)
    BY <1>1 DEF TypeOK
<1>3. /\ Head(wire) \in 1 .. MaxChanges /\ Head(wire) = wire[1] /\ 1 \in DOMAIN wire
      /\ Tail(wire) \in Seq(1 .. MaxChanges) /\ Len(Tail(wire)) = Len(wire) - 1
      /\ \A i \in DOMAIN Tail(wire) : i + 1 \in DOMAIN wire /\ Tail(wire)[i] = wire[i + 1]
    BY <1>2, TailOf
<1>4. Len(Tail(wire)) <= Depth
    BY <1>2, <1>3, DepthPositive
<1>5. Rising(wire) /\ Between(wire, newest, now) /\ Between(wire, latest, now) /\ channel \notin Polled
    BY <1>1 DEF WireOrder
<1>6. /\ \A low, high \in Nat : Between(wire, low, high) =>
            low <= Head(wire) /\ Head(wire) <= high /\ Between(Tail(wire), low, high)
      /\ Rising(wire) => /\ Rising(Tail(wire))
                         /\ \A low, high \in Nat : Between(wire, low, high) =>
                               Between(Tail(wire), Head(wire), high)
    BY <1>1, <1>2, TailOrder
<1>7. handling # None => Between(Tail(wire), handling, now)
    BY <1>1, <1>6 DEF HandlingOrder
<1>8. ASSUME channel \in Toggle
      PROVE  Precedes(calls, Tail(wire)) /\ Between(calls, 0, Head(wire))
  <2>1. Precedes(calls, wire)
      BY <1>1, <1>8 DEF CallsOrder
  <2>2. \A i \in DOMAIN calls : calls[i] \in 0 .. MaxChanges
      BY <1>2, ElementOf
  <2>3. \A i \in DOMAIN calls : 0 <= calls[i]
      BY <1>1, <2>2
  <2> QED BY <1>3, <2>1, <2>3 DEF Precedes, Between
<1> QED BY <1>1, <1>3, <1>4, <1>5, <1>6, <1>7, <1>8

\* A message that is as new as the truth, put on the wire.
LEMMA PutOnWire ==
    ASSUME IInv, NEW v \in 1 .. MaxChanges, now <= v
    PROVE  /\ KeepLast(wire, v) \in Seq(1 .. MaxChanges) /\ Len(KeepLast(wire, v)) <= Depth
           /\ Rising(KeepLast(wire, v))
           /\ Between(KeepLast(wire, v), newest, v) /\ Between(KeepLast(wire, v), latest, v)
           /\ handling # None => Between(KeepLast(wire, v), handling, v)
           /\ channel \in Toggle => Precedes(calls, KeepLast(wire, v))
<1> USE Numbers
<1>1. TypeOK /\ WireOrder /\ LatestOrder /\ HandlingOrder /\ CallsOrder /\ newest <= now
    BY DEF IInv
<1>2. wire \in Seq(1 .. MaxChanges) /\ Len(wire) <= Depth /\ calls \in Seq(0 .. MaxChanges)
    BY <1>1 DEF TypeOK
<1>3. v \in Nat
    BY <1>1
<1>4. latest <= now
    BY <1>1 DEF LatestOrder
<1>5. \A low \in Nat : Between(wire, low, now) => Between(wire, low, v)
    BY <1>1, <1>2, <1>3, BetweenWider
<1>6. /\ KeepLast(wire, v) \in Seq(1 .. MaxChanges) /\ Len(KeepLast(wire, v)) <= Depth
      /\ \A low, high \in Nat : Between(wire, low, high) /\ low <= v /\ v <= high =>
             Between(KeepLast(wire, v), low, high)
      /\ \A low \in Nat : Rising(wire) /\ Between(wire, low, v) => Rising(KeepLast(wire, v))
    BY <1>1, <1>2, KeepLastOrder
<1>7. Rising(wire) /\ Between(wire, newest, v) /\ Between(wire, latest, v)
    BY <1>1, <1>5 DEF WireOrder
<1>8. handling # None => Between(wire, handling, v) /\ handling <= now
    BY <1>1, <1>5 DEF HandlingOrder
<1>9. ASSUME channel \in Toggle PROVE Precedes(calls, KeepLast(wire, v))
  <2>1. Precedes(calls, wire) /\ Between(calls, 1, now)
      BY <1>1, <1>9 DEF CallsOrder
  <2> SUFFICES ASSUME NEW i \in DOMAIN calls
               PROVE  Between(KeepLast(wire, v), calls[i], v)
      BY DEF Precedes, Between
  <2>2. calls[i] \in 0 .. MaxChanges
      BY <1>2, ElementOf
  <2>3. calls[i] \in Nat /\ calls[i] <= now
      BY <1>1, <2>1, <2>2 DEF Between
  <2>4. Between(wire, calls[i], v)
      BY <1>7, <2>1 DEF Precedes, Between
  <2> QED BY <1>1, <1>3, <1>6, <2>3, <2>4
<1>10. newest <= v /\ latest <= v /\ (handling # None => handling <= v)
    BY <1>1, <1>3, <1>4, <1>8
<1> QED BY <1>1, <1>3, <1>6, <1>7, <1>8, <1>9, <1>10

LEMMA InitIInv == Init => IInv
<1> SUFFICES ASSUME Init PROVE IInv
    OBVIOUS
<1>1. MaxChanges \in Nat /\ MaxChanges >= 1
    BY BridgeAssumption
<1>2. wire = <<>> \/ (wire = <<1>> /\ channel \in Latched)
    BY DEF Init
<1>3. channel \in Polled => wire = <<>>
    BY <1>2, KindsOfChannel
<1>4. wire \in Seq(1 .. MaxChanges) /\ Len(wire) <= Depth
  <2>1. CASE wire = <<>>
      BY <2>1, DepthPositive
  <2>2. CASE wire = <<1>>
      BY <1>1, <2>2, DepthPositive
  <2> QED BY <1>2, <2>1, <2>2
<1>5. Rising(wire) /\ Between(wire, 0, 1)
    BY <1>2 DEF Rising, Between
<1>6. channel \in Polled => ~lost
  <2>1. channel \in Polled => ~(channel \in Toggle)
      BY KindsOfChannel
  <2>2. lost = (channel \in Toggle)
      BY DEF Init
  <2> QED BY <2>1, <2>2, Zenon
<1>7. calls = <<>> /\ answers = <<>> /\ pending = FALSE /\ lost \in BOOLEAN
      /\ now = 1 /\ newest = 0 /\ latest = 0 /\ shown = 0 /\ handling = None
    BY DEF Init
<1>8. TypeOK
  <2>1. {now, latest, shown, newest} \subseteq 0 .. MaxChanges
      BY <1>1, <1>7
  <2>2. calls \in Seq(0 .. MaxChanges) /\ answers \in Seq(0 .. MaxChanges)
        /\ Len(calls) + Len(answers) <= 1
      BY <1>7
  <2> QED BY <1>4, <1>6, <1>7, <2>1, <2>2 DEF TypeOK, Init
<1>9. WireOrder /\ LatestOrder /\ HandlingOrder /\ LostCall
    BY <1>3, <1>5, <1>6, <1>7 DEF WireOrder, LatestOrder, HandlingOrder, LostCall
<1>10. CallsOrder /\ AnswersOrder
    BY <1>7 DEF CallsOrder, AnswersOrder, Between, Rising, Precedes
<1>11. 1 <= now /\ newest <= now /\ shown \in {0, newest}
    BY <1>7
<1>12. lost \in BOOLEAN /\ pending \in BOOLEAN
    BY <1>7, Zenon
<1> QED BY <1>8, <1>9, <1>10, <1>11, <1>12 DEF IInv

-----------------------------------------------------------------------------
(* The other side of the bridge.                                           *)

LEMMA ChangesKeeps ==
    ASSUME IInv, Changes
    PROVE  IInv'
<1> USE Numbers, KindsOfChannel
<1>1. TypeOK /\ WireOrder /\ LatestOrder /\ HandlingOrder /\ CallsOrder /\ AnswersOrder
      /\ LostCall /\ 1 <= now /\ newest <= now /\ shown \in {0, newest}
      /\ pending \in BOOLEAN /\ lost \in BOOLEAN
    BY DEF IInv
<1>2. now' = now + 1 /\ now' \in 1 .. MaxChanges /\ now <= now'
    BY <1>1 DEF Changes
<1>3. UNCHANGED <<channel, far, latest, handling, pending, calls, answers, shown, newest>>
    BY DEF Changes, bridge, service, picture
<1>4. wire' = wire \/ (channel \notin Polled /\ wire' = KeepLast(wire, now'))
    BY DEF Changes
<1>5. lost' \in BOOLEAN /\ (channel \in Polled => lost' = lost)
    BY <1>1 DEF Changes
<1>6. /\ wire \in Seq(1 .. MaxChanges) /\ Len(wire) <= Depth
      /\ calls \in Seq(0 .. MaxChanges) /\ answers \in Seq(0 .. MaxChanges)
    BY <1>1 DEF TypeOK
<1>7. \A S \in SUBSET Nat : \A q \in Seq(S), low \in Nat :
          Between(q, low, now) => Between(q, low, now')
    BY <1>1, <1>2, BetweenWider
<1>8. /\ wire' \in Seq(1 .. MaxChanges) /\ Len(wire') <= Depth
      /\ Rising(wire') /\ Between(wire', newest, now') /\ Between(wire', latest, now')
      /\ channel \in Polled => wire' = <<>>
      /\ handling # None => Between(wire', handling, now')
      /\ channel \in Toggle => Precedes(calls, wire')
  <2>1. CASE wire' = wire
      BY <1>1, <1>6, <1>7, <2>1 DEF WireOrder, HandlingOrder, CallsOrder
  <2>2. CASE channel \notin Polled /\ wire' = KeepLast(wire, now')
      BY <1>2, <2>2, PutOnWire
  <2> QED BY <1>4, <2>1, <2>2
<1>9. TypeOK'
  <2>1. Depth' = Depth
      BY <1>3 DEF Depth
  <2>2. {now, latest, shown, newest}' \subseteq 0 .. MaxChanges
      BY <1>1, <1>2, <1>3 DEF TypeOK
  <2> QED BY <1>1, <1>3, <1>5, <1>8, <2>1, <2>2 DEF TypeOK
<1>10. WireOrder' /\ HandlingOrder'
  <2>1. WireOrder'
      BY <1>3, <1>8 DEF WireOrder
  <2>2. handling # None => channel \in Toggle /\ newest <= handling /\ handling <= now
                           /\ Between(calls, 0, handling)
      BY <1>1 DEF HandlingOrder
  <2> QED BY <1>1, <1>2, <1>3, <1>8, <2>1, <2>2 DEF HandlingOrder
<1>11. LatestOrder' /\ LostCall'
    BY <1>1, <1>2, <1>3, <1>5 DEF LatestOrder, LostCall
<1>12. CallsOrder'
  <2>1. channel \in Toggle => Rising(calls) /\ Between(calls, newest, now')
                              /\ Between(calls, 1, now')
      BY <1>1, <1>6, <1>7 DEF CallsOrder
  <2> QED BY <1>1, <1>3, <1>8, <2>1 DEF CallsOrder
<1>13. AnswersOrder'
  <2> SUFFICES ASSUME NEW i \in DOMAIN answers
               PROVE  answers[i] = 0 \/ (newest <= answers[i] /\ latest <= answers[i]
                                         /\ answers[i] <= now')
      BY <1>1, <1>3 DEF AnswersOrder
  <2>1. answers[i] \in 0 .. MaxChanges
      BY <1>6, ElementOf
  <2> QED BY <1>1, <1>2, <2>1 DEF AnswersOrder
<1> QED BY <1>1, <1>2, <1>3, <1>5, <1>9, <1>10, <1>11, <1>12, <1>13 DEF IInv

\* The present value is sent, or the wire is left alone.
LEMMA SendsKeeps ==
    ASSUME IInv, Streams \/ ComesUp
    PROVE  IInv'
<1> USE Numbers, KindsOfChannel
<1>1. TypeOK /\ WireOrder /\ LatestOrder /\ HandlingOrder /\ CallsOrder /\ AnswersOrder
      /\ LostCall /\ 1 <= now /\ newest <= now /\ shown \in {0, newest}
      /\ pending \in BOOLEAN /\ lost \in BOOLEAN
    BY DEF IInv
<1>2. now \in 1 .. MaxChanges /\ now <= now
    BY <1>1
<1>3. UNCHANGED <<channel, now, latest, handling, pending, calls, answers, newest>>
    BY DEF Streams, ComesUp, bridge, service, picture
<1>4. wire' = wire \/ (channel \notin Polled /\ wire' = KeepLast(wire, now))
    BY DEF Streams, ComesUp
<1>5. lost' \in BOOLEAN /\ (channel \in Polled => lost' = lost)
    BY <1>1 DEF Streams, ComesUp
<1>6. shown' = shown \/ shown' = 0
    BY DEF Streams, ComesUp, picture
<1>7. far' \in {"up", "failing", "down"}
    BY <1>1 DEF Streams, ComesUp, TypeOK
<1>8. /\ wire' \in Seq(1 .. MaxChanges) /\ Len(wire') <= Depth
      /\ Rising(wire') /\ Between(wire', newest, now) /\ Between(wire', latest, now)
      /\ channel \in Polled => wire' = <<>>
      /\ handling # None => Between(wire', handling, now)
      /\ channel \in Toggle => Precedes(calls, wire')
  <2>1. CASE wire' = wire
      BY <1>1, <2>1 DEF TypeOK, WireOrder, HandlingOrder, CallsOrder
  <2>2. CASE channel \notin Polled /\ wire' = KeepLast(wire, now)
      BY <1>2, <2>2, PutOnWire
  <2> QED BY <1>4, <2>1, <2>2
<1>9. TypeOK'
  <2>1. Depth' = Depth
      BY <1>3 DEF Depth
  <2>2. {now, latest, shown, newest}' \subseteq 0 .. MaxChanges
      BY <1>1, <1>3, <1>6 DEF TypeOK
  <2> QED BY <1>1, <1>3, <1>5, <1>7, <1>8, <2>1, <2>2 DEF TypeOK
<1>10. WireOrder' /\ HandlingOrder'
    BY <1>1, <1>3, <1>8 DEF WireOrder, HandlingOrder
<1>11. LatestOrder' /\ LostCall'
    BY <1>1, <1>3, <1>5 DEF LatestOrder, LostCall
<1>12. CallsOrder' /\ AnswersOrder'
    BY <1>1, <1>3, <1>8 DEF CallsOrder, AnswersOrder
<1>13. (1 <= now /\ newest <= now /\ shown \in {0, newest} /\ pending \in BOOLEAN)'
    BY <1>1, <1>3, <1>6
<1> QED BY <1>5, <1>9, <1>10, <1>11, <1>12, <1>13 DEF IInv

\* A service that goes away takes the one call of a polling bridge with it.
LEMMA FarKeeps ==
    ASSUME IInv, Fails \/ GoesDown
    PROVE  IInv'
<1> USE Numbers, KindsOfChannel
<1>1. TypeOK /\ WireOrder /\ LatestOrder /\ HandlingOrder /\ CallsOrder /\ AnswersOrder
      /\ LostCall /\ 1 <= now /\ newest <= now /\ shown \in {0, newest}
      /\ pending \in BOOLEAN /\ lost \in BOOLEAN
    BY DEF IInv
<1>2. UNCHANGED <<channel, now, wire, latest, handling, pending, answers, shown, newest>>
    BY DEF Fails, GoesDown, bridge, service, picture
<1>3. calls' = calls \/ calls' = <<>>
    BY DEF Fails, GoesDown, service
<1>4. lost' \in BOOLEAN
    BY <1>1 DEF Fails, GoesDown
<1>5. far' \in {"up", "failing", "down"}
    BY DEF Fails, GoesDown
<1>6. Depth' = Depth
    BY <1>2 DEF Depth
<1>7. ASSUME channel \in Polled
      PROVE  /\ Len(calls') + Len(answers) <= 1
             /\ pending = (lost' \/ calls' # <<>> \/ answers # <<>>)
             /\ lost' => calls' = <<>> /\ answers = <<>>
  <2>1. /\ Len(calls) + Len(answers) <= 1 /\ (lost => calls = <<>> /\ answers = <<>>)
        /\ pending = (lost \/ calls # <<>> \/ answers # <<>>)
        /\ calls \in Seq(0 .. MaxChanges) /\ answers \in Seq(0 .. MaxChanges)
      BY <1>1, <1>7 DEF TypeOK, LostCall
  <2>2. calls # <<>> => answers = <<>>
      BY <2>1
  <2>3. CASE Fails
      BY <2>1, <2>3 DEF Fails, service
  <2>4. CASE GoesDown
    <3>1. calls' = <<>> /\ lost' = (lost \/ \E i \in DOMAIN calls : calls[i] \in {0, now})
        BY <2>4 DEF GoesDown
    <3>2. calls # <<>> => 1 \in DOMAIN calls
        BY <2>1
    <3>3. \A i \in DOMAIN calls : calls[i] = 0
      <4> SUFFICES ASSUME NEW i \in DOMAIN calls PROVE calls[i] = 0
          OBVIOUS
      <4>1. calls[i] \in 0 .. MaxChanges
          BY <2>1, ElementOf
      <4>2. 0 <= calls[i] /\ calls[i] <= 0
          BY <1>1, <1>7 DEF CallsOrder, Between
      <4> QED BY <1>1, <4>1, <4>2
    <3>4. calls = <<>> => ~ \E i \in DOMAIN calls : calls[i] \in {0, now}
        OBVIOUS
    <3>5. (\E i \in DOMAIN calls : calls[i] \in {0, now}) <=> calls # <<>>
        BY <3>2, <3>3, <3>4
    <3>6. lost' <=> lost \/ calls # <<>>
        BY <3>1, <3>5
    <3>7. Len(calls') + Len(answers) <= 1
        BY <2>1, <3>1
    <3>8. pending = (lost' \/ calls' # <<>> \/ answers # <<>>)
        BY <2>1, <3>1, <3>6
    <3> QED BY <2>1, <2>2, <3>1, <3>6, <3>7, <3>8
  <2> QED BY <2>3, <2>4
<1>8. TypeOK'
  <2>1. calls' \in Seq(0 .. MaxChanges)
    <3>1. calls \in Seq(0 .. MaxChanges)
        BY <1>1 DEF TypeOK
    <3>2. calls' = <<>> => calls' \in Seq(0 .. MaxChanges)
        OBVIOUS
    <3> QED BY <1>3, <3>1, <3>2
  <2> QED BY <1>1, <1>2, <1>5, <1>6, <1>7, <2>1 DEF TypeOK
<1>9. WireOrder' /\ LatestOrder' /\ AnswersOrder' /\ LostCall'
    BY <1>1, <1>2, <1>7 DEF WireOrder, LatestOrder, AnswersOrder, LostCall
<1>10. HandlingOrder' /\ CallsOrder'
  <2>1. CASE calls' = calls
      BY <1>1, <1>2, <2>1 DEF HandlingOrder, CallsOrder
  <2>2. CASE calls' = <<>>
    <3>1. Rising(calls') /\ Precedes(calls', wire)
          /\ \A low, high \in Nat : Between(calls', low, high)
        BY <2>2 DEF Rising, Precedes, Between
    <3> QED BY <1>1, <1>2, <2>2, <3>1 DEF HandlingOrder, CallsOrder
  <2> QED BY <1>3, <2>1, <2>2
<1> QED BY <1>1, <1>2, <1>4, <1>8, <1>9, <1>10 DEF IInv

\* The teleop manager takes over the oldest toggle that it was called with.
LEMMA TakeOverKeeps ==
    ASSUME IInv, Serve, channel \in Toggle
    PROVE  IInv'
<1> USE Numbers, KindsOfChannel
<1>1. TypeOK /\ WireOrder /\ LatestOrder /\ HandlingOrder /\ CallsOrder /\ AnswersOrder
      /\ 1 <= now /\ newest <= now /\ pending \in BOOLEAN /\ lost \in BOOLEAN
    BY DEF IInv
<1>2. /\ calls # <<>> /\ calls' = Tail(calls) /\ Show(Head(calls))
      /\ UNCHANGED <<channel, far, now, wire, latest, handling, pending, answers, lost>>
    BY DEF Serve, bridge
<1>3. /\ wire \in Seq(1 .. MaxChanges) /\ Len(wire) <= Depth
      /\ calls \in Seq(0 .. MaxChanges)
    BY <1>1 DEF TypeOK
<1>4. /\ Rising(calls) /\ Precedes(calls, wire) /\ latest = 0
      /\ Between(calls, newest, now) /\ Between(calls, 1, now)
      /\ handling # None => Between(calls, 0, handling)
    BY <1>1 DEF CallsOrder, LatestOrder, HandlingOrder
<1>5. /\ Head(calls) \in 0 .. MaxChanges /\ Head(calls) = calls[1] /\ 1 \in DOMAIN calls
      /\ calls' \in Seq(0 .. MaxChanges)
      /\ \A i \in DOMAIN calls' : i + 1 \in DOMAIN calls /\ calls'[i] = calls[i + 1]
    BY <1>2, <1>3, TailOf
<1>6. /\ \A low, high \in Nat : Between(calls, low, high) =>
            low <= Head(calls) /\ Head(calls) <= high /\ Between(calls', low, high)
      /\ Rising(calls')
      /\ \A low, high \in Nat : Between(calls, low, high) => Between(calls', Head(calls), high)
    BY <1>1, <1>2, <1>3, <1>4, TailOrder
<1>7. newest <= Head(calls) /\ 1 <= Head(calls) /\ Head(calls) <= now
    BY <1>1, <1>4, <1>6
<1>8. shown' = Head(calls) /\ newest' = Head(calls) /\ Head(calls) \in Nat
    BY <1>1, <1>2, <1>5, <1>7, ShowEffect
<1>9. TypeOK'
  <2>1. Depth' = Depth
      BY <1>2 DEF Depth
  <2>2. {now, latest, shown, newest}' \subseteq 0 .. MaxChanges
      BY <1>1, <1>2, <1>5, <1>8 DEF TypeOK
  <2> QED BY <1>1, <1>2, <1>5, <2>1, <2>2 DEF TypeOK
<1>10. WireOrder'
  <2>1. Between(wire, Head(calls), now)
      BY <1>1, <1>4, <1>5 DEF WireOrder, Precedes, Between
  <2> QED BY <1>1, <1>2, <1>8, <2>1 DEF WireOrder
<1>11. HandlingOrder'
  <2>1. handling # None => Head(calls) <= handling /\ Between(calls', 0, handling)
      BY <1>1, <1>4, <1>6
  <2> QED BY <1>1, <1>2, <1>8, <2>1 DEF HandlingOrder
<1>12. CallsOrder'
  <2>1. Precedes(calls', wire)
      BY <1>4, <1>5 DEF Precedes
  <2>2. Between(calls', Head(calls), now) /\ Between(calls', 1, now)
      BY <1>1, <1>4, <1>6
  <2> QED BY <1>2, <1>6, <1>8, <2>1, <2>2 DEF CallsOrder
<1>13. LatestOrder' /\ AnswersOrder' /\ LostCall'
    BY <1>1, <1>2, <1>4 DEF LatestOrder, AnswersOrder, LostCall
<1>14. (1 <= now /\ newest <= now /\ shown \in {0, newest})'
    BY <1>1, <1>2, <1>7, <1>8
<1> QED BY <1>1, <1>2, <1>9, <1>10, <1>11, <1>12, <1>13, <1>14 DEF IInv

\* A refused toggle leaves the queue of calls and nothing else.
LEMMA RefuseKeeps ==
    ASSUME IInv, Refuse
    PROVE  IInv'
<1> USE Numbers, KindsOfChannel
<1>1. TypeOK /\ WireOrder /\ LatestOrder /\ HandlingOrder /\ CallsOrder /\ AnswersOrder
      /\ 1 <= now /\ newest <= now /\ shown \in {0, newest}
      /\ pending \in BOOLEAN /\ lost \in BOOLEAN
    BY DEF IInv
<1>2. /\ channel \in Toggle /\ calls # <<>> /\ calls' = Tail(calls) /\ lost' \in BOOLEAN
      /\ UNCHANGED <<channel, far, now, wire, latest, handling, pending, answers, shown, newest>>
    BY <1>1 DEF Refuse, bridge, picture
<1>3. calls \in Seq(0 .. MaxChanges)
    BY <1>1 DEF TypeOK
<1>4. /\ Rising(calls) /\ Precedes(calls, wire)
      /\ Between(calls, newest, now) /\ Between(calls, 1, now)
      /\ handling # None => Between(calls, 0, handling)
    BY <1>1, <1>2 DEF CallsOrder, HandlingOrder
<1>5. /\ calls' \in Seq(0 .. MaxChanges)
      /\ \A i \in DOMAIN calls' : i + 1 \in DOMAIN calls /\ calls'[i] = calls[i + 1]
    BY <1>2, <1>3, TailOf
<1>6. /\ Rising(calls')
      /\ \A low, high \in Nat : Between(calls, low, high) => Between(calls', low, high)
    BY <1>1, <1>2, <1>3, <1>4, TailOrder
<1>7. Precedes(calls', wire)
    BY <1>4, <1>5 DEF Precedes
<1>8. TypeOK'
  <2>1. Depth' = Depth
      BY <1>2 DEF Depth
  <2> QED BY <1>1, <1>2, <1>5, <2>1 DEF TypeOK
<1>9. HandlingOrder'
  <2>1. handling # None => Between(calls', 0, handling)
      BY <1>1, <1>4, <1>6
  <2> QED BY <1>1, <1>2, <2>1 DEF HandlingOrder
<1>10. CallsOrder'
    BY <1>1, <1>2, <1>4, <1>6, <1>7 DEF CallsOrder
<1>11. WireOrder' /\ LatestOrder' /\ AnswersOrder' /\ LostCall'
    BY <1>1, <1>2 DEF WireOrder, LatestOrder, AnswersOrder, LostCall
<1> QED BY <1>1, <1>2, <1>8, <1>9, <1>10, <1>11 DEF IInv

\* What a polling bridge has under way is one call or one answer.
LEMMA OneUnderWay ==
    ASSUME IInv, channel \in Polled
    PROVE  /\ calls \in Seq(0 .. MaxChanges) /\ answers \in Seq(0 .. MaxChanges)
           /\ wire = <<>> /\ handling = None
           /\ calls # <<>> => /\ answers = <<>> /\ Len(calls) = 1
                              /\ Tail(calls) = <<>> /\ ~lost
           /\ answers # <<>> => /\ calls = <<>> /\ Len(answers) = 1
                                /\ Tail(answers) = <<>> /\ ~lost
           /\ pending <=> lost \/ calls # <<>> \/ answers # <<>>
<1>1. /\ calls \in Seq(0 .. MaxChanges) /\ answers \in Seq(0 .. MaxChanges)
      /\ Len(calls) + Len(answers) <= 1
      /\ pending = (lost \/ calls # <<>> \/ answers # <<>>)
    BY DEF IInv, TypeOK
<1>2. wire = <<>> /\ handling = None
    BY KindsOfChannel DEF IInv, WireOrder, HandlingOrder
<1>3. lost => calls = <<>> /\ answers = <<>>
    BY DEF IInv, LostCall
<1>4. Len(calls) \in Nat /\ Len(answers) \in Nat
    BY <1>1
<1>5. calls # <<>> => answers = <<>> /\ Len(calls) = 1 /\ Tail(calls) = <<>>
    BY <1>1, <1>4, OnlyElement
<1>6. answers # <<>> => calls = <<>> /\ Len(answers) = 1 /\ Tail(answers) = <<>>
    BY <1>1, <1>4, OnlyElement
<1> QED BY <1>1, <1>2, <1>3, <1>5, <1>6

\* A service answers the one call.
LEMMA AnswerKeeps ==
    ASSUME IInv, Serve, channel \notin Toggle
    PROVE  IInv'
<1> USE Numbers, KindsOfChannel
<1>1. TypeOK /\ WireOrder /\ LatestOrder /\ HandlingOrder /\ CallsOrder /\ AnswersOrder
      /\ 1 <= now /\ newest <= now /\ shown \in {0, newest}
      /\ pending \in BOOLEAN /\ lost \in BOOLEAN
    BY DEF IInv
<1>2. /\ calls # <<>> /\ calls' = Tail(calls)
      /\ answers' = Append(answers, IF far = "up" THEN now ELSE 0)
      /\ UNCHANGED <<channel, far, now, wire, latest, handling, pending, shown, newest, lost>>
    BY DEF Serve, bridge, picture
<1>3. channel \in Polled
    BY <1>1, <1>2 DEF CallsOrder
<1>4. wire = <<>> /\ handling = None /\ answers = <<>> /\ calls' = <<>> /\ ~lost /\ pending
    BY <1>2, <1>3, OneUnderWay
<1>5. PICK v \in {0, now} : answers' = <<v>>
    BY <1>2, <1>4
<1>6. v \in 0 .. MaxChanges
    BY <1>1
<1>7. /\ answers' \in Seq(0 .. MaxChanges) /\ answers' # <<>> /\ Len(answers') = 1
      /\ \A i \in DOMAIN answers' : answers'[i] = v
    BY <1>5, <1>6
<1>8. TypeOK'
  <2>1. Depth' = Depth
      BY <1>2 DEF Depth
  <2>2. calls' \in Seq(0 .. MaxChanges) /\ Len(calls') + Len(answers') <= 1
      BY <1>4, <1>7
  <2>3. (pending = (lost \/ calls # <<>> \/ answers # <<>>))'
      BY <1>1, <1>2, <1>4, <1>7
  <2> QED BY <1>1, <1>2, <1>3, <1>7, <2>1, <2>2, <2>3 DEF TypeOK
<1>9. WireOrder' /\ LatestOrder' /\ HandlingOrder' /\ LostCall'
    BY <1>1, <1>2, <1>4 DEF WireOrder, LatestOrder, HandlingOrder, LostCall
<1>10. CallsOrder'
    BY <1>2, <1>3, <1>4 DEF CallsOrder, Between
<1>11. AnswersOrder'
  <2>1. latest <= now
      BY <1>1 DEF LatestOrder
  <2> QED BY <1>1, <1>2, <1>3, <1>7, <2>1 DEF AnswersOrder
<1>12. (1 <= now /\ newest <= now /\ shown \in {0, newest} /\ pending \in BOOLEAN
        /\ lost \in BOOLEAN)'
    BY <1>1, <1>2
<1> QED BY <1>8, <1>9, <1>10, <1>11, <1>12 DEF IInv

-----------------------------------------------------------------------------
(* The bridges.                                                            *)

LEMMA TopicKeeps ==
    ASSUME IInv, TopicCallback
    PROVE  IInv'
<1> USE Numbers, KindsOfChannel
<1>1. TypeOK /\ WireOrder /\ HandlingOrder /\ CallsOrder /\ AnswersOrder /\ LostCall
      /\ 1 <= now /\ newest <= now /\ shown \in {0, newest}
      /\ pending \in BOOLEAN /\ lost \in BOOLEAN
    BY DEF IInv
<1>2. /\ wire # <<>> /\ channel \in Latched \cup Streamed
      /\ latest' = Head(wire) /\ wire' = Tail(wire)
      /\ UNCHANGED <<channel, far, now, handling, pending, calls, answers, shown, newest, lost>>
    BY DEF TopicCallback, service, picture
<1>3. /\ Head(wire) \in 1 .. MaxChanges /\ newest <= Head(wire) /\ Head(wire) <= now
      /\ Tail(wire) \in Seq(1 .. MaxChanges) /\ Len(Tail(wire)) <= Depth
      /\ Rising(Tail(wire)) /\ Between(Tail(wire), Head(wire), now)
      /\ Between(Tail(wire), newest, now) /\ channel \notin Polled
    BY <1>2, TakenFromWire
<1>4. handling = None /\ answers = <<>> /\ channel \notin Toggle
    BY <1>1, <1>2, <1>3 DEF HandlingOrder, AnswersOrder
<1>5. TypeOK'
  <2>1. Depth' = Depth
      BY <1>2 DEF Depth
  <2>2. {now, latest, shown, newest}' \subseteq 0 .. MaxChanges
      BY <1>1, <1>2, <1>3 DEF TypeOK
  <2> QED BY <1>1, <1>2, <1>3, <2>1, <2>2 DEF TypeOK
<1>6. WireOrder' /\ LatestOrder' /\ HandlingOrder' /\ LostCall'
    BY <1>1, <1>2, <1>3, <1>4 DEF WireOrder, LatestOrder, HandlingOrder, LostCall
<1>7. CallsOrder' /\ AnswersOrder'
    BY <1>1, <1>2, <1>4 DEF CallsOrder, AnswersOrder
<1> QED BY <1>1, <1>2, <1>5, <1>6, <1>7 DEF IInv

\* A bridge of a topic shows the value of its attribute, or the message that it
\* takes from the wire.
LEMMA ShowsKeeps ==
    ASSUME IInv, NEW v \in 0 .. MaxChanges, v = 0 \/ newest <= v, latest \in {0, v}, v <= now,
           channel \notin Toggle \cup Polled,
           Show(v),
           UNCHANGED <<channel, far, now, bridge, service, lost>>,
           \/ UNCHANGED wire
           \/ wire # <<>> /\ wire' = Tail(wire),
           wire' \in Seq(1 .. MaxChanges), Between(wire', v, now)
    PROVE  IInv'
<1> USE Numbers
<1>1. TypeOK /\ WireOrder /\ LatestOrder /\ HandlingOrder /\ CallsOrder /\ AnswersOrder
      /\ LostCall /\ 1 <= now /\ newest <= now /\ shown \in {0, newest}
      /\ pending \in BOOLEAN /\ lost \in BOOLEAN
    BY DEF IInv
<1>2. UNCHANGED <<channel, far, now, latest, handling, pending, calls, answers, lost>>
    BY DEF bridge, service
<1>3. v \in Nat
    BY <1>1
<1>4. /\ shown' = v /\ newest' = (IF v = 0 THEN newest ELSE v)
      /\ newest <= newest' /\ shown' \in {0, newest'} /\ newest' \in Nat
    BY <1>1, <1>3, ShowEffect
<1>5. handling = None /\ answers = <<>> /\ calls = <<>>
    BY <1>1 DEF HandlingOrder, AnswersOrder, CallsOrder
<1>6. newest' <= now /\ newest' \in 0 .. MaxChanges
    BY <1>1, <1>3, <1>4
<1>7. Len(wire') <= Depth /\ Rising(wire') /\ Between(wire', newest, now) /\ Between(wire', latest, now)
    BY <1>1, TakenFromWire DEF WireOrder, TypeOK
<1>8. TypeOK'
  <2>1. Depth' = Depth
      BY <1>2 DEF Depth
  <2>2. {now, latest, shown, newest}' \subseteq 0 .. MaxChanges
      BY <1>1, <1>2, <1>4, <1>6 DEF TypeOK
  <2> QED BY <1>1, <1>2, <1>7, <2>1, <2>2 DEF TypeOK
<1>9. WireOrder' /\ HandlingOrder' /\ LostCall'
    BY <1>1, <1>2, <1>4, <1>5, <1>7 DEF WireOrder, HandlingOrder, LostCall
<1>10. LatestOrder'
    BY <1>1, <1>2, <1>3, <1>4 DEF LatestOrder
<1>11. CallsOrder' /\ AnswersOrder'
    BY <1>1, <1>2, <1>5 DEF CallsOrder, AnswersOrder
<1> QED BY <1>1, <1>2, <1>4, <1>6, <1>8, <1>9, <1>10, <1>11 DEF IInv

LEMMA PublishKeeps ==
    ASSUME IInv, PublishTimer
    PROVE  IInv'
<1> USE Numbers, KindsOfChannel
<1>1. TypeOK /\ WireOrder /\ LatestOrder /\ AnswersOrder /\ newest <= now /\ 1 <= now
    BY DEF IInv
<1>2. /\ channel \notin Toggle \cup Polled /\ Show(latest) /\ UNCHANGED wire
      /\ UNCHANGED <<channel, far, now, bridge, service, lost>>
    BY DEF PublishTimer
<1>3. latest \in 0 .. MaxChanges /\ (latest = 0 \/ newest <= latest) /\ latest <= now
    BY <1>1 DEF TypeOK, LatestOrder
<1>4. wire' \in Seq(1 .. MaxChanges) /\ Between(wire', latest, now)
    BY <1>1, <1>2 DEF TypeOK, WireOrder
<1> QED BY <1>2, <1>3, <1>4, ShowsKeeps

\* The mirrors, and the joint bridges with a complete message.
LEMMA MirrorKeeps ==
    ASSUME IInv, channel \in Joints \cup Mirrored,
           wire # <<>>, wire' = Tail(wire), Show(Head(wire)),
           UNCHANGED <<channel, far, now, bridge, service, lost>>
    PROVE  IInv'
<1>1. channel \notin Toggle \cup Polled /\ latest = 0
    BY KindsOfChannel DEF IInv, LatestOrder
<1>2. /\ Head(wire) \in 1 .. MaxChanges /\ newest <= Head(wire) /\ Head(wire) <= now
      /\ wire' \in Seq(1 .. MaxChanges) /\ Between(wire', Head(wire), now)
    BY TakenFromWire
<1>3. Head(wire) \in 0 .. MaxChanges
    BY <1>2, BridgeAssumption
<1> QED BY <1>1, <1>2, <1>3, ShowsKeeps

\* The joint bridges with a message that lacks a reading.
LEMMA DropKeeps ==
    ASSUME IInv, channel \in Joints, wire # <<>>, wire' = Tail(wire),
           UNCHANGED <<channel, far, now, bridge, service, picture, lost>>
    PROVE  IInv'
<1>1. TypeOK /\ WireOrder /\ LatestOrder /\ HandlingOrder /\ CallsOrder /\ AnswersOrder
      /\ LostCall /\ 1 <= now /\ newest <= now /\ shown \in {0, newest}
      /\ pending \in BOOLEAN /\ lost \in BOOLEAN
    BY DEF IInv
<1>2. /\ UNCHANGED <<channel, far, now, latest, handling, pending, calls, answers>>
      /\ UNCHANGED <<shown, newest, lost>>
    BY DEF bridge, service, picture
<1>3. channel \notin Toggle \cup Polled
    BY KindsOfChannel
<1>4. /\ wire' \in Seq(1 .. MaxChanges) /\ Len(wire') <= Depth
      /\ Rising(wire') /\ Between(wire', newest, now) /\ Between(wire', latest, now)
    BY TakenFromWire
<1>5. handling = None /\ calls = <<>> /\ answers = <<>>
    BY <1>1, <1>3 DEF HandlingOrder, AnswersOrder, CallsOrder
<1>6. TypeOK'
  <2>1. Depth' = Depth
      BY <1>2 DEF Depth
  <2> QED BY <1>1, <1>2, <1>4, <2>1 DEF TypeOK
<1>7. WireOrder' /\ HandlingOrder' /\ LostCall' /\ LatestOrder'
    BY <1>1, <1>2, <1>3, <1>4, <1>5 DEF WireOrder, HandlingOrder, LostCall, LatestOrder
<1>8. CallsOrder' /\ AnswersOrder'
    BY <1>1, <1>2, <1>3, <1>5 DEF CallsOrder, AnswersOrder
<1> QED BY <1>1, <1>2, <1>6, <1>7, <1>8 DEF IInv

\* A polling bridge calls when it has nothing under way and has lost nothing.
LEMMA RefreshKeeps ==
    ASSUME IInv, channel \in Polled, Refresh,
           UNCHANGED <<channel, far, now, wire, latest, handling, answers, lost>>,
           newest' \in 0 .. MaxChanges, newest <= newest', newest' <= now, newest' \in {newest, latest},
           shown' \in {0, newest'}
    PROVE  IInv'
<1> USE Numbers, KindsOfChannel
<1>1. TypeOK /\ WireOrder /\ LatestOrder /\ HandlingOrder /\ CallsOrder /\ AnswersOrder
      /\ LostCall /\ 1 <= now /\ pending \in BOOLEAN /\ lost \in BOOLEAN
    BY DEF IInv
<1>2. /\ calls \in Seq(0 .. MaxChanges) /\ answers \in Seq(0 .. MaxChanges)
      /\ wire = <<>> /\ handling = None
      /\ calls # <<>> => Len(calls) = 1 /\ answers = <<>>
      /\ answers # <<>> => Len(answers) = 1 /\ calls = <<>>
      /\ pending <=> lost \/ calls # <<>> \/ answers # <<>>
    BY OneUnderWay
<1>3. /\ calls' \in Seq(0 .. MaxChanges) /\ Len(calls') + Len(answers) <= 1
      /\ pending' \in BOOLEAN
      /\ pending' = (lost \/ calls' # <<>> \/ answers # <<>>)
      /\ Between(calls', 0, 0)
      /\ lost => calls' = <<>> /\ answers = <<>>
  <2>1. CASE MayCall
    <3>1. calls = <<>> /\ answers = <<>> /\ ~lost /\ pending' /\ pending' \in BOOLEAN
        BY <1>1, <1>2, <2>1 DEF MayCall, Refresh
    <3>2. calls' = <<0>>
        BY <2>1, <3>1 DEF Refresh
    <3>3. 0 \in 0 .. MaxChanges
        BY <1>1
    <3>4. calls' \in Seq(0 .. MaxChanges) /\ Len(calls') = 1 /\ calls' # <<>>
        BY <3>2, <3>3
    <3>5. Between(calls', 0, 0)
        BY <3>2 DEF Between
    <3>6. Len(calls') + Len(answers) <= 1
        BY <3>1, <3>4
    <3> QED BY <3>1, <3>4, <3>5, <3>6
  <2>2. CASE ~MayCall
    <3>1. calls' = calls /\ pending' = pending
        BY <1>1, <2>2 DEF Refresh
    <3> QED BY <1>1, <3>1 DEF TypeOK, CallsOrder, LostCall
  <2> QED BY <2>1, <2>2
<1>4. TypeOK'
  <2>1. Depth' = Depth
      BY DEF Depth
  <2>2. {now, latest, shown, newest}' \subseteq 0 .. MaxChanges
      BY <1>1 DEF TypeOK
  <2> QED BY <1>1, <1>2, <1>3, <2>1, <2>2 DEF TypeOK
<1>5. WireOrder' /\ HandlingOrder' /\ LostCall'
    BY <1>1, <1>2, <1>3 DEF WireOrder, HandlingOrder, LostCall, Between, Rising
<1>6. LatestOrder'
    BY <1>1 DEF LatestOrder
<1>7. CallsOrder'
    BY <1>1, <1>3 DEF CallsOrder
<1>8. AnswersOrder'
  <2> SUFFICES ASSUME NEW i \in DOMAIN answers
               PROVE  answers[i] = 0 \/ (newest' <= answers[i] /\ latest <= answers[i]
                                         /\ answers[i] <= now)
      BY DEF AnswersOrder
  <2> QED BY <1>1 DEF AnswersOrder
<1> QED BY <1>1, <1>3, <1>4, <1>5, <1>6, <1>7, <1>8 DEF IInv

LEMMA PollKeeps ==
    ASSUME IInv, PollControllers \/ InfoTick
    PROVE  IInv'
<1> USE Numbers, KindsOfChannel
<1>1. TypeOK /\ LatestOrder /\ 1 <= now /\ newest <= now /\ shown \in {0, newest}
    BY DEF IInv
<1>2. /\ channel \in Polled /\ Refresh
      /\ UNCHANGED <<channel, far, now, wire, latest, handling, answers, lost>>
    BY DEF PollControllers, InfoTick
<1>3. newest \in 0 .. MaxChanges /\ latest \in 0 .. MaxChanges
    BY <1>1 DEF TypeOK
<1>4. CASE PollControllers
  <2>1. newest' = newest /\ shown' = shown
      BY <1>4 DEF PollControllers, picture
  <2> QED BY <1>1, <1>2, <1>3, <2>1, RefreshKeeps
<1>5. CASE InfoTick
  <2>1. latest = 0 \/ (newest <= latest /\ latest <= now)
      BY <1>1 DEF LatestOrder
  <2>2. /\ shown' = latest /\ newest' = (IF latest = 0 THEN newest ELSE latest)
        /\ newest <= newest' /\ shown' \in {0, newest'}
      BY <1>1, <1>5, <2>1, ShowEffect DEF InfoTick
  <2> QED BY <1>1, <1>2, <1>3, <2>1, <2>2, RefreshKeeps
<1> QED BY <1>4, <1>5

\* An answer is handled: shown at once, or kept for the next tick.
LEMMA AnsweredKeeps ==
    ASSUME IInv, OnResponse \/ InfoDone
    PROVE  IInv'
<1> USE Numbers, KindsOfChannel
<1>1. TypeOK /\ WireOrder /\ LatestOrder /\ HandlingOrder /\ CallsOrder /\ AnswersOrder
      /\ 1 <= now /\ newest <= now /\ shown \in {0, newest}
      /\ pending \in BOOLEAN /\ lost \in BOOLEAN
    BY DEF IInv
<1>2. /\ channel \in Polled /\ answers # <<>> /\ answers' = Tail(answers) /\ pending' = FALSE
      /\ UNCHANGED <<channel, far, now, wire, handling, calls, lost>>
    BY DEF OnResponse, InfoDone, picture
<1>3. /\ answers \in Seq(0 .. MaxChanges) /\ wire = <<>> /\ handling = None
      /\ calls = <<>> /\ answers' = <<>> /\ ~lost
    BY <1>2, OneUnderWay
<1>4. Head(answers) \in 0 .. MaxChanges /\ Head(answers) = answers[1] /\ 1 \in DOMAIN answers
    BY <1>2, <1>3, TailOf
<1>5. Head(answers) = 0 \/ (newest <= Head(answers) /\ latest <= Head(answers)
                           /\ Head(answers) <= now)
    BY <1>1, <1>4 DEF AnswersOrder
<1>6. /\ shown' \in {0, newest'} /\ newest' <= now /\ newest' \in 0 .. MaxChanges
      /\ latest' = 0 \/ (newest' <= latest' /\ latest' <= now)
      /\ channel \notin Info => latest' = 0
      /\ latest' \in 0 .. MaxChanges
  <2>1. CASE OnResponse
    <3>1. Show(Head(answers)) /\ channel \notin Info /\ channel \notin Latched \cup Streamed
          /\ latest' = latest
        BY <2>1 DEF OnResponse
    <3>2. latest = 0
        BY <1>1, <3>1 DEF LatestOrder
    <3>3. Head(answers) \in Nat
        BY <1>1, <1>4
    <3>4. /\ shown' = Head(answers)
          /\ newest' = (IF Head(answers) = 0 THEN newest ELSE Head(answers))
          /\ newest <= newest' /\ shown' \in {0, newest'}
        BY <1>1, <1>5, <3>1, <3>3, ShowEffect
    <3>5. newest' <= now /\ newest' \in 0 .. MaxChanges
        BY <1>1, <1>4, <1>5, <3>4 DEF TypeOK
    <3> QED BY <1>1, <3>1, <3>2, <3>4, <3>5
  <2>2. CASE InfoDone
    <3>1. latest' = Head(answers) /\ channel \in Info /\ shown' = shown /\ newest' = newest
        BY <2>2 DEF InfoDone, picture
    <3> QED BY <1>1, <1>4, <1>5, <3>1 DEF TypeOK
  <2> QED BY <1>2, <2>1, <2>2
<1>7. TypeOK'
  <2>1. Depth' = Depth
      BY <1>2 DEF Depth
  <2>2. {now, latest, shown, newest}' \subseteq 0 .. MaxChanges
      BY <1>1, <1>2, <1>6 DEF TypeOK
  <2>3. calls' = <<>> /\ answers' = <<>>
      BY <1>2, <1>3
  <2>4. Len(calls') + Len(answers') <= 1 /\ answers' \in Seq(0 .. MaxChanges)
      BY <2>3
  <2> QED BY <1>1, <1>2, <1>3, <2>1, <2>2, <2>3, <2>4 DEF TypeOK
<1>8. WireOrder' /\ HandlingOrder'
    BY <1>1, <1>2, <1>3 DEF WireOrder, HandlingOrder, Between, Rising
<1>9. LatestOrder' /\ LostCall'
    BY <1>2, <1>3, <1>6 DEF LatestOrder, LostCall
<1>10. CallsOrder' /\ AnswersOrder'
    BY <1>2, <1>3 DEF CallsOrder, AnswersOrder, Between
<1> QED BY <1>1, <1>2, <1>6, <1>7, <1>8, <1>9, <1>10 DEF IInv

\* A call that raises leaves nothing under way and what was known as it was.
LEMMA RaisesKeeps ==
    ASSUME IInv, CallRaises
    PROVE  IInv'
<1> USE Numbers, KindsOfChannel
<1>1. TypeOK /\ WireOrder /\ LatestOrder /\ HandlingOrder /\ CallsOrder /\ AnswersOrder
      /\ 1 <= now /\ newest <= now /\ shown \in {0, newest}
      /\ pending \in BOOLEAN /\ lost \in BOOLEAN
    BY DEF IInv
<1>2. /\ channel \in Polled /\ calls # <<>> /\ calls' = Tail(calls) /\ pending' = FALSE
      /\ UNCHANGED <<channel, far, now, wire, latest, handling, answers, shown, newest, lost>>
    BY DEF CallRaises, picture
<1>3. calls' = <<>> /\ answers = <<>> /\ wire = <<>> /\ handling = None /\ ~lost
    BY <1>2, OneUnderWay
<1>4. TypeOK'
  <2>1. Depth' = Depth
      BY <1>2 DEF Depth
  <2>4. calls' = <<>> /\ answers' = <<>>
      BY <1>2, <1>3
  <2>2. calls' \in Seq(0 .. MaxChanges) /\ Len(calls') + Len(answers') <= 1
      BY <2>4
  <2>3. ~pending' /\ pending' = (lost' \/ calls' # <<>> \/ answers' # <<>>)
      BY <1>2, <1>3
  <2> QED BY <1>1, <1>2, <1>3, <2>1, <2>2, <2>3 DEF TypeOK
<1>5. WireOrder' /\ HandlingOrder' /\ LatestOrder' /\ LostCall'
    BY <1>1, <1>2, <1>3 DEF WireOrder, HandlingOrder, LatestOrder, LostCall, Between
<1>6. CallsOrder' /\ AnswersOrder'
    BY <1>2, <1>3 DEF CallsOrder, AnswersOrder, Between
<1>7. pending' \in BOOLEAN
    BY <1>2, Zenon
<1> QED BY <1>1, <1>2, <1>4, <1>5, <1>6, <1>7 DEF IInv

\* The toggle goes from the wire to on_enable and from there to the service.
LEMMA EnableKeeps ==
    ASSUME IInv, OnEnable
    PROVE  IInv'
<1> USE Numbers, KindsOfChannel
<1>1. TypeOK /\ WireOrder /\ LatestOrder /\ HandlingOrder /\ CallsOrder /\ AnswersOrder
      /\ LostCall /\ 1 <= now /\ newest <= now /\ shown \in {0, newest}
      /\ pending \in BOOLEAN /\ lost \in BOOLEAN
    BY DEF IInv
<1>2. /\ channel \in Toggle /\ wire # <<>> /\ handling' = Head(wire) /\ wire' = Tail(wire)
      /\ UNCHANGED <<channel, far, now, latest, pending, calls, answers, shown, newest, lost>>
    BY DEF OnEnable, service, picture
<1>3. /\ Head(wire) \in 1 .. MaxChanges /\ newest <= Head(wire) /\ Head(wire) <= now
      /\ Tail(wire) \in Seq(1 .. MaxChanges) /\ Len(Tail(wire)) <= Depth
      /\ Rising(Tail(wire)) /\ Between(Tail(wire), Head(wire), now)
      /\ Between(Tail(wire), newest, now) /\ Between(Tail(wire), latest, now)
      /\ Precedes(calls, Tail(wire)) /\ Between(calls, 0, Head(wire))
    BY <1>2, TakenFromWire
<1>4. TypeOK'
  <2>1. Depth' = Depth
      BY <1>2 DEF Depth
  <2> QED BY <1>1, <1>2, <1>3, <2>1 DEF TypeOK
<1>5. WireOrder' /\ HandlingOrder' /\ LatestOrder' /\ LostCall'
    BY <1>1, <1>2, <1>3 DEF WireOrder, HandlingOrder, LatestOrder, LostCall
<1>6. CallsOrder' /\ AnswersOrder'
    BY <1>1, <1>2, <1>3 DEF CallsOrder, AnswersOrder
<1> QED BY <1>1, <1>2, <1>4, <1>5, <1>6 DEF IInv

LEMMA CallServiceKeeps ==
    ASSUME IInv, CallService
    PROVE  IInv'
<1> USE Numbers, KindsOfChannel
<1>1. TypeOK /\ WireOrder /\ LatestOrder /\ HandlingOrder /\ CallsOrder /\ AnswersOrder
      /\ LostCall /\ 1 <= now /\ newest <= now /\ shown \in {0, newest}
      /\ pending \in BOOLEAN /\ lost \in BOOLEAN
    BY DEF IInv
<1>2. /\ handling # None /\ calls' = Append(calls, handling) /\ handling' = None
      /\ UNCHANGED <<channel, far, now, wire, latest, pending, answers, shown, newest, lost>>
    BY DEF CallService, picture
<1>3. /\ channel \in Toggle /\ newest <= handling /\ handling <= now /\ 1 <= handling
      /\ Between(wire, handling, now) /\ Between(calls, 0, handling)
    BY <1>1, <1>2 DEF HandlingOrder
<1>4. /\ Rising(calls) /\ Precedes(calls, wire)
      /\ Between(calls, newest, now) /\ Between(calls, 1, now)
    BY <1>1, <1>3 DEF CallsOrder
<1>5. calls \in Seq(0 .. MaxChanges) /\ handling \in 0 .. MaxChanges
    BY <1>1, <1>2 DEF TypeOK
<1>6. /\ calls' \in Seq(0 .. MaxChanges)
      /\ DOMAIN calls' = 1 .. Len(calls) + 1
      /\ \A i \in DOMAIN calls : calls'[i] = calls[i]
      /\ calls'[Len(calls) + 1] = handling
    BY <1>2, <1>5, AppendOf
<1>7. /\ \A low, high \in Nat : Between(calls, low, high) /\ low <= handling /\ handling <= high =>
             Between(calls', low, high)
      /\ \A low \in Nat : Rising(calls) /\ Between(calls, low, handling) => Rising(calls')
    BY <1>1, <1>2, <1>5, AppendOrder
<1>8. Precedes(calls', wire)
  <2>1. \A i \in DOMAIN calls' : i \in DOMAIN calls \/ i = Len(calls) + 1
      BY <1>5, <1>6
  <2> QED BY <1>3, <1>4, <1>6, <2>1 DEF Precedes, Between
<1>9. TypeOK'
  <2>1. Depth' = Depth
      BY <1>2 DEF Depth
  <2> QED BY <1>1, <1>2, <1>3, <1>6, <2>1 DEF TypeOK
<1>10. WireOrder' /\ HandlingOrder' /\ LatestOrder' /\ LostCall' /\ AnswersOrder'
    BY <1>1, <1>2, <1>3 DEF WireOrder, HandlingOrder, LatestOrder, LostCall, AnswersOrder
<1>11. CallsOrder'
    BY <1>1, <1>2, <1>3, <1>4, <1>7, <1>8 DEF CallsOrder
<1> QED BY <1>1, <1>2, <1>9, <1>10, <1>11 DEF IInv

LEMMA TimeoutKeeps ==
    ASSUME IInv, ServiceTimeout
    PROVE  IInv'
<1> USE KindsOfChannel
<1>1. TypeOK /\ WireOrder /\ LatestOrder /\ HandlingOrder /\ CallsOrder /\ AnswersOrder
      /\ 1 <= now /\ newest <= now /\ shown \in {0, newest}
      /\ pending \in BOOLEAN /\ lost \in BOOLEAN
    BY DEF IInv
<1>2. /\ handling # None /\ handling' = None /\ lost' \in BOOLEAN
      /\ UNCHANGED <<channel, far, now, wire, latest, pending, calls, answers, shown, newest>>
    BY <1>1 DEF ServiceTimeout, service, picture
<1>3. channel \in Toggle
    BY <1>1, <1>2 DEF HandlingOrder
<1>4. TypeOK'
  <2>1. Depth' = Depth
      BY <1>2 DEF Depth
  <2> QED BY <1>1, <1>2, <1>3, <2>1 DEF TypeOK
<1>5. WireOrder' /\ HandlingOrder' /\ LatestOrder' /\ LostCall' /\ AnswersOrder' /\ CallsOrder'
    BY <1>1, <1>2, <1>3
    DEF WireOrder, HandlingOrder, LatestOrder, LostCall, AnswersOrder, CallsOrder
<1> QED BY <1>1, <1>2, <1>4, <1>5 DEF IInv

\* A bridge started anew has nothing under way; the latched topics greet it with
\* the present value.
LEMMA RespawnKeeps ==
    ASSUME IInv, Respawn
    PROVE  IInv'
<1> USE Numbers, KindsOfChannel
<1>1. TypeOK /\ HandlingOrder /\ 1 <= now /\ newest <= now /\ shown \in {0, newest}
    BY DEF IInv
<1>2. /\ channel \notin Toggle /\ latest' = 0 /\ pending' = FALSE /\ calls' = <<>>
      /\ answers' = <<>> /\ wire' = LatchedSample /\ lost' = FALSE
      /\ UNCHANGED <<channel, far, now, handling, shown, newest>>
    BY DEF Respawn, picture
<1>3. handling = None
    BY <1>1, <1>2 DEF HandlingOrder
<1>4. wire' = <<>> \/ (wire' = <<now>> /\ channel \notin Polled)
    BY <1>2 DEF LatchedSample
<1>5. now \in 1 .. MaxChanges
    BY <1>1
<1>6. wire' \in Seq(1 .. MaxChanges) /\ Len(wire') <= Depth
  <2>1. CASE wire' = <<>>
      BY <2>1, DepthPositive
  <2>2. CASE wire' = <<now>>
      BY <1>5, <2>2, DepthPositive
  <2> QED BY <1>4, <2>1, <2>2
<1>7. Rising(wire') /\ Between(wire', newest, now) /\ Between(wire', 0, now)
    BY <1>1, <1>4 DEF Rising, Between
<1>8. TypeOK'
  <2>1. Depth' = Depth
      BY <1>2 DEF Depth
  <2>2. {now, latest, shown, newest}' \subseteq 0 .. MaxChanges
      BY <1>1, <1>2 DEF TypeOK
  <2>3. calls' \in Seq(0 .. MaxChanges) /\ answers' \in Seq(0 .. MaxChanges)
        /\ Len(calls') + Len(answers') <= 1
      BY <1>2
  <2>4. ~pending' /\ pending' = (lost' \/ calls' # <<>> \/ answers' # <<>>)
      BY <1>2
  <2> QED BY <1>1, <1>2, <1>3, <1>6, <2>1, <2>2, <2>3, <2>4 DEF TypeOK
<1>9. WireOrder' /\ HandlingOrder' /\ LatestOrder' /\ LostCall'
    BY <1>2, <1>3, <1>4, <1>7 DEF WireOrder, HandlingOrder, LatestOrder, LostCall
<1>10. AnswersOrder' /\ CallsOrder'
    BY <1>2 DEF AnswersOrder, CallsOrder, Between
<1>11. pending' \in BOOLEAN /\ lost' \in BOOLEAN
    BY <1>2, Zenon
<1> QED BY <1>1, <1>2, <1>8, <1>9, <1>10, <1>11 DEF IInv

-----------------------------------------------------------------------------
(* Every step of the bridges.                                              *)

LEMMA NextIInv == IInv /\ [Next]_vars => IInv'
<1> SUFFICES ASSUME IInv, [Next]_vars PROVE IInv'
    OBVIOUS
<1>1. CASE Changes
    BY <1>1, ChangesKeeps
<1>2. CASE Streams \/ ComesUp
    BY <1>2, SendsKeeps
<1>3. CASE Fails \/ GoesDown
    BY <1>3, FarKeeps
<1>4. CASE Serve
    BY <1>4, TakeOverKeeps, AnswerKeeps
<1>5. CASE TopicCallback
    BY <1>5, TopicKeeps
<1>6. CASE PublishTimer
    BY <1>6, PublishKeeps
<1>7. CASE IoStatesCallback \/ ToolDataCallback \/ CommandCallback
  <2>1. channel \in Mirrored
      BY <1>7 DEF IoStatesCallback, ToolDataCallback, CommandCallback, Mirror, Mirrored
  <2> QED BY <1>7, <2>1, MirrorKeeps
      DEF IoStatesCallback, ToolDataCallback, CommandCallback, Mirror
<1>8. ASSUME NEW msg \in JointMsgs, JointCallback(msg)
      PROVE  IInv'
  <2>1. CASE Converted(msg) = Dropped
      BY <1>8, <2>1, DropKeeps DEF JointCallback
  <2>2. CASE Converted(msg) # Dropped
      BY <1>8, <2>2, MirrorKeeps DEF JointCallback
  <2> QED BY <2>1, <2>2
<1>9. CASE PollControllers \/ InfoTick
    BY <1>9, PollKeeps
<1>10. CASE OnResponse \/ InfoDone
    BY <1>10, AnsweredKeeps
<1>11. CASE OnEnable
    BY <1>11, EnableKeeps
<1>12. CASE CallService
    BY <1>12, CallServiceKeeps
<1>13. CASE ServiceTimeout
    BY <1>13, TimeoutKeeps
<1>14. CASE Respawn
    BY <1>14, RespawnKeeps
<1>16. CASE Refuse
    BY <1>16, RefuseKeeps
<1>17. CASE CallRaises
    BY <1>17, RaisesKeeps
<1>15. CASE UNCHANGED vars
  <2>1. /\ UNCHANGED <<channel, far, now, wire, latest, handling, pending, calls, answers>>
        /\ UNCHANGED <<shown, newest, lost>>
      BY <1>15 DEF vars, bridge, service, picture
  <2>2. TypeOK'
      BY <2>1 DEF IInv, TypeOK, Depth
  <2>3. WireOrder' /\ LatestOrder' /\ HandlingOrder' /\ CallsOrder' /\ AnswersOrder' /\ LostCall'
      BY <2>1 DEF IInv, WireOrder, LatestOrder, HandlingOrder, CallsOrder, AnswersOrder, LostCall
  <2> QED BY <2>1, <2>2, <2>3 DEF IInv
<1> QED BY <1>1, <1>2, <1>3, <1>4, <1>5, <1>6, <1>7, <1>8, <1>9, <1>10, <1>11,
           <1>12, <1>13, <1>14, <1>15, <1>16, <1>17 DEF Next, Bridge

LEMMA Invariance == Spec => []IInv
BY InitIInv, NextIInv, PTL DEF Spec

\* Every variable has its type, a queue keeps its depth, and the flag of a
\* polling bridge is set exactly while a call is under way or was lost.
THEOREM TypeCorrect == Spec => []TypeOK
<1>1. IInv => TypeOK
    BY DEF IInv
<1> QED BY <1>1, Invariance, PTL

-----------------------------------------------------------------------------
(* The refinement of UnityPicture.                                         *)

LEMMA ShowMaps ==
    ASSUME TypeOK, NEW v \in Nat, v = 0 \/ newest <= v, v <= now, Show(v), now' = now
    PROVE  Picture!Forgets \/ Picture!Shows
<1>1. now \in Nat /\ newest \in Nat
    BY Numbers
<1>2. shown' = v /\ newest' = IF v = 0 THEN newest ELSE v
    BY ShowEffect
<1> QED BY <1>1, <1>2 DEF Picture!Forgets, Picture!Shows

\* What the bridges show is what UnityPicture allows.
LEMMA StepMaps ==
    ASSUME IInv, Next
    PROVE  \/ Picture!Changes \/ Picture!Forgets \/ Picture!Shows
           \/ UNCHANGED <<now, shown, newest>>
<1> USE Numbers, KindsOfChannel
<1>1. TypeOK /\ WireOrder /\ LatestOrder /\ CallsOrder /\ AnswersOrder /\ newest <= now
    BY DEF IInv
<1>2. CASE Changes
    BY <1>2 DEF Changes, picture, Picture!Changes
<1>3. CASE ComesUp
    BY <1>3 DEF ComesUp, picture, Picture!Forgets
<1>4. CASE Serve
  <2>1. CASE channel \notin Toggle
      BY <1>4, <2>1 DEF Serve, picture
  <2>2. CASE channel \in Toggle
    <3>1. calls # <<>> /\ Show(Head(calls)) /\ now' = now
        BY <1>4, <2>2 DEF Serve
    <3>2. calls \in Seq(0 .. MaxChanges) /\ Between(calls, newest, now)
        BY <1>1, <2>2 DEF TypeOK, CallsOrder
    <3>3. newest <= Head(calls) /\ Head(calls) <= now
        BY <1>1, <3>1, <3>2, TailOrder
    <3>4. Head(calls) \in Nat
        BY <1>1, <3>1, <3>2, TailOf
    <3> QED BY <1>1, <3>1, <3>3, <3>4, ShowMaps
  <2> QED BY <2>1, <2>2
<1>5. CASE PublishTimer \/ InfoTick
  <2>1. Show(latest) /\ now' = now
      BY <1>5 DEF PublishTimer, InfoTick
  <2>2. (latest = 0 \/ newest <= latest) /\ latest <= now
      BY <1>1 DEF LatestOrder
  <2> QED BY <1>1, <2>1, <2>2, ShowMaps
<1>6. ASSUME wire # <<>>, Show(Head(wire)), now' = now
      PROVE  Picture!Forgets \/ Picture!Shows
  <2>1. Head(wire) \in 1 .. MaxChanges /\ newest <= Head(wire) /\ Head(wire) <= now
      BY <1>6, TakenFromWire
  <2>2. Head(wire) \in Nat
      BY <1>1, <2>1
  <2> QED BY <1>1, <1>6, <2>1, <2>2, ShowMaps
<1>7. CASE IoStatesCallback \/ ToolDataCallback \/ CommandCallback
    BY <1>6, <1>7 DEF IoStatesCallback, ToolDataCallback, CommandCallback, Mirror
<1>8. ASSUME NEW msg \in JointMsgs, JointCallback(msg)
      PROVE  Picture!Forgets \/ Picture!Shows \/ UNCHANGED <<now, shown, newest>>
    BY <1>6, <1>8 DEF JointCallback, picture
<1>9. CASE OnResponse
  <2>1. /\ channel \in Polled /\ answers # <<>> /\ answers \in Seq(0 .. MaxChanges)
        /\ Show(Head(answers)) /\ now' = now
      BY <1>1, <1>9 DEF OnResponse, TypeOK
  <2>2. Head(answers) \in 0 .. MaxChanges /\ Head(answers) = answers[1] /\ 1 \in DOMAIN answers
      BY <2>1, TailOf
  <2>3. Head(answers) = 0 \/ (newest <= Head(answers) /\ Head(answers) <= now)
      BY <1>1, <2>2 DEF AnswersOrder
  <2>4. Head(answers) \in Nat /\ Head(answers) <= now
      BY <1>1, <2>2, <2>3
  <2> QED BY <1>1, <2>1, <2>3, <2>4, ShowMaps
<1>10. CASE \/ Streams \/ Fails \/ GoesDown \/ TopicCallback \/ PollControllers
            \/ InfoDone \/ OnEnable \/ CallService \/ ServiceTimeout \/ Respawn
            \/ Refuse \/ CallRaises
    BY <1>10
    DEF Streams, Fails, GoesDown, TopicCallback, PollControllers, InfoDone, OnEnable,
        CallService, ServiceTimeout, Respawn, Refuse, CallRaises, picture
<1> QED BY <1>2, <1>3, <1>4, <1>5, <1>7, <1>8, <1>9, <1>10 DEF Next, Bridge

\* Late answers, overflowing queues, toggles that are dropped or delayed and
\* processes started anew never make the other side show something untrue, or
\* something older than before: the bridges implement UnityPicture.
THEOREM PictureTheorem == Spec => KeepsPicture
<1>1. Init => Picture!Init
    BY DEF Init, Picture!Init
<1>2. IInv /\ [Next]_vars =>
        [Picture!Changes \/ Picture!Forgets \/ Picture!Shows]_(Picture!vars)
  <2>1. CASE UNCHANGED vars
      BY <2>1 DEF vars, picture, Picture!vars
  <2> QED BY <2>1, StepMaps DEF Picture!vars
<1> QED BY <1>1, <1>2, Invariance, PTL DEF Spec, KeepsPicture, Picture!Spec
=============================================================================
