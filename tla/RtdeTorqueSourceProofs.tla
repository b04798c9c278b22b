----------------------- MODULE RtdeTorqueSourceProofs -----------------------
(***************************************************************************)
(* No way through connect, get_torques and the end of the node leaves a    *)
(* socket behind, whatever the robot does and whatever bytes it sends; and *)
(* what is published is the freshest sample, for every size of the packets *)
(* and every cut of the stream.                                            *)
(*                                                                         *)
(* What the buffer and the wire hold together is a stream: whole packets,  *)
(* one behind the other, and perhaps the beginning of one more.  The       *)
(* parser's loop ends behind the last whole packet of every stream.        *)
(***************************************************************************)
EXTENDS RtdeTorqueSource, LeastNumber

Handshake == {"version", "outputs", "start"}

\* Where connect() is decides what _sock and _connected are: nothing is open
\* when it dials, and nothing counts as connected before the start is granted.
IInv ==
    /\ pc \in {"idle", "dial", "ended"} \cup Handshake
    /\ sock \in BOOLEAN
    /\ connected \in BOOLEAN
    /\ pc \in {"idle", "ended"} => sock = connected
    /\ pc = "dial" => ~sock /\ ~connected
    /\ pc \in Handshake => sock /\ ~connected

LEMMA ConnectKeeps == ASSUME IInv, Connect PROVE IInv'
<1> USE DEF IInv, Handshake
<1>1. CASE EnsureConnected
    BY <1>1 DEF EnsureConnected, IsConnected
<1>2. CASE Dial
    BY <1>2 DEF Dial
<1>3. CASE DialFails \/ Refused \/ HandshakeFails
    BY <1>3 DEF DialFails, Refused, HandshakeFails, Disconnect
<1>4. CASE SkipPacket
    BY <1>4 DEF SkipPacket, client
<1>5. CASE NegotiateVersion \/ SetupOutputs
    BY <1>5 DEF NegotiateVersion, SetupOutputs, Granted
<1>6. CASE Start
    BY <1>6 DEF Start
<1> QED BY <1>1, <1>2, <1>3, <1>4, <1>5, <1>6 DEF Connect

LEMMA RobotKeeps == ASSUME IInv, Robot PROVE IInv'
<1>1. UNCHANGED client
    BY DEF Robot, RobotTurns, PeerEnds, Answer, SendText, SendSample, Sends
<1> QED BY <1>1 DEF IInv, client

LEMMA NextIInv == IInv /\ [Next]_vars => IInv'
<1> SUFFICES ASSUME IInv, [Next]_vars PROVE IInv'
    OBVIOUS
<1>1. CASE \E k \in 0 .. Len(wire) : PublishTorques(k)
    BY <1>1 DEF PublishTorques, IInv, Handshake
<1>2. CASE ReadFails \/ DestroyNode
    BY <1>2 DEF ReadFails, DestroyNode, Disconnect, IInv, Handshake
<1>3. CASE UNCHANGED vars
    BY <1>3 DEF vars, client, IInv
<1> QED BY <1>1, <1>2, <1>3, ConnectKeeps, RobotKeeps DEF Next

\* Outside connect() the socket is open exactly while is_connected(), for every
\* packet size, every cut of the stream and every failure of the robot.
THEOREM SocketTheorem == Spec => []NoSocketLeak
<1>1. Init => IInv
    BY DEF Init, IInv, Handshake
<1>2. IInv => NoSocketLeak
    BY DEF IInv, NoSocketLeak
<1> QED BY <1>1, <1>2, NextIInv, PTL DEF Spec

-----------------------------------------------------------------------------
(* Streams of bytes.                                                       *)

Follows(c, d) ==
    IF c.at = Size(c.kind) THEN d.at = 1
    ELSE d.kind = c.kind /\ d.n = c.n /\ d.at = c.at + 1

IsStream(s) ==
    /\ s # <<>> => s[1].at = 1
    /\ \A i \in 1 .. Len(s) - 1 : Follows(s[i], s[i + 1])
    /\ \A i \in 1 .. Len(s) : s[i].kind = "data" => s[i].n \in Samples

\* The stream ends with a whole packet.
AtBoundary(s) == s # <<>> => s[Len(s)].at = Size(s[Len(s)].kind)

\* How many of its bytes belong to whole packets.
WholePackets(s) ==
    IF AtBoundary(s) THEN Len(s) ELSE Len(s) - s[Len(s)].at

LEMMA Sizes ==
    /\ HeaderSize \in Nat \ {0} /\ DataSize \in Nat \ {0} /\ OtherSize \in Nat \ {0}
    /\ \A kind : Size(kind) \in Nat \ {0} /\ HeaderSize <= Size(kind)
    /\ Size("data") = DataSize
BY SizeAssumption DEF Size

LEMMA ByteFields ==
    ASSUME NEW c \in Bytes
    PROVE  /\ c.n \in Nat /\ c.at \in Nat
           /\ 1 <= c.at /\ c.at <= Size(c.kind)
<1>1. PICK kind \in {"version", "outputs", "start", "text", "data"},
           n \in Samples \cup {0, 1} : c \in {Packet(kind, n)[i] : i \in 1 .. Size(kind)}
    BY DEF Bytes
<1>2. PICK i \in 1 .. Size(kind) : c = Packet(kind, n)[i]
    BY <1>1
<1>3. c = [kind |-> kind, n |-> n, at |-> i]
    BY <1>2 DEF Packet
<1>4. n \in Nat
    BY SizeAssumption DEF Samples
<1>5. Size(kind) \in Nat
    BY Sizes
<1> QED BY <1>3, <1>4, <1>5

LEMMA PacketBytes ==
    ASSUME NEW kind \in {"version", "outputs", "start", "text", "data"},
           NEW n \in Samples \cup {0, 1}
    PROVE  /\ Packet(kind, n) \in Seq(Bytes) /\ Len(Packet(kind, n)) = Size(kind)
           /\ \A i \in 1 .. Size(kind) :
                 Packet(kind, n)[i] = [kind |-> kind, n |-> n, at |-> i]
<1>1. Size(kind) \in Nat
    BY Sizes
<1>2. \A i \in 1 .. Size(kind) : Packet(kind, n)[i] \in Bytes
  <2> DEFINE BytesOf(k, m) == {Packet(k, m)[i] : i \in 1 .. Size(k)}
  <2>1. Bytes = UNION {BytesOf(k, m) : k \in {"version", "outputs", "start", "text", "data"},
                                       m \in Samples \cup {0, 1}}
      BY DEF Bytes
  <2>2. \A i \in 1 .. Size(kind) : Packet(kind, n)[i] \in BytesOf(kind, n)
      OBVIOUS
  <2> HIDE DEF BytesOf
  <2>3. BytesOf(kind, n) \subseteq Bytes
      BY <2>1
  <2> QED BY <2>2, <2>3
<1>3. Packet(kind, n) \in [1 .. Size(kind) -> Bytes]
    BY <1>2 DEF Packet
<1>4. Packet(kind, n) \in Seq(Bytes) /\ Len(Packet(kind, n)) = Size(kind)
    BY <1>1, <1>3
<1> QED BY <1>4 DEF Packet

LEMMA ElementOf ==
    ASSUME NEW S, NEW s \in Seq(S), NEW i \in 1 .. Len(s)
    PROVE  s[i] \in S
OBVIOUS

\* What the concatenation of two sequences of bytes looks like.
IsConcat(u, s, t) ==
    /\ u \in Seq(Bytes) /\ Len(u) = Len(s) + Len(t)
    /\ \A i \in 1 .. Len(s) : u[i] = s[i]
    /\ \A i \in 1 .. Len(t) : u[Len(s) + i] = t[i]

LEMMA ConcatOf ==
    ASSUME NEW s \in Seq(Bytes), NEW t \in Seq(Bytes)
    PROVE  IsConcat(s \o t, s, t)
BY DEF IsConcat

LEMMA SubSeqOf ==
    ASSUME NEW S, NEW s \in Seq(S), NEW k \in 0 .. Len(s), NEW m \in 0 .. Len(s), k <= m
    PROVE  /\ SubSeq(s, k + 1, m) \in Seq(S) /\ Len(SubSeq(s, k + 1, m)) = m - k
           /\ \A i \in 1 .. m - k : SubSeq(s, k + 1, m)[i] = s[k + i]
OBVIOUS

LEMMA SameSequence ==
    ASSUME NEW S, NEW s \in Seq(S), NEW t \in Seq(S), Len(s) = Len(t),
           \A i \in 1 .. Len(s) : s[i] = t[i]
    PROVE  s = t
OBVIOUS

\* Within a packet the bytes count up.
LEMMA PacketRun ==
    ASSUME NEW s \in Seq(Bytes), IsStream(s),
           NEW i \in 1 .. Len(s), NEW j \in Nat,
           s[i].at + j <= Size(s[i].kind), i + j <= Len(s)
    PROVE  s[i + j].kind = s[i].kind /\ s[i + j].n = s[i].n /\ s[i + j].at = s[i].at + j
<1> DEFINE Run(k) == /\ s[i + k].kind = s[i].kind /\ s[i + k].n = s[i].n
                     /\ s[i + k].at = s[i].at + k
           Breaks == {k \in 0 .. j : ~Run(k)}
<1>1. Len(s) \in Nat /\ s[i].at \in Nat /\ Size(s[i].kind) \in Nat
    BY ElementOf, ByteFields, Sizes
<1>2. Run(0)
    BY <1>1
<1>3. ASSUME NEW k \in 0 .. j - 1, Run(k)
      PROVE  Run(k + 1)
  <2>1. i + k \in 1 .. Len(s) - 1 /\ (i + k) + 1 = i + (k + 1)
      BY <1>1
  <2>2. Follows(s[i + k], s[i + (k + 1)])
      BY <2>1 DEF IsStream
  <2>3. s[i + k].at # Size(s[i + k].kind)
      BY <1>1, <1>3
  <2>4. /\ s[i + (k + 1)].kind = s[i + k].kind /\ s[i + (k + 1)].n = s[i + k].n
        /\ s[i + (k + 1)].at = s[i + k].at + 1
      BY <2>2, <2>3 DEF Follows
  <2>5. /\ s[i + k].kind = s[i].kind /\ s[i + k].n = s[i].n /\ s[i + k].at = s[i].at + k
      BY <1>3
  <2>6. (s[i].at + k) + 1 = s[i].at + (k + 1)
      BY <1>1
  <2> QED BY <2>4, <2>5, <2>6
<1> HIDE DEF Run
<1>4. Breaks = {}
  <2> SUFFICES ASSUME Breaks # {} PROVE FALSE
      OBVIOUS
  <2>0. Breaks \in SUBSET Nat
      BY <1>1
  <2>1. PICK k \in Breaks : \A m \in Breaks : k <= m
      BY <2>0, LeastElement
  <2>2. k \in 1 .. j
      BY <1>2, <2>1
  <2>3. k - 1 \in 0 .. j - 1 /\ ~(k <= k - 1) /\ (k - 1) + 1 = k
      BY <2>2
  <2>4. Run(k - 1)
      BY <2>1, <2>3
  <2> QED BY <1>3, <2>1, <2>3, <2>4
<1>5. Run(j)
    BY <1>4
<1> QED BY <1>5 DEF Run

\* The first byte of the packet that a byte belongs to is in the stream.
LEMMA PacketHead ==
    ASSUME NEW s \in Seq(Bytes), IsStream(s), NEW i \in 1 .. Len(s)
    PROVE  /\ s[i].at <= i
           /\ LET h == (i + 1) - s[i].at
              IN  h \in 1 .. i /\ s[h].at = 1 /\ s[h].kind = s[i].kind /\ s[h].n = s[i].n
<1> DEFINE Head1(k) ==
              /\ s[k].at <= k
              /\ LET h == (k + 1) - s[k].at
                 IN  h \in 1 .. k /\ s[h].at = 1 /\ s[h].kind = s[k].kind /\ s[h].n = s[k].n
           Breaks == {k \in 1 .. Len(s) : ~Head1(k)}
<1>1. Len(s) \in Nat /\ \A k \in 1 .. Len(s) : s[k].at \in Nat /\ 1 <= s[k].at
    BY ElementOf, ByteFields
<1>2. \A k \in 1 .. Len(s) : s[k].at = 1 => Head1(k)
    BY <1>1
<1>3. s[1].at = 1
    BY <1>1 DEF IsStream
<1>4. ASSUME NEW k \in 1 .. Len(s) - 1, Head1(k)
      PROVE  Head1(k + 1)
  <2>1. Follows(s[k], s[k + 1]) /\ k + 1 \in 1 .. Len(s)
      BY <1>1 DEF IsStream
  <2>2. CASE s[k + 1].at = 1
      BY <1>2, <2>1, <2>2
  <2>3. CASE s[k + 1].at # 1
    <3>1. s[k + 1].kind = s[k].kind /\ s[k + 1].n = s[k].n /\ s[k + 1].at = s[k].at + 1
        BY <2>1, <2>3 DEF Follows
    <3>2. ((k + 1) + 1) - s[k + 1].at = (k + 1) - s[k].at
        BY <1>1, <3>1
    <3>3. (k + 1) - s[k].at \in 1 .. k + 1
        BY <1>1, <1>4
    <3> QED BY <1>1, <1>4, <3>1, <3>2, <3>3
  <2> QED BY <2>2, <2>3
<1> HIDE DEF Head1
<1>5. Breaks = {}
  <2> SUFFICES ASSUME Breaks # {} PROVE FALSE
      OBVIOUS
  <2>0. Breaks \in SUBSET Nat
      BY <1>1
  <2>1. PICK k \in Breaks : \A m \in Breaks : k <= m
      BY <2>0, LeastElement
  <2>2. k \in 1 .. Len(s) /\ k # 1
      BY <1>2, <1>3, <2>1
  <2>3. k - 1 \in 1 .. Len(s) - 1 /\ ~(k <= k - 1) /\ (k - 1) + 1 = k
      BY <1>1, <2>2
  <2>4. Head1(k - 1)
      BY <1>1, <2>1, <2>3
  <2> QED BY <1>4, <2>1, <2>3, <2>4
<1>6. Head1(i)
    BY <1>5
<1> QED BY <1>6 DEF Head1

\* Behind the whole packets lies nothing, or the beginning of one packet.
LEMMA BehindWholePackets ==
    ASSUME NEW s \in Seq(Bytes), IsStream(s)
    PROVE  /\ WholePackets(s) \in 0 .. Len(s)
           /\ WholePackets(s) < Len(s) =>
                 /\ s[WholePackets(s) + 1].at = 1
                 /\ Len(s) - WholePackets(s) < Size(s[WholePackets(s) + 1].kind)
           /\ WholePackets(s) > 0 =>
                 s[WholePackets(s)].at = Size(s[WholePackets(s)].kind)
           /\ \A i \in 1 .. Len(s) : i > WholePackets(s) => s[i].at < Size(s[i].kind)
<1>1. Len(s) \in Nat
    OBVIOUS
<1>2. \A i \in 1 .. Len(s) :
          s[i].at \in Nat /\ 1 <= s[i].at /\ Size(s[i].kind) \in Nat /\ s[i].at <= Size(s[i].kind)
    BY ElementOf, ByteFields, Sizes
<1>3. CASE AtBoundary(s)
  <2>1. WholePackets(s) = Len(s)
      BY <1>3 DEF WholePackets
  <2> QED BY <1>1, <1>3, <2>1 DEF AtBoundary
<1>4. CASE ~AtBoundary(s)
  <2>1. Len(s) \in 1 .. Len(s) /\ s[Len(s)].at # Size(s[Len(s)].kind)
      BY <1>1, <1>4 DEF AtBoundary
  <2>2. PICK a \in Nat : a = s[Len(s)].at
      BY <1>2, <2>1
  <2>3. 1 <= a /\ a <= Len(s) /\ a < Size(s[Len(s)].kind)
    <3>1. a <= Len(s)
        BY <2>1, <2>2, PacketHead
    <3>2. Size(s[Len(s)].kind) \in Nat /\ a <= Size(s[Len(s)].kind) /\ 1 <= a
        BY <1>2, <2>1, <2>2
    <3> QED BY <2>1, <2>2, <3>1, <3>2
  <2>4. PICK p \in 0 .. Len(s) - 1 : p = Len(s) - a
      BY <1>1, <2>3
  <2>5. (Len(s) + 1) - a = p + 1 /\ p + 1 \in 1 .. Len(s) /\ Len(s) - p = a
      BY <1>1, <2>3, <2>4
  <2>6. s[p + 1].at = 1 /\ s[p + 1].kind = s[Len(s)].kind
      BY <2>1, <2>2, <2>5, PacketHead
  <2>7. Len(s) - p < Size(s[p + 1].kind)
      BY <2>3, <2>5, <2>6
  <2>8. p > 0 => s[p].at = Size(s[p].kind)
    <3> SUFFICES ASSUME p > 0, s[p].at # Size(s[p].kind) PROVE FALSE
        OBVIOUS
    <3>1. p \in 1 .. Len(s) - 1 /\ p \in 1 .. Len(s)
        BY <1>1
    <3>2. Follows(s[p], s[p + 1]) /\ s[p].at \in Nat /\ 1 <= s[p].at
        BY <1>2, <3>1 DEF IsStream
    <3>3. s[p + 1].at = s[p].at + 1
        BY <3>2 DEF Follows
    <3> QED BY <2>6, <3>2, <3>3
  <2>9. ASSUME NEW i \in 1 .. Len(s), i > p
        PROVE  s[i].at < Size(s[i].kind)
    <3>1. PICK j \in Nat : j = i - (p + 1)
        BY <1>1, <2>9
    <3>2. (p + 1) + j = i /\ j + 1 <= Len(s) - p
        BY <1>1, <3>1
    <3>3. Size(s[p + 1].kind) \in Nat
        BY Sizes
    <3>4. 1 + j < Size(s[p + 1].kind)
        BY <1>1, <2>7, <3>2, <3>3
    <3>5. s[p + 1].at + j <= Size(s[p + 1].kind) /\ (p + 1) + j <= Len(s)
        BY <2>6, <3>2, <3>3, <3>4
    <3>6. s[(p + 1) + j].kind = s[p + 1].kind /\ s[(p + 1) + j].at = s[p + 1].at + j
        BY <2>5, <3>5, PacketRun
    <3> QED BY <2>6, <3>2, <3>4, <3>6
  <2>10. WholePackets(s) = p
      BY <1>4, <2>2, <2>4 DEF WholePackets
  <2> QED BY <1>1, <2>4, <2>6, <2>7, <2>8, <2>9, <2>10
<1> QED BY <1>3, <1>4

\* The parser's loop ends, and it ends behind the last whole packet, with every
\* beginning of a packet left in the buffer (get_torques 141-147).
THEOREM ParsesWholePackets ==
    ASSUME NEW s \in Seq(Bytes), IsStream(s)
    PROVE  Parsed(s) = WholePackets(s)
<1> DEFINE n == Len(s)
           Stops(i) == \/ n - i < HeaderSize
                       \/ SizeAt(s, i) < HeaderSize
                       \/ n - i < SizeAt(s, i)
           Loop(f) == [i \in 0 .. n |-> IF Stops(i) THEN i ELSE f[i + SizeAt(s, i)]]
           End(i) == IF i = n \/ s[i + 1].at # 1 THEN i ELSE WholePackets(s)
           Ends == [i \in 0 .. n |-> End(i)]
<1>1. n \in Nat
    OBVIOUS
<1>2. \A i \in 1 .. n :
          s[i].at \in Nat /\ 1 <= s[i].at /\ Size(s[i].kind) \in Nat /\ s[i].at <= Size(s[i].kind)
    BY ElementOf, ByteFields, Sizes
<1>3. \A i \in 0 .. n - 1 : SizeAt(s, i) \in Nat
    BY <1>1, <1>2 DEF SizeAt
<1>4. ASSUME NEW i \in 0 .. n, ~Stops(i)
      PROVE  /\ i + SizeAt(s, i) \in 0 .. n /\ i + SizeAt(s, i) > i
             /\ End(i) = End(i + SizeAt(s, i))
  <2>1. i \in 0 .. n - 1 /\ i + 1 \in 1 .. n
      BY <1>1, <1>4, Sizes
  <2>2. s[i + 1].at = 1 /\ SizeAt(s, i) = Size(s[i + 1].kind)
      BY <1>4, Sizes DEF SizeAt
  <2> DEFINE z == Size(s[i + 1].kind)
  <2>3. z \in Nat /\ z >= 1 /\ i + z <= n
      BY <1>1, <1>4, <2>2, Sizes
  <2>4. s[i + z].at = z /\ s[i + z].kind = s[i + 1].kind
    <3>1. z - 1 \in Nat /\ (i + 1) + (z - 1) = i + z /\ s[i + 1].at + (z - 1) = z
        BY <2>1, <2>2, <2>3
    <3> HIDE DEF z
    <3>2. Size(s[i + 1].kind) = z
        BY DEF z
    <3> QED BY <1>1, <2>1, <2>3, <3>1, <3>2, PacketRun
  <2>5. i # n
      BY <1>1, <2>1
  <2>6. End(i) = WholePackets(s)
      BY <2>2, <2>5
  <2>7. i + z \in 0 .. n /\ i + z > i
      BY <1>1, <2>1, <2>3
  <2>8. CASE i + z = n
    <3>1. AtBoundary(s)
        BY <2>4, <2>8 DEF AtBoundary
    <3>2. WholePackets(s) = n
        BY <3>1 DEF WholePackets
    <3> QED BY <2>2, <2>6, <2>7, <2>8, <3>2
  <2>9. CASE i + z # n
    <3>1. i + z \in 1 .. n - 1
        BY <1>1, <2>1, <2>3, <2>9
    <3>2. Follows(s[i + z], s[(i + z) + 1])
        BY <3>1 DEF IsStream
    <3>3. s[(i + z) + 1].at = 1
        BY <2>4, <3>2 DEF Follows
    <3> QED BY <2>2, <2>6, <2>7, <2>9, <3>3
  <2> QED BY <2>8, <2>9
<1>5. ASSUME NEW i \in 0 .. n, Stops(i)
      PROVE  End(i) = i
  <2> SUFFICES ASSUME i # n, s[i + 1].at = 1 PROVE WholePackets(s) = i
      OBVIOUS
  <2>1. i \in 0 .. n - 1 /\ i + 1 \in 1 .. n
      BY <1>1
  <2>2. SizeAt(s, i) = Size(s[i + 1].kind)
      BY DEF SizeAt
  <2>3. n - i < Size(s[i + 1].kind)
      BY <1>1, <1>5, <2>1, <2>2, Sizes
  <2>4. PICK j \in Nat : (i + 1) + j = n /\ 1 + j = n - i
    <3>1. n - (i + 1) \in Nat
        BY <1>1, <2>1
    <3>2. (i + 1) + (n - (i + 1)) = n /\ 1 + (n - (i + 1)) = n - i
        BY <1>1, <2>1
    <3> QED BY <3>1, <3>2
  <2>5. Size(s[i + 1].kind) \in Nat /\ (i + 1) + j = n /\ s[i + 1].at + j = n - i
      BY <2>4, Sizes
  <2>6. s[n].kind = s[i + 1].kind /\ s[n].at = n - i
    <3>1. s[i + 1].at + j <= Size(s[i + 1].kind) /\ (i + 1) + j <= n
        BY <1>1, <2>1, <2>3, <2>5
    <3>2. s[(i + 1) + j].kind = s[i + 1].kind /\ s[(i + 1) + j].at = s[i + 1].at + j
        BY <2>1, <3>1, PacketRun
    <3> QED BY <2>5, <3>2
  <2>7. ~AtBoundary(s)
      BY <1>1, <2>1, <2>3, <2>5, <2>6 DEF AtBoundary
  <2>8. WholePackets(s) = n - (n - i)
      BY <2>6, <2>7 DEF WholePackets
  <2> QED BY <1>1, <2>1, <2>8
<1> HIDE DEF Stops, End
<1>6. Ends = Loop(Ends)
  <2>1. ASSUME NEW i \in 0 .. n
        PROVE  Ends[i] = IF Stops(i) THEN i ELSE Ends[i + SizeAt(s, i)]
      BY <1>4, <1>5
  <2> QED BY <2>1
<1>7. ASSUME NEW f, f = Loop(f)
      PROVE  \A i \in 0 .. n : f[i] = End(i)
  <2> DEFINE Breaks == {i \in 0 .. n : f[i] # End(i)}
  <2>1. \A i \in 0 .. n : f[i] = IF Stops(i) THEN i ELSE f[i + SizeAt(s, i)]
      BY <1>7
  <2>2. Breaks \in SUBSET Nat /\ \A i \in Breaks : i <= n
      BY <1>1
  <2>3. ASSUME Breaks # {} PROVE FALSE
    <3>1. Max(Breaks) \in Breaks /\ \A i \in Breaks : i <= Max(Breaks)
        BY <1>1, <2>2, <2>3, BoundedMax
    <3>2. PICK m \in Breaks : \A i \in Breaks : i <= m
        BY <3>1
    <3>3. m \in 0 .. n /\ f[m] # End(m)
        OBVIOUS
    <3>4. CASE Stops(m)
        BY <1>5, <2>1, <3>3, <3>4
    <3>5. CASE ~Stops(m)
      <4>1. /\ m + SizeAt(s, m) \in 0 .. n /\ m + SizeAt(s, m) > m
            /\ End(m) = End(m + SizeAt(s, m))
          BY <1>4, <3>3, <3>5
      <4>2. f[m] = f[m + SizeAt(s, m)]
          BY <2>1, <3>3, <3>5
      <4>3. ~(m + SizeAt(s, m) <= m)
          BY <1>1, <3>3, <4>1
      <4>4. f[m + SizeAt(s, m)] = End(m + SizeAt(s, m))
          BY <3>2, <4>1, <4>3
      <4> QED BY <3>3, <4>1, <4>2, <4>4
    <3> QED BY <3>4, <3>5
  <2> QED BY <2>3
<1> DEFINE stop == CHOOSE f : f = Loop(f)
<1>8. Parsed(s) = stop[0]
    BY DEF Parsed, Stops
<1> HIDE DEF Loop, Ends
<1>9. stop = Loop(stop)
    BY <1>6
<1> HIDE DEF stop
<1>10. Parsed(s) = End(0)
    BY <1>1, <1>7, <1>8, <1>9
<1>11. End(0) = WholePackets(s)
  <2>1. CASE n = 0
      BY <2>1 DEF End, WholePackets, AtBoundary
  <2>2. CASE n # 0
      BY <1>1, <2>2 DEF End, IsStream
  <2> QED BY <2>1, <2>2
<1> QED BY <1>10, <1>11

\* A stream cut anywhere is a stream, and so is what follows a whole packet.
LEMMA PartOfStream ==
    ASSUME NEW s \in Seq(Bytes), IsStream(s),
           NEW k \in 0 .. Len(s), NEW m \in 0 .. Len(s), k <= m,
           k < m => s[k + 1].at = 1
    PROVE  /\ IsStream(SubSeq(s, k + 1, m))
           /\ m = Len(s) /\ AtBoundary(s) => AtBoundary(SubSeq(s, k + 1, m))
<1> DEFINE t == SubSeq(s, k + 1, m)
<1>1. /\ t \in Seq(Bytes) /\ Len(t) = m - k
      /\ \A i \in 1 .. m - k : t[i] = s[k + i]
    BY SubSeqOf
<1>2. Len(s) \in Nat /\ m - k \in Nat
    OBVIOUS
<1> HIDE DEF t
<1>3. t # <<>> => m - k \in 1 .. m - k
  <2>1. t # <<>> => Len(t) # 0
      BY <1>1
  <2> QED BY <1>1, <1>2, <2>1
<1>4. t # <<>> => t[1].at = 1
  <2> SUFFICES ASSUME t # <<>> PROVE t[1].at = 1
      OBVIOUS
  <2>1. 1 \in 1 .. m - k /\ k < m
      BY <1>2, <1>3
  <2> QED BY <1>1, <2>1
<1>5. \A i \in 1 .. Len(t) - 1 : Follows(t[i], t[i + 1])
  <2> SUFFICES ASSUME NEW i \in 1 .. (m - k) - 1 PROVE Follows(t[i], t[i + 1])
      BY <1>1
  <2>1. i \in 1 .. m - k /\ i + 1 \in 1 .. m - k
        /\ k + i \in 1 .. Len(s) - 1 /\ k + (i + 1) = (k + i) + 1
      BY <1>2
  <2>2. t[i] = s[k + i] /\ t[i + 1] = s[(k + i) + 1]
      BY <1>1, <2>1
  <2> QED BY <2>1, <2>2 DEF IsStream
<1>6. \A i \in 1 .. Len(t) : t[i].kind = "data" => t[i].n \in Samples
  <2> SUFFICES ASSUME NEW i \in 1 .. m - k PROVE t[i].kind = "data" => t[i].n \in Samples
      BY <1>1
  <2>1. k + i \in 1 .. Len(s)
      BY <1>2
  <2>2. t[i] = s[k + i]
      BY <1>1
  <2> QED BY <2>1, <2>2 DEF IsStream
<1>7. ASSUME m = Len(s), AtBoundary(s) PROVE AtBoundary(t)
  <2> SUFFICES ASSUME t # <<>> PROVE t[Len(t)].at = Size(t[Len(t)].kind)
      BY DEF AtBoundary
  <2>1. t[Len(t)] = s[k + (m - k)] /\ k + (m - k) = Len(s)
      BY <1>1, <1>2, <1>3, <1>7
  <2>2. s # <<>>
      BY <1>2, <1>3, <1>7
  <2> QED BY <1>7, <2>1, <2>2 DEF AtBoundary
<1>8. IsStream(t)
    BY <1>4, <1>5, <1>6 DEF IsStream
<1> QED BY <1>7, <1>8 DEF t

\* A whole packet behind whole packets.
LEMMA PacketOnStream ==
    ASSUME NEW s \in Seq(Bytes), IsStream(s), AtBoundary(s),
           NEW kind \in {"version", "outputs", "start", "text", "data"},
           NEW n \in Samples \cup {0, 1}, kind = "data" => n \in Samples
    PROVE  IsStream(s \o Packet(kind, n)) /\ AtBoundary(s \o Packet(kind, n))
<1> DEFINE q == Packet(kind, n)
           t == s \o q
           z == Size(kind)
<1>1. /\ q \in Seq(Bytes) /\ Len(q) = z /\ z \in Nat \ {0}
      /\ \A i \in 1 .. z : q[i] = [kind |-> kind, n |-> n, at |-> i]
    BY PacketBytes, Sizes
<1> HIDE DEF q, z
<1>2. /\ t \in Seq(Bytes) /\ Len(t) = Len(s) + z
      /\ \A i \in 1 .. Len(s) : t[i] = s[i]
      /\ \A i \in 1 .. z : t[Len(s) + i] = q[i]
  <2>1. IsConcat(s \o q, s, q)
      BY <1>1, ConcatOf
  <2> QED BY <1>1, <2>1 DEF IsConcat, t
<1>3. Len(s) \in Nat
    OBVIOUS
<1> HIDE DEF t
<1>4. \A i \in 1 .. z : /\ t[Len(s) + i].kind = kind /\ t[Len(s) + i].n = n
                        /\ t[Len(s) + i].at = i
    BY <1>1, <1>2
<1>5. t[1].at = 1
  <2>1. CASE Len(s) = 0
    <3>1. 1 \in 1 .. z /\ Len(s) + 1 = 1
        BY <1>1, <2>1
    <3> QED BY <1>4, <3>1
  <2>2. CASE Len(s) # 0
      BY <1>2, <1>3, <2>2 DEF IsStream
  <2> QED BY <2>1, <2>2
<1>6. ASSUME NEW i \in 1 .. Len(t) - 1
      PROVE  Follows(t[i], t[i + 1])
  <2>1. CASE i < Len(s)
    <3>1. i \in 1 .. Len(s) - 1 /\ i \in 1 .. Len(s) /\ i + 1 \in 1 .. Len(s)
        BY <1>3, <2>1
    <3> QED BY <1>2, <3>1 DEF IsStream
  <2>2. CASE i = Len(s)
    <3>1. i \in 1 .. Len(s) /\ s # <<>> /\ 1 \in 1 .. z
        BY <1>1, <1>3, <2>2
    <3>2. t[i].at = Size(t[i].kind)
        BY <1>2, <2>2, <3>1 DEF AtBoundary
    <3>3. t[i + 1].at = 1
        BY <1>4, <2>2, <3>1
    <3> QED BY <3>2, <3>3 DEF Follows
  <2>3. CASE i > Len(s)
    <3>1. PICK j \in 1 .. z - 1 : i = Len(s) + j
      <4>1. i - Len(s) \in 1 .. z - 1 /\ Len(s) + (i - Len(s)) = i
          BY <1>1, <1>2, <1>3, <2>3
      <4> QED BY <4>1
    <3>2. j \in 1 .. z /\ j + 1 \in 1 .. z /\ i + 1 = Len(s) + (j + 1)
        BY <1>1, <1>3, <3>1
    <3>3. t[i].kind = kind /\ t[i].n = n /\ t[i].at = j
        BY <1>4, <3>1, <3>2
    <3>4. t[i + 1].kind = kind /\ t[i + 1].n = n /\ t[i + 1].at = j + 1
        BY <1>4, <3>2
    <3>5. j # Size(kind)
        BY <1>1, <3>1 DEF z
    <3> QED BY <3>3, <3>4, <3>5 DEF Follows
  <2> QED BY <1>3, <2>1, <2>2, <2>3
<1>7. ASSUME NEW i \in 1 .. Len(t), t[i].kind = "data"
      PROVE  t[i].n \in Samples
  <2>1. CASE i <= Len(s)
      BY <1>2, <1>3, <1>7, <2>1 DEF IsStream
  <2>2. CASE i > Len(s)
    <3>1. i - Len(s) \in 1 .. z /\ Len(s) + (i - Len(s)) = i
        BY <1>1, <1>2, <1>3, <2>2
    <3>2. t[i].kind = kind /\ t[i].n = n
        BY <1>4, <3>1
    <3> QED BY <1>7, <3>2
  <2> QED BY <1>3, <2>1, <2>2
<1>8. t[Len(t)].at = z /\ t[Len(t)].kind = kind
    BY <1>1, <1>2, <1>4
<1>9. IsStream(t)
    BY <1>5, <1>6, <1>7 DEF IsStream
<1>10. AtBoundary(t)
    BY <1>8 DEF AtBoundary, z
<1> QED BY <1>9, <1>10 DEF t, q

\* What is read of the wire and what the parser leaves: the stream from there on.
LEMMA ReadingCuts ==
    ASSUME NEW s \in Seq(Bytes), NEW w \in Seq(Bytes), NEW k \in 0 .. Len(w),
           NEW p \in 0 .. Len(s) + k
    PROVE  LET b == s \o SubSeq(w, 1, k)
           IN  /\ b = SubSeq(s \o w, 1, Len(s) + k)
               /\ SubSeq(b, p + 1, Len(b)) \o SubSeq(w, k + 1, Len(w))
                    = SubSeq(s \o w, p + 1, Len(s \o w))
<1> DEFINE n == Len(s)
           c == SubSeq(w, 1, k)
           d == SubSeq(w, k + 1, Len(w))
           b == s \o c
           t == s \o w
           left == SubSeq(b, p + 1, Len(b))
<1>1. n \in Nat /\ Len(w) \in Nat /\ k <= Len(w) /\ 0 \in 0 .. Len(w) /\ 0 + 1 = 1
      /\ Len(w) \in 0 .. Len(w)
    OBVIOUS
<1>2. c \in Seq(Bytes) /\ Len(c) = k /\ \A i \in 1 .. k : c[i] = w[i]
  <2>1. /\ SubSeq(w, 0 + 1, k) \in Seq(Bytes) /\ Len(SubSeq(w, 0 + 1, k)) = k - 0
        /\ \A i \in 1 .. k - 0 : SubSeq(w, 0 + 1, k)[i] = w[0 + i]
      BY <1>1, SubSeqOf
  <2> QED BY <1>1, <2>1
<1>3. d \in Seq(Bytes) /\ Len(d) = Len(w) - k /\ \A i \in 1 .. Len(w) - k : d[i] = w[k + i]
    BY <1>1, SubSeqOf
<1> HIDE DEF c, d
<1>4. /\ b \in Seq(Bytes) /\ Len(b) = n + k
      /\ \A i \in 1 .. n : b[i] = s[i]
      /\ \A i \in 1 .. k : b[n + i] = w[i]
  <2>1. IsConcat(s \o c, s, c)
      BY <1>2, ConcatOf
  <2> QED BY <1>2, <2>1 DEF IsConcat
<1>5. /\ t \in Seq(Bytes) /\ Len(t) = n + Len(w)
      /\ \A i \in 1 .. n : t[i] = s[i]
      /\ \A i \in 1 .. Len(w) : t[n + i] = w[i]
    BY ConcatOf DEF IsConcat
<1> HIDE DEF b, t
<1>6. \A i \in 1 .. n + k : b[i] = t[i]
  <2> SUFFICES ASSUME NEW i \in 1 .. n + k PROVE b[i] = t[i]
      OBVIOUS
  <2>1. CASE i <= n
      BY <1>1, <1>4, <1>5, <2>1
  <2>2. CASE i > n
    <3>1. i - n \in 1 .. k /\ i - n \in 1 .. Len(w) /\ n + (i - n) = i
        BY <1>1, <2>2
    <3> QED BY <1>4, <1>5, <3>1
  <2> QED BY <1>1, <2>1, <2>2
<1>7. b = SubSeq(t, 1, n + k)
  <2>1. 0 \in 0 .. Len(t) /\ n + k \in 0 .. Len(t) /\ 0 <= n + k
      BY <1>1, <1>5
  <2>2. /\ SubSeq(t, 0 + 1, n + k) \in Seq(Bytes) /\ Len(SubSeq(t, 0 + 1, n + k)) = (n + k) - 0
        /\ \A i \in 1 .. (n + k) - 0 : SubSeq(t, 0 + 1, n + k)[i] = t[0 + i]
      BY <1>5, <2>1, SubSeqOf
  <2>3. /\ SubSeq(t, 1, n + k) \in Seq(Bytes) /\ Len(SubSeq(t, 1, n + k)) = n + k
        /\ \A i \in 1 .. n + k : SubSeq(t, 1, n + k)[i] = t[i]
      BY <1>1, <2>2
  <2> QED BY <1>4, <1>6, <2>3, SameSequence
<1>8. /\ left \in Seq(Bytes) /\ Len(left) = (n + k) - p
      /\ \A i \in 1 .. (n + k) - p : left[i] = b[p + i]
  <2>1. p \in 0 .. Len(b) /\ Len(b) \in 0 .. Len(b) /\ p <= Len(b)
      BY <1>1, <1>4
  <2>2. /\ SubSeq(b, p + 1, Len(b)) \in Seq(Bytes) /\ Len(SubSeq(b, p + 1, Len(b))) = Len(b) - p
        /\ \A i \in 1 .. Len(b) - p : SubSeq(b, p + 1, Len(b))[i] = b[p + i]
      BY <1>4, <2>1, SubSeqOf
  <2> QED BY <1>4, <2>2
<1> HIDE DEF left
<1>9. /\ left \o d \in Seq(Bytes) /\ Len(left \o d) = (n + Len(w)) - p
      /\ \A i \in 1 .. (n + k) - p : (left \o d)[i] = left[i]
      /\ \A i \in 1 .. Len(w) - k : (left \o d)[((n + k) - p) + i] = d[i]
  <2>1. IsConcat(left \o d, left, d)
      BY <1>3, <1>8, ConcatOf
  <2>2. ((n + k) - p) + (Len(w) - k) = (n + Len(w)) - p
      BY <1>1
  <2> QED BY <1>3, <1>8, <2>1, <2>2 DEF IsConcat
<1>10. /\ SubSeq(t, p + 1, Len(t)) \in Seq(Bytes)
       /\ Len(SubSeq(t, p + 1, Len(t))) = (n + Len(w)) - p
       /\ \A i \in 1 .. (n + Len(w)) - p : SubSeq(t, p + 1, Len(t))[i] = t[p + i]
  <2>1. p \in 0 .. Len(t) /\ Len(t) \in 0 .. Len(t) /\ p <= Len(t)
      BY <1>1, <1>5
  <2>2. /\ SubSeq(t, p + 1, Len(t)) \in Seq(Bytes) /\ Len(SubSeq(t, p + 1, Len(t))) = Len(t) - p
        /\ \A i \in 1 .. Len(t) - p : SubSeq(t, p + 1, Len(t))[i] = t[p + i]
      BY <1>5, <2>1, SubSeqOf
  <2> QED BY <1>5, <2>2
<1>11. ASSUME NEW i \in 1 .. (n + Len(w)) - p
       PROVE  (left \o d)[i] = t[p + i]
  <2>1. CASE i <= (n + k) - p
    <3>1. i \in 1 .. (n + k) - p /\ p + i \in 1 .. n + k
        BY <1>1, <2>1
    <3>2. (left \o d)[i] = left[i] /\ left[i] = b[p + i]
        BY <1>8, <1>9, <3>1, Zenon
    <3>3. b[p + i] = t[p + i]
        BY <1>6, <3>1, Zenon
    <3> QED BY <3>2, <3>3
  <2>2. CASE i > (n + k) - p
    <3>1. PICK j \in 1 .. Len(w) - k : i = ((n + k) - p) + j
      <4>1. i - ((n + k) - p) \in 1 .. Len(w) - k
            /\ i = ((n + k) - p) + (i - ((n + k) - p))
          BY <1>1, <2>2
      <4> QED BY <4>1
    <3>2. k + j \in 1 .. Len(w) /\ p + i = n + (k + j)
        BY <1>1, <3>1
    <3>3. (left \o d)[i] = w[k + j]
        BY <1>3, <1>9, <3>1
    <3>4. t[n + (k + j)] = w[k + j]
        BY <1>5, <3>2
    <3> QED BY <3>2, <3>3, <3>4, Zenon
  <2>3. i <= (n + k) - p \/ i > (n + k) - p
      BY <1>1
  <2> QED BY <2>1, <2>2, <2>3, Zenon
<1>12. left \o d = SubSeq(t, p + 1, Len(t))
    BY <1>9, <1>10, <1>11, SameSequence
<1> QED BY <1>7, <1>12 DEF left, b, c, d, t

-----------------------------------------------------------------------------
(* What is published.                                                      *)

\* No packet comes to its end in the beginning of one.
LEMMA NoEndInBeginning ==
    ASSUME NEW s \in Seq(Bytes), IsStream(s), s # <<>> => Len(s) < Size(s[1].kind)
    PROVE  \A i \in 1 .. Len(s) : s[i].at < Size(s[i].kind)
<1> SUFFICES ASSUME NEW i \in 1 .. Len(s) PROVE s[i].at < Size(s[i].kind)
    OBVIOUS
<1>1. Len(s) \in Nat /\ 1 \in 1 .. Len(s) /\ s # <<>> /\ Size(s[1].kind) \in Nat
    BY Sizes
<1>2. s[1].at = 1
    BY <1>1 DEF IsStream
<1>3. PICK j \in Nat : i = 1 + j
  <2>1. i - 1 \in Nat /\ i = 1 + (i - 1)
      BY <1>1
  <2> QED BY <2>1
<1>4. s[1].at + j <= Size(s[1].kind) /\ 1 + j <= Len(s)
    BY <1>1, <1>2, <1>3
<1>5. s[1 + j].kind = s[1].kind /\ s[1 + j].at = 1 + j
    BY <1>1, <1>2, <1>4, PacketRun
<1> QED BY <1>1, <1>3, <1>5

\* What the parser leaves in the buffer begins with a header and is shorter than
\* the packet that the header announces.
LEMMA ResidueIsBeginning ==
    ASSUME NEW b \in Seq(Bytes), IsStream(b)
    PROVE  LET left == Residue(b, Parsed(b))
           IN  /\ left \in Seq(Bytes)
               /\ left # <<>> => left[1].at = 1 /\ Len(left) < Size(left[1].kind)
<1>1. PICK p \in 0 .. Len(b) : p = WholePackets(b)
    BY BehindWholePackets
<1>2. p < Len(b) => b[p + 1].at = 1 /\ Len(b) - p < Size(b[p + 1].kind)
    BY <1>1, BehindWholePackets
<1>3. Parsed(b) = p
    BY <1>1, ParsesWholePackets
<1>4. PICK left : left = Residue(b, Parsed(b))
    OBVIOUS
<1>5. /\ left \in Seq(Bytes) /\ Len(left) = Len(b) - p
      /\ \A i \in 1 .. Len(b) - p : left[i] = b[p + i]
  <2>1. left = SubSeq(b, p + 1, Len(b))
      BY <1>3, <1>4 DEF Residue
  <2>2. Len(b) \in 0 .. Len(b) /\ p <= Len(b)
      BY <1>1
  <2> QED BY <2>1, <2>2, SubSeqOf
<1>6. ASSUME left # <<>>
      PROVE  left[1].at = 1 /\ Len(left) < Size(left[1].kind)
  <2>1. 1 \in 1 .. Len(b) - p /\ p < Len(b)
      BY <1>1, <1>5, <1>6
  <2>2. left[1] = b[p + 1]
      BY <1>5, <2>1
  <2> QED BY <1>2, <1>5, <2>1, <2>2
<1> QED BY <1>4, <1>5, <1>6

\* The buffer held no whole sample before, and the parser passes over none.
LEMMA NewestIsLastEnding ==
    ASSUME NEW s \in Seq(Bytes), NEW c \in Seq(Bytes), IsStream(s \o c),
           \A i \in 1 .. Len(s) : s[i].at < Size(s[i].kind)
    PROVE  LET sample == LatestSample(s \o c, Parsed(s \o c))
           IN  /\ sample \in Samples \cup {None}
               /\ LastEnding(c) = IF sample = None THEN arrived ELSE sample
<1> DEFINE heads(b, m) == {i \in 1 .. m : b[i].kind = "data" /\ b[i].at = 1}
           ends == {i \in DOMAIN c : c[i].kind = "data" /\ c[i].at = DataSize}
<1>1. PICK b \in Seq(Bytes) : b = s \o c
    BY ConcatOf DEF IsConcat
<1>2. /\ Len(b) = Len(s) + Len(c)
      /\ \A i \in 1 .. Len(s) : b[i] = s[i]
      /\ \A i \in 1 .. Len(c) : b[Len(s) + i] = c[i]
    BY <1>1, ConcatOf DEF IsConcat
<1>3. Len(s) \in Nat /\ Len(c) \in Nat /\ DOMAIN c = 1 .. Len(c)
    OBVIOUS
<1>4. IsStream(b) /\ Parsed(b) = WholePackets(b)
    BY <1>1, ParsesWholePackets
<1>5. PICK m \in 0 .. Len(b) : m = WholePackets(b)
    BY <1>4, BehindWholePackets
<1>6. /\ m > 0 => b[m].at = Size(b[m].kind)
      /\ \A i \in 1 .. Len(b) : i > m => b[i].at < Size(b[i].kind)
    BY <1>4, <1>5, BehindWholePackets
<1>7. DataSize \in Nat \ {0} /\ Size("data") = DataSize
    BY Sizes
<1> DEFINE H == heads(b, m)
<1>8. ASSUME NEW h \in H
      PROVE  \E e \in ends : Len(s) + e = h + (DataSize - 1) /\ c[e].n = b[h].n
  <2>1. h \in 1 .. m /\ h \in 1 .. Len(b) /\ b[h].kind = "data" /\ b[h].at = 1
      BY <1>2, <1>3
  <2>2. h + (DataSize - 1) <= m
    <3> SUFFICES ASSUME h + (DataSize - 1) > m PROVE FALSE
        BY <1>2, <1>3, <1>7, <2>1
    <3>1. PICK j \in Nat : h + j = m /\ 1 + j < DataSize
      <4>1. m - h \in Nat /\ h + (m - h) = m /\ 1 + (m - h) < DataSize
          BY <1>2, <1>3, <1>7, <2>1
      <4> QED BY <4>1
    <3>2. b[h].at + j <= Size(b[h].kind) /\ h + j <= Len(b)
        BY <1>2, <1>3, <1>7, <2>1, <3>1
    <3>3. b[h + j].kind = b[h].kind /\ b[h + j].at = b[h].at + j
        BY <1>4, <2>1, <3>2, PacketRun
    <3>4. b[m].at = 1 + j /\ b[m].at = DataSize
        BY <1>6, <1>7, <2>1, <3>1, <3>3
    <3> QED BY <1>7, <3>1, <3>4
  <2>3. PICK j \in Nat : j = DataSize - 1
      BY <1>7
  <2>4. /\ b[h].at + j <= Size(b[h].kind) /\ h + j <= Len(b) /\ b[h].at + j = DataSize
        /\ h + j \in 1 .. Len(b)
      BY <1>2, <1>3, <1>7, <2>1, <2>2, <2>3
  <2>5. b[h + j].kind = "data" /\ b[h + j].n = b[h].n /\ b[h + j].at = DataSize
      BY <1>4, <2>1, <2>4, PacketRun
  <2>6. h + j > Len(s)
    <3> SUFFICES ASSUME h + j <= Len(s) PROVE FALSE
        BY <1>3, <2>1
    <3>1. h + j \in 1 .. Len(s)
        BY <1>3, <2>4
    <3>2. b[h + j] = s[h + j] /\ s[h + j].at < Size(s[h + j].kind)
        BY <1>2, <3>1
    <3> QED BY <1>7, <2>5, <3>2
  <2>7. PICK e \in 1 .. Len(c) : Len(s) + e = h + j
    <3>1. (h + j) - Len(s) \in 1 .. Len(c) /\ Len(s) + ((h + j) - Len(s)) = h + j
        BY <1>2, <1>3, <2>4, <2>6
    <3> QED BY <3>1
  <2>8. c[e] = b[h + j]
      BY <1>2, <2>7
  <2>9. e \in ends
      BY <1>3, <2>5, <2>8
  <2> QED BY <2>3, <2>5, <2>7, <2>8, <2>9
<1>9. ASSUME NEW e \in ends
      PROVE  \E h \in H : Len(s) + e = h + (DataSize - 1) /\ c[e].n = b[h].n
  <2>1. e \in 1 .. Len(c) /\ c[e].kind = "data" /\ c[e].at = DataSize
      BY <1>3
  <2>2. PICK i \in 1 .. Len(b) : i = Len(s) + e
      BY <1>2, <1>3
  <2>3. b[i] = c[e]
      BY <1>2, <2>1, <2>2
  <2>4. i <= m
    <3>1. ~(i > m)
        BY <1>6, <1>7, <2>1, <2>3
    <3> QED BY <1>2, <1>3, <3>1
  <2>5. PICK h \in 1 .. i : h = (i + 1) - DataSize /\ b[h].at = 1
                            /\ b[h].kind = b[i].kind /\ b[h].n = b[i].n
      BY <1>4, <2>1, <2>3, PacketHead
  <2>6. h \in 1 .. m
      BY <1>2, <1>3, <2>4
  <2>7. h \in H
      BY <2>1, <2>3, <2>5, <2>6
  <2>8. Len(s) + e = h + (DataSize - 1)
      BY <1>3, <1>7, <2>1, <2>2, <2>5
  <2> QED BY <2>3, <2>5, <2>7, <2>8
<1>10. /\ H \in SUBSET Nat /\ \A i \in H : i <= Len(b)
       /\ ends \in SUBSET Nat /\ \A i \in ends : i <= Len(c)
  <2>1. Len(b) \in Nat /\ m <= Len(b)
      BY <1>2, <1>3
  <2> QED BY <1>3, <2>1
<1>11. \A i \in H : b[i].n \in Samples
  <2>1. \A i \in H : i \in 1 .. Len(b) /\ b[i].kind = "data"
      BY <1>2, <1>3
  <2> QED BY <1>4, <2>1 DEF IsStream
<1>12. Samples \subseteq Nat /\ None \notin Samples
    BY SizeAssumption DEF Samples
<1>13. /\ LatestSample(b, m) = IF H = {} THEN None ELSE b[Max(H)].n
       /\ LastEnding(c) = IF ends = {} THEN arrived ELSE c[Max(ends)].n
    BY DEF LatestSample, LastEnding
<1>14. Len(b) \in Nat
    OBVIOUS
<1> HIDE DEF H, ends
<1>15. CASE H = {}
  <2>1. ends = {}
      BY <1>9, <1>15
  <2> QED BY <1>1, <1>4, <1>5, <1>13, <1>15, <2>1
<1>16. CASE H # {}
  <2>1. PICK h \in H : h = Max(H) /\ \A i \in H : i <= h
      BY <1>10, <1>14, <1>16, BoundedMax
  <2>2. ends # {}
      BY <1>8, <2>1
  <2>3. PICK e \in ends : e = Max(ends) /\ \A i \in ends : i <= e
      BY <1>3, <1>10, <2>2, BoundedMax
  <2>4. PICK e2 \in ends : Len(s) + e2 = h + (DataSize - 1) /\ c[e2].n = b[h].n
      BY <1>8
  <2>5. PICK h2 \in H : Len(s) + e = h2 + (DataSize - 1) /\ c[e].n = b[h2].n
      BY <1>9
  <2>6. e \in Nat /\ e2 \in Nat /\ h \in Nat /\ h2 \in Nat /\ e2 <= e /\ h2 <= h
      BY <1>10, <2>1, <2>3
  <2>7. h2 = h
      BY <1>3, <1>7, <2>4, <2>5, <2>6
  <2>8. LatestSample(b, m) = b[h].n /\ LastEnding(c) = b[h].n
      BY <1>13, <1>16, <2>1, <2>2, <2>3, <2>5, <2>7
  <2>9. b[h].n \in Samples /\ b[h].n # None
      BY <1>11, <1>12
  <2> QED BY <1>1, <1>4, <1>5, <2>8, <2>9
<1> QED BY <1>15, <1>16

\* The newest sample that the parser finds is the last that came to its end in
\* the bytes just read, and what it leaves for the next read is the beginning
\* of one unfinished packet (get_torques 140-151).
THEOREM ParserFindsFreshest ==
    ASSUME NEW s \in Seq(Bytes), NEW c \in Seq(Bytes), IsStream(s \o c),
           \A i \in 1 .. Len(s) : s[i].at < Size(s[i].kind)
    PROVE  LET b == s \o c
               sample == LatestSample(b, Parsed(b))
               left == Residue(b, Parsed(b))
           IN  /\ sample \in Samples \cup {None}
               /\ LastEnding(c) = IF sample = None THEN arrived ELSE sample
               /\ left \in Seq(Bytes)
               /\ left # <<>> => left[1].at = 1 /\ Len(left) < Size(left[1].kind)
<1>1. PICK b \in Seq(Bytes) : b = s \o c
    BY ConcatOf DEF IsConcat
<1>2. LET left == Residue(b, Parsed(b))
      IN  /\ left \in Seq(Bytes)
          /\ left # <<>> => left[1].at = 1 /\ Len(left) < Size(left[1].kind)
    BY <1>1, ResidueIsBeginning
<1>3. LET sample == LatestSample(b, Parsed(b))
      IN  /\ sample \in Samples \cup {None}
          /\ LastEnding(c) = IF sample = None THEN arrived ELSE sample
    BY <1>1, NewestIsLastEnding
<1> QED BY <1>1, <1>2, <1>3

-----------------------------------------------------------------------------
(* Every step of the client and the robot.                                 *)

StreamInv ==
    /\ TypeOK
    /\ IsStream(buf \o wire)
    /\ peer = "alive" => sock /\ AtBoundary(buf \o wire)
    /\ ~connected => buf = <<>>
    /\ ~sock => wire = <<>>
    /\ FreshestSample

LEMMA EmptyStream ==
    /\ <<>> \in Seq(Bytes)
    /\ \A s \in Seq(Bytes) : <<>> \o s = s
    /\ IsStream(<<>> \o <<>>) /\ AtBoundary(<<>> \o <<>>)
<1>1. IsStream(<<>>) /\ AtBoundary(<<>>)
    BY DEF IsStream, AtBoundary
<1>2. <<>> \o <<>> = <<>>
    OBVIOUS
<1>3. <<>> \in Seq(Bytes) /\ \A s \in Seq(Bytes) : <<>> \o s = s
    OBVIOUS
<1> QED BY <1>1, <1>2, <1>3

LEMMA ConcatAssociates ==
    ASSUME NEW s \in Seq(Bytes), NEW t \in Seq(Bytes), NEW u \in Seq(Bytes)
    PROVE  s \o (t \o u) = (s \o t) \o u
OBVIOUS

\* A closed connection leaves nothing behind.
LEMMA DisconnectKeeps ==
    ASSUME StreamInv, Disconnect,
           pc' \in {"idle", "ended"}, UNCHANGED <<robot, next, observers>>
    PROVE  StreamInv'
<1>1. /\ sock' = FALSE /\ connected' = FALSE /\ buf' = <<>> /\ wire' = <<>>
      /\ peer' = "none" /\ asked' = "none" /\ streaming' = FALSE
      /\ UNCHANGED <<robot, next, arrived, published>>
    BY DEF Disconnect, observers
<1>2. TypeOK'
    BY <1>1, EmptyStream DEF StreamInv, TypeOK
<1>3. IsStream(buf' \o wire') /\ AtBoundary(buf' \o wire')
    BY <1>1, EmptyStream
<1>4. FreshestSample'
    BY <1>1 DEF FreshestSample, IsConnected
<1> QED BY <1>1, <1>2, <1>3, <1>4 DEF StreamInv

\* What the robot's end does to the wire.
LEMMA PeerKeeps ==
    ASSUME StreamInv, NEW how \in {"closed", "vanished"}, NEW k \in 0 .. Len(wire),
           PeerEnds(how, k)
    PROVE  StreamInv'
<1>1. TypeOK /\ IsStream(buf \o wire) /\ buf \in Seq(Bytes) /\ wire \in Seq(Bytes)
    BY DEF StreamInv, TypeOK
<1>2. /\ peer' = how /\ wire' = SubSeq(wire, 1, k)
      /\ UNCHANGED <<pc, sock, connected, buf, robot, asked, streaming, next, arrived, published>>
    BY DEF PeerEnds, client, observers
<1>3. PICK t \in Seq(Bytes) : t = buf \o wire /\ Len(t) = Len(buf) + Len(wire)
    BY <1>1, ConcatOf DEF IsConcat
<1>4. PICK m \in 0 .. Len(t) : m = Len(buf) + k
    BY <1>1, <1>3
<1>5. 0 \in 0 .. Len(buf) + k /\ 0 \in 0 .. Len(t) /\ 0 + 1 = 1 /\ Len(t) \in Nat
    BY <1>1, <1>3
<1>6. buf \o wire' = SubSeq(t, 1, m)
    BY <1>1, <1>2, <1>3, <1>4, <1>5, ReadingCuts
<1>7. 0 < m => t[0 + 1].at = 1
    BY <1>1, <1>3, <1>5 DEF IsStream
<1>8. IsStream(SubSeq(t, 0 + 1, m))
  <2>1. IsStream(t) /\ 0 <= m
      BY <1>1, <1>3, <1>5
  <2> QED BY <1>5, <1>7, <2>1, PartOfStream
<1>9. IsStream(buf' \o wire')
    BY <1>2, <1>5, <1>6, <1>8
<1>10. wire' \in Seq(Bytes)
    BY <1>1, <1>2
<1>11. TypeOK'
    BY <1>1, <1>2, <1>10 DEF TypeOK
<1>12. ~sock' => wire' = <<>>
  <2> SUFFICES ASSUME ~sock PROVE wire' = <<>>
      BY <1>2
  <2>1. wire = <<>> /\ k = 0
      BY DEF StreamInv
  <2> QED BY <1>2, <2>1
<1> QED BY <1>2, <1>9, <1>11, <1>12 DEF StreamInv, FreshestSample, IsConnected

LEMMA SendsKeeps ==
    ASSUME StreamInv, IInv,
           NEW kind \in {"version", "outputs", "start", "text", "data"},
           NEW n \in Samples \cup {0, 1}, kind = "data" => n \in Samples,
           Sends(kind, n),
           next' \in Samples, asked' \in {"none", "version", "outputs", "start"},
           streaming' \in BOOLEAN
    PROVE  StreamInv'
<1>1. /\ TypeOK /\ IsStream(buf \o wire) /\ AtBoundary(buf \o wire) /\ sock
      /\ buf \in Seq(Bytes) /\ wire \in Seq(Bytes)
    BY DEF StreamInv, TypeOK, Sends
<1>2. /\ wire' = wire \o Packet(kind, n)
      /\ UNCHANGED <<pc, sock, connected, buf, robot, peer, arrived, published>>
    BY DEF Sends, client, observers
<1>3. Packet(kind, n) \in Seq(Bytes)
    BY PacketBytes
<1>4. buf \o wire' = (buf \o wire) \o Packet(kind, n)
    BY <1>1, <1>2, <1>3, ConcatAssociates
<1>5. buf \o wire \in Seq(Bytes)
    BY <1>1
<1>6. IsStream(buf \o wire') /\ AtBoundary(buf \o wire')
    BY <1>1, <1>4, <1>5, PacketOnStream
<1>7. wire' \in Seq(Bytes)
    BY <1>1, <1>2, <1>3
<1>8. TypeOK'
    BY <1>1, <1>2, <1>7 DEF TypeOK
<1>9. ~connected' => buf' = <<>>
    BY <1>2 DEF StreamInv
<1>10. FreshestSample'
    BY <1>2 DEF StreamInv, FreshestSample, IsConnected
<1> QED BY <1>1, <1>2, <1>6, <1>8, <1>9, <1>10 DEF StreamInv

\* connect() reads one packet of the stream and no byte more.
LEMMA ReceiveKeeps ==
    ASSUME StreamInv, IInv,
           NEW kind \in {"version", "outputs", "start", "text"}, Receives(kind)
    PROVE  /\ buf = <<>> /\ AfterPacket \in Seq(Bytes)
           /\ IsStream(buf \o AfterPacket)
           /\ peer = "alive" => AtBoundary(buf \o AfterPacket)
<1>1. buf = <<>> /\ wire \in Seq(Bytes)
    BY DEF StreamInv, TypeOK, IInv, Handshake, Receives
<1>2. IsStream(wire) /\ (peer = "alive" => AtBoundary(wire))
    BY <1>1, EmptyStream DEF StreamInv
<1>3. /\ wire # <<>> /\ wire[1].kind = kind /\ Size(kind) = OtherSize /\ Len(wire) >= OtherSize
      /\ OtherSize \in Nat \ {0} /\ Len(wire) \in Nat
    BY <1>1, Sizes DEF Receives, Size
<1>4. wire[1].at = 1
    BY <1>2, <1>3 DEF IsStream
<1>5. OtherSize < Len(wire) => wire[OtherSize + 1].at = 1
  <2> SUFFICES ASSUME OtherSize < Len(wire) PROVE wire[OtherSize + 1].at = 1
      OBVIOUS
  <2>1. PICK j \in Nat : 1 + j = OtherSize
    <3>1. OtherSize - 1 \in Nat /\ 1 + (OtherSize - 1) = OtherSize
        BY <1>3
    <3> QED BY <3>1
  <2>2. 1 \in 1 .. Len(wire) /\ wire[1].at + j <= Size(wire[1].kind) /\ 1 + j <= Len(wire)
      BY <1>3, <1>4, <2>1
  <2>3. wire[1 + j].kind = wire[1].kind /\ wire[1 + j].at = wire[1].at + j
      BY <1>1, <1>2, <2>2, PacketRun
  <2>4. OtherSize \in 1 .. Len(wire) - 1
      BY <1>3
  <2>5. Follows(wire[OtherSize], wire[OtherSize + 1])
      BY <1>2, <2>4 DEF IsStream
  <2> QED BY <1>3, <1>4, <2>1, <2>3, <2>5 DEF Follows
<1>6. OtherSize \in 0 .. Len(wire) /\ Len(wire) \in 0 .. Len(wire) /\ OtherSize <= Len(wire)
    BY <1>3
<1>7. /\ IsStream(SubSeq(wire, OtherSize + 1, Len(wire)))
      /\ AtBoundary(wire) => AtBoundary(SubSeq(wire, OtherSize + 1, Len(wire)))
    BY <1>1, <1>2, <1>5, <1>6, PartOfStream
<1>8. AfterPacket \in Seq(Bytes)
    BY <1>1, <1>6, SubSeqOf DEF AfterPacket
<1>9. buf \o AfterPacket = AfterPacket
    BY <1>1, <1>8, EmptyStream
<1> QED BY <1>1, <1>2, <1>7, <1>8, <1>9 DEF AfterPacket

\* The publish timer: the buffer keeps the beginning of one packet, and the
\* topic gets the freshest sample of the connection.
LEMMA PublishKeeps ==
    ASSUME StreamInv, NEW k \in 0 .. Len(wire), PublishTorques(k)
    PROVE  StreamInv'
<1>1. TypeOK /\ IsStream(buf \o wire) /\ buf \in Seq(Bytes) /\ wire \in Seq(Bytes)
    BY DEF StreamInv, TypeOK
<1>2. PICK c \in Seq(Bytes) : c = SubSeq(wire, 1, k) /\ Len(c) = k
  <2>1. 0 \in 0 .. Len(wire) /\ 0 <= k /\ 0 + 1 = 1 /\ k - 0 = k
      BY <1>1
  <2>2. SubSeq(wire, 0 + 1, k) \in Seq(Bytes) /\ Len(SubSeq(wire, 0 + 1, k)) = k - 0
      BY <1>1, <2>1, SubSeqOf
  <2> QED BY <2>1, <2>2
<1>3. PICK t \in Seq(Bytes) : t = buf \o wire /\ Len(t) = Len(buf) + Len(wire)
    BY <1>1, ConcatOf DEF IsConcat
<1>4. PICK b \in Seq(Bytes) : b = buf \o c /\ Len(b) = Len(buf) + k
  <2>1. IsConcat(buf \o c, buf, c)
      BY <1>1, ConcatOf
  <2> QED BY <1>2, <2>1 DEF IsConcat
<1>5. Len(buf) \in Nat /\ Len(wire) \in Nat /\ k \in Nat /\ k <= Len(wire)
    BY <1>1
<1>6. \A p \in 0 .. Len(b) :
          /\ b = SubSeq(t, 1, Len(b))
          /\ SubSeq(b, p + 1, Len(b)) \o SubSeq(wire, k + 1, Len(wire)) = SubSeq(t, p + 1, Len(t))
  <2> SUFFICES ASSUME NEW p \in 0 .. Len(buf) + k
               PROVE  /\ b = SubSeq(t, 1, Len(b))
                      /\ SubSeq(b, p + 1, Len(b)) \o SubSeq(wire, k + 1, Len(wire))
                           = SubSeq(t, p + 1, Len(t))
      BY <1>4
  <2>1. LET a == buf \o SubSeq(wire, 1, k)
        IN  /\ a = SubSeq(buf \o wire, 1, Len(buf) + k)
            /\ SubSeq(a, p + 1, Len(a)) \o SubSeq(wire, k + 1, Len(wire))
                 = SubSeq(buf \o wire, p + 1, Len(buf \o wire))
      BY <1>1, ReadingCuts
  <2> QED BY <1>2, <1>3, <1>4, <2>1, Zenon
<1>7. /\ 0 \in 0 .. Len(b) /\ 0 \in 0 .. Len(t) /\ Len(b) \in 0 .. Len(t) /\ 0 + 1 = 1 /\ 0 <= Len(b)
      /\ IsStream(t)
    BY <1>1, <1>3, <1>4, <1>5
<1>8. \A i \in 1 .. Len(b) : b[i] = t[i]
  <2>1. b = SubSeq(t, 0 + 1, Len(b))
      BY <1>6, <1>7
  <2>2. \A i \in 1 .. Len(b) - 0 : SubSeq(t, 0 + 1, Len(b))[i] = t[0 + i]
      BY <1>7, SubSeqOf
  <2> QED BY <1>4, <1>5, <2>1, <2>2
<1>9. IsStream(b)
  <2>1. 0 < Len(b) => t[0 + 1].at = 1
      BY <1>3, <1>5, <1>7 DEF IsStream
  <2>2. IsStream(SubSeq(t, 0 + 1, Len(b)))
      BY <1>7, <2>1, PartOfStream
  <2> QED BY <1>6, <1>7, <2>2
<1>10. PICK p \in 0 .. Len(b) : p = WholePackets(b)
    BY <1>9, BehindWholePackets
<1>11. /\ p < Len(b) => b[p + 1].at = 1 /\ Len(b) - p < Size(b[p + 1].kind)
       /\ p > 0 => b[p].at = Size(b[p].kind)
    BY <1>9, <1>10, BehindWholePackets
<1>12. Parsed(b) = p
    BY <1>9, <1>10, ParsesWholePackets
<1>13. /\ buf' = SubSeq(b, p + 1, Len(b)) /\ wire' = SubSeq(wire, k + 1, Len(wire))
       /\ published' = IF LatestSample(b, Parsed(b)) = None THEN published
                       ELSE LatestSample(b, Parsed(b))
       /\ arrived' = LastEnding(c)
       /\ UNCHANGED <<pc, sock, connected, robot, peer, asked, streaming, next>>
       /\ connected /\ sock
    BY <1>2, <1>4, <1>12 DEF PublishTorques, Residue, IsConnected
<1>14. buf' \o wire' = SubSeq(t, p + 1, Len(t))
    BY <1>6, <1>13
<1>15. p < Len(t) => t[p + 1].at = 1
  <2>1. CASE p < Len(b)
    <3>1. p + 1 \in 1 .. Len(b)
        BY <1>4, <1>5, <2>1
    <3> QED BY <1>8, <1>11, <2>1, <3>1
  <2>2. CASE p = Len(b) /\ p < Len(t) /\ p > 0
    <3>1. p \in 1 .. Len(t) - 1 /\ p \in 1 .. Len(b)
        BY <1>3, <1>4, <1>5, <2>2
    <3>2. Follows(t[p], t[p + 1]) /\ t[p].at = Size(t[p].kind)
        BY <1>7, <1>8, <1>11, <2>2, <3>1 DEF IsStream
    <3> QED BY <3>2 DEF Follows
  <2>3. CASE p = Len(b) /\ p < Len(t) /\ p = 0
    <3>1. t # <<>> /\ p + 1 = 1
        BY <1>3, <1>5, <2>3
    <3> QED BY <1>7, <3>1 DEF IsStream
  <2>4. p < Len(b) \/ (p = Len(b) /\ (p > 0 \/ p = 0))
      BY <1>4, <1>5
  <2> QED BY <2>1, <2>2, <2>3, <2>4, Zenon
<1>16. p \in 0 .. Len(t) /\ Len(t) \in 0 .. Len(t) /\ p <= Len(t)
    BY <1>3, <1>4, <1>5
<1>17. /\ IsStream(buf' \o wire')
       /\ AtBoundary(t) => AtBoundary(buf' \o wire')
    BY <1>7, <1>14, <1>15, <1>16, PartOfStream
<1>18. wire' \in Seq(Bytes)
    BY <1>1, <1>5, <1>13, SubSeqOf
<1>19. LET sample == LatestSample(b, Parsed(b))
           left == Residue(b, Parsed(b))
       IN  /\ sample \in Samples \cup {None}
           /\ arrived' = IF sample = None THEN arrived ELSE sample
           /\ left \in Seq(Bytes)
           /\ left # <<>> => left[1].at = 1 /\ Len(left) < Size(left[1].kind)
  <2>1. buf # <<>> => Len(buf) < Size(buf[1].kind)
    <3>1. buf # <<>> => Head(buf) = buf[1] /\ Len(buf) < Size(Head(buf).kind)
        BY <1>1 DEF TypeOK
    <3> QED BY <3>1
  <2>2. IsStream(buf)
    <3>1. c \in Seq(Bytes) /\ Len(buf) \in 0 .. Len(b) /\ 0 \in 0 .. Len(b) /\ 0 <= Len(buf)
        BY <1>2, <1>4, <1>5
    <3>2. \A i \in 1 .. Len(buf) : b[i] = buf[i]
        BY <1>1, <1>2, <1>4, ConcatOf DEF IsConcat
    <3>3. /\ SubSeq(b, 0 + 1, Len(buf)) \in Seq(Bytes)
          /\ Len(SubSeq(b, 0 + 1, Len(buf))) = Len(buf) - 0
          /\ \A i \in 1 .. Len(buf) - 0 : SubSeq(b, 0 + 1, Len(buf))[i] = b[0 + i]
        BY <3>1, SubSeqOf
    <3>4. SubSeq(b, 0 + 1, Len(buf)) = buf
      <4>1. /\ Len(SubSeq(b, 0 + 1, Len(buf))) = Len(buf)
            /\ \A i \in 1 .. Len(buf) : SubSeq(b, 0 + 1, Len(buf))[i] = buf[i]
          BY <1>5, <3>2, <3>3
      <4> QED BY <1>1, <3>3, <4>1, SameSequence
    <3>5. 0 < Len(buf) => b[0 + 1].at = 1
        BY <1>4, <1>5, <1>9 DEF IsStream
    <3>6. IsStream(SubSeq(b, 0 + 1, Len(buf)))
        BY <1>9, <3>1, <3>5, PartOfStream
    <3> QED BY <3>4, <3>6
  <2>3. \A i \in 1 .. Len(buf) : buf[i].at < Size(buf[i].kind)
      BY <1>1, <2>1, <2>2, NoEndInBeginning
  <2>4. LET a == buf \o c
            sample == LatestSample(a, Parsed(a))
            left == Residue(a, Parsed(a))
        IN  /\ sample \in Samples \cup {None}
            /\ LastEnding(c) = IF sample = None THEN arrived ELSE sample
            /\ left \in Seq(Bytes)
            /\ left # <<>> => left[1].at = 1 /\ Len(left) < Size(left[1].kind)
      BY <1>1, <1>2, <1>4, <1>9, <2>3, ParserFindsFreshest
  <2> QED BY <1>4, <1>13, <2>4
<1>20. buf' \in Seq(Bytes) /\ (buf' # <<>> => Head(buf').at = 1 /\ Len(buf') < Size(Head(buf').kind))
  <2>1. buf' = Residue(b, Parsed(b))
      BY <1>12, <1>13 DEF Residue
  <2> QED BY <1>19, <2>1
<1>22. FreshestSample'
  <2>1. published = arrived
      BY <1>13 DEF StreamInv, FreshestSample, IsConnected
  <2> QED BY <1>13, <1>19, <2>1 DEF FreshestSample
<1>23. {arrived, published}' \subseteq Samples \cup {None}
    BY <1>1, <1>13, <1>19 DEF TypeOK
<1>24. TypeOK'
    BY <1>1, <1>13, <1>18, <1>20, <1>23 DEF TypeOK
<1>25. peer' = "alive" => sock' /\ AtBoundary(buf' \o wire')
    BY <1>3, <1>13, <1>17 DEF StreamInv
<1> QED BY <1>13, <1>17, <1>22, <1>24, <1>25 DEF StreamInv

LEMMA NextStreamInv == StreamInv /\ IInv /\ [Next]_vars => StreamInv'
<1> SUFFICES ASSUME StreamInv, IInv, [Next]_vars PROVE StreamInv'
    OBVIOUS
<1>0. TypeOK
    BY DEF StreamInv
<1>1. ASSUME NEW how \in {"up", "moody", "down"}, RobotTurns(how) PROVE StreamInv'
  <2>1. /\ robot' = how
        /\ UNCHANGED <<pc, sock, connected, buf, peer, asked, streaming, wire, next>>
        /\ UNCHANGED <<arrived, published>>
      BY <1>1 DEF RobotTurns, client, observers
  <2>2. TypeOK'
      BY <1>0, <2>1 DEF TypeOK
  <2> QED BY <2>1, <2>2 DEF StreamInv, FreshestSample, IsConnected
<1>2. ASSUME NEW how \in {"closed", "vanished"}, NEW k \in 0 .. Len(wire), PeerEnds(how, k)
      PROVE  StreamInv'
    BY <1>2, PeerKeeps
<1>3. ASSUME NEW ok \in {0, 1}, Answer(ok) PROVE StreamInv'
  <2>1. /\ Sends(asked, ok) /\ asked \in {"version", "outputs", "start"}
        /\ next' = next /\ asked' = "none" /\ streaming' = (asked = "start" /\ ok = 1)
      BY <1>0, <1>3 DEF Answer, TypeOK
  <2>2. /\ asked \in {"version", "outputs", "start", "text", "data"} /\ asked # "data"
        /\ ok \in Samples \cup {0, 1} /\ streaming' \in BOOLEAN /\ next' \in Samples
      BY <1>0, <2>1 DEF TypeOK
  <2> QED BY <2>1, <2>2, SendsKeeps
<1>4. CASE SendText
  <2>1. /\ Sends("text", 0) /\ next' \in Samples /\ streaming' \in BOOLEAN
        /\ asked' \in {"none", "version", "outputs", "start"}
      BY <1>0, <1>4 DEF SendText, TypeOK
  <2> QED BY <2>1, SendsKeeps
<1>5. CASE SendSample
  <2>1. /\ Sends("data", next) /\ next \in Samples /\ streaming' \in BOOLEAN
        /\ asked' \in {"none", "version", "outputs", "start"}
        /\ next' = (next + 1) % SampleNumbers
      BY <1>0, <1>5 DEF SendSample, TypeOK
  <2>2. next' \in Samples
    <3>1. SampleNumbers \in Nat \ {0} /\ next + 1 \in Nat
        BY <2>1, SizeAssumption DEF Samples
    <3>2. (next + 1) % SampleNumbers \in 0 .. SampleNumbers - 1
        BY <3>1
    <3> QED BY <2>1, <3>2 DEF Samples
  <2> QED BY <2>1, <2>2, SendsKeeps
<1>6. CASE EnsureConnected
  <2>1. /\ pc' = "dial"
        /\ UNCHANGED <<sock, connected, buf, robot, peer, asked, streaming, wire, next>>
        /\ UNCHANGED <<arrived, published>>
      BY <1>6 DEF EnsureConnected, server, observers
  <2>2. TypeOK'
      BY <1>0, <2>1 DEF TypeOK
  <2> QED BY <2>1, <2>2 DEF StreamInv, FreshestSample, IsConnected
<1>7. CASE Dial
  <2>1. /\ pc' = "version" /\ sock' = TRUE /\ peer' = "alive" /\ asked' = "version"
        /\ UNCHANGED <<connected, buf, robot, streaming, wire, next, arrived, published>>
      BY <1>7 DEF Dial, observers
  <2>2. ~connected /\ buf = <<>> /\ wire = <<>>
      BY <1>7 DEF Dial, IInv, StreamInv
  <2>3. TypeOK'
      BY <1>0, <2>1 DEF TypeOK
  <2>4. AtBoundary(buf' \o wire')
      BY <2>1, <2>2, EmptyStream
  <2> QED BY <2>1, <2>2, <2>3, <2>4 DEF StreamInv, FreshestSample, IsConnected
<1>8. CASE DialFails \/ Refused \/ HandshakeFails
    BY <1>8, DisconnectKeeps DEF DialFails, Refused, HandshakeFails, observers
<1>9. CASE SkipPacket
  <2>1. /\ Receives("text") /\ wire' = AfterPacket
        /\ UNCHANGED <<pc, sock, connected, buf, robot, peer, asked, streaming, next>>
        /\ UNCHANGED <<arrived, published>>
      BY <1>9 DEF SkipPacket, client, observers
  <2>2. /\ buf = <<>> /\ wire' \in Seq(Bytes) /\ IsStream(buf \o wire')
        /\ peer = "alive" => AtBoundary(buf \o wire')
      BY <2>1, ReceiveKeeps
  <2>3. sock
      BY <2>1 DEF Receives, IInv, Handshake
  <2>4. TypeOK'
      BY <1>0, <2>1, <2>2 DEF TypeOK
  <2> QED BY <2>1, <2>2, <2>3, <2>4 DEF StreamInv, FreshestSample, IsConnected
<1>10. CASE NegotiateVersion \/ SetupOutputs
  <2>1. PICK step \in {"version", "outputs"}, request \in {"outputs", "start"} : Granted(step, request)
      BY <1>10 DEF NegotiateVersion, SetupOutputs
  <2>2. /\ Receives(step) /\ wire' = AfterPacket /\ pc' = request /\ asked' = request
        /\ UNCHANGED <<sock, connected, buf, robot, peer, streaming, next, arrived, published>>
      BY <2>1 DEF Granted, observers
  <2>3. /\ buf = <<>> /\ wire' \in Seq(Bytes) /\ IsStream(buf \o wire')
        /\ peer = "alive" => AtBoundary(buf \o wire')
      BY <2>1, <2>2, ReceiveKeeps
  <2>4. sock
      BY <2>2 DEF Receives, IInv, Handshake
  <2>5. TypeOK'
      BY <1>0, <2>1, <2>2, <2>3 DEF TypeOK
  <2> QED BY <2>2, <2>3, <2>4, <2>5 DEF StreamInv, FreshestSample, IsConnected
<1>11. CASE Start
  <2>1. /\ Receives("start") /\ wire' = AfterPacket /\ pc' = "idle" /\ buf' = <<>>
        /\ connected' = TRUE /\ arrived' = None /\ published' = None
        /\ UNCHANGED <<sock, robot, peer, asked, streaming, next>>
      BY <1>11 DEF Start
  <2>2. /\ buf = <<>> /\ wire' \in Seq(Bytes) /\ IsStream(buf \o wire')
        /\ peer = "alive" => AtBoundary(buf \o wire')
      BY <2>1, ReceiveKeeps
  <2>3. sock
      BY <2>1 DEF Receives, IInv, Handshake
  <2>4. TypeOK'
      BY <1>0, <2>1, <2>2 DEF TypeOK
  <2> QED BY <2>1, <2>2, <2>3, <2>4 DEF StreamInv, FreshestSample
<1>12. ASSUME NEW k \in 0 .. Len(wire), PublishTorques(k) PROVE StreamInv'
    BY <1>12, PublishKeeps
<1>13. CASE ReadFails \/ DestroyNode
  <2>1. pc' \in {"idle", "ended"} /\ Disconnect /\ UNCHANGED <<robot, next, observers>>
      BY <1>13 DEF ReadFails, DestroyNode
  <2> QED BY <2>1, DisconnectKeeps
<1>14. CASE UNCHANGED vars
  <2>1. /\ UNCHANGED <<pc, sock, connected, buf, robot, peer, asked, streaming, wire, next>>
        /\ UNCHANGED <<arrived, published>>
      BY <1>14 DEF vars, client, server, observers
  <2>2. TypeOK'
      BY <1>0, <2>1 DEF TypeOK
  <2> QED BY <2>1, <2>2 DEF StreamInv, FreshestSample, IsConnected
<1> QED BY <1>1, <1>2, <1>3, <1>4, <1>5, <1>6, <1>7, <1>8, <1>9, <1>10, <1>11, <1>12, <1>13,
           <1>14 DEF Next, Robot, Connect

LEMMA Invariance == Spec => [](IInv /\ StreamInv)
<1>1. Init => IInv
    BY DEF Init, IInv, Handshake
<1>2. Init => StreamInv
  <2> SUFFICES ASSUME Init PROVE StreamInv
      OBVIOUS
  <2>1. 0 \in Samples
      BY SizeAssumption DEF Samples
  <2>2. TypeOK
      BY <2>1, EmptyStream DEF Init, TypeOK
  <2>3. IsStream(buf \o wire)
      BY EmptyStream DEF Init
  <2> QED BY <2>2, <2>3 DEF StreamInv, FreshestSample, IsConnected, Init
<1>3. IInv /\ StreamInv /\ [Next]_vars => (IInv /\ StreamInv)'
    BY NextIInv, NextStreamInv
<1> QED BY <1>1, <1>2, <1>3, PTL DEF Spec

\* The variables have their types, and no whole packet waits in the buffer and
\* none in it has lost its header, whatever was read in whatever pieces.
THEOREM TypeCorrect == Spec => []TypeOK
<1>1. StreamInv => TypeOK
    BY DEF StreamInv
<1> QED BY <1>1, Invariance, PTL

\* "so we always publish the freshest sample" (rtde_torque_source.py:126): for
\* every size of the packets, every cut of the stream and every other packet in
\* between, over any number of connections.
THEOREM FreshestTheorem == Spec => []FreshestSample
<1>1. StreamInv => FreshestSample
    BY DEF StreamInv
<1> QED BY <1>1, Invariance, PTL
=============================================================================
