-------------------------- MODULE RtdeTorqueSource --------------------------
(***************************************************************************)
(* rtde_torque_source.py and torque_publisher_node.py: a TCP client of the *)
(* robot's RTDE port, the buffer in which it reassembles packets, and the  *)
(* node's two timers, one that publishes the newest sample and one that    *)
(* connects again.  connect() blocks the node's only thread: pc names the  *)
(* reply it waits for, and no timer fires until it is back at "idle".      *)
(*                                                                         *)
(* The robot is external.  It is "up", "moody" (slow, refusing, closing    *)
(* connections) or "down".  Its end of the connection is alive, closed or  *)
(* vanished (half-open: nothing ever tells the client).  A byte carries    *)
(* the packet it belongs to and its place in it; samples are numbered      *)
(* modulo SampleNumbers.                                                   *)
(***************************************************************************)
EXTENDS Naturals, Sequences, FiniteSetsExt

CONSTANTS
    HeaderSize,     \* bytes of a packet header (3 in the protocol)
    DataSize,       \* bytes of a data package (52)
    OtherSize,      \* bytes of every other packet
    SampleNumbers,  \* bound: sample numbers are counted modulo this
    MaxBytes,       \* bound: bytes between the robot and the parser
    None            \* Python's None

ASSUME SizeAssumption ==
    /\ {HeaderSize, DataSize, OtherSize, SampleNumbers, MaxBytes} \subseteq Nat \ {0}
    /\ HeaderSize <= OtherSize /\ HeaderSize < DataSize
    /\ DataSize <= MaxBytes /\ OtherSize <= MaxBytes
    /\ None \notin Nat

VARIABLES
    pc,         \* "idle", "dial", a reply connect() waits for, or "ended"
    sock,       \* _sock is open
    connected,  \* _connected
    buf,        \* _buf
    robot,      \* "up", "moody" or "down"
    peer,       \* the robot's end: "none", "alive", "closed" or "vanished"
    asked,      \* the request it has not answered, or "none"
    streaming,  \* it accepted the start request
    wire,       \* bytes sent and not read
    next,       \* number of the next sample
    arrived,    \* observer: last sample of this connection read to its end
    published   \* observer: last sample of this connection on /joint_torques

client == <<pc, sock, connected, buf>>
server == <<robot, peer, asked, streaming, wire, next>>
observers == <<arrived, published>>
vars == <<client, server, observers>>

Samples == 0..(SampleNumbers - 1)
Size(kind) == IF kind = "data" THEN DataSize ELSE OtherSize
Packet(kind, n) == [i \in 1..Size(kind) |-> [kind |-> kind, n |-> n, at |-> i]]
Bytes == UNION {{Packet(kind, n)[i] : i \in 1..Size(kind)} :
                kind \in {"version", "outputs", "start", "text", "data"}, n \in Samples \cup {0, 1}}

Init ==
    /\ pc = "idle"
    /\ sock = FALSE
    /\ connected = FALSE
    /\ buf = <<>>
    /\ robot \in {"up", "down"}
    /\ peer = "none"
    /\ asked = "none"
    /\ streaming = FALSE
    /\ wire = <<>>
    /\ next = 0
    /\ arrived = None
    /\ published = None

-----------------------------------------------------------------------------
(* The robot.                                                              *)

RobotTurns(how) ==
    /\ how # robot
    /\ robot' = how
    /\ UNCHANGED <<client, peer, asked, streaming, wire, next, observers>>

\* Its end closes, or just vanishes; what was under way is cut off anywhere.
PeerEnds(how, k) ==
    /\ robot # "up"
    /\ peer = "alive"
    /\ peer' = how
    /\ wire' = SubSeq(wire, 1, k)
    /\ UNCHANGED <<client, robot, asked, streaming, next, observers>>

Sends(kind, n) ==
    /\ peer = "alive"
    /\ Len(buf) + Len(wire) + Size(kind) <= MaxBytes
    /\ wire' = wire \o Packet(kind, n)
    /\ UNCHANGED <<client, robot, peer, observers>>

\* ok = 0: NOT_FOUND for the outputs, or a start that is not accepted.
Answer(ok) ==
    /\ asked # "none"
    /\ ok = 1 \/ (robot = "moody" /\ asked # "version")
    /\ Sends(asked, ok)
    /\ streaming' = (asked = "start" /\ ok = 1)
    /\ asked' = "none"
    /\ UNCHANGED next

SendText ==
    /\ Sends("text", 0)
    /\ UNCHANGED <<asked, streaming, next>>

SendSample ==
    /\ streaming
    /\ Sends("data", next)
    /\ next' = (next + 1) % SampleNumbers
    /\ UNCHANGED <<asked, streaming>>

-----------------------------------------------------------------------------
(* connect and disconnect.                                                 *)

IsConnected == connected /\ sock

Disconnect ==
    /\ sock' = FALSE
    /\ connected' = FALSE
    /\ buf' = <<>>
    /\ peer' = "none"
    /\ asked' = "none"
    /\ streaming' = FALSE
    /\ wire' = <<>>

\* The reconnect timer; an unreachable port returns at once, with nothing done.
EnsureConnected ==
    /\ pc = "idle"
    /\ ~IsConnected
    /\ robot # "down"
    /\ pc' = "dial"
    /\ UNCHANGED <<sock, connected, buf, server, observers>>

Dial ==
    /\ pc = "dial"
    /\ robot # "down"
    /\ pc' = "version"
    /\ sock' = TRUE
    /\ peer' = "alive"
    /\ asked' = "version"
    /\ UNCHANGED <<connected, buf, robot, streaming, wire, next, observers>>

DialFails ==
    /\ pc = "dial"
    /\ robot # "up"
    /\ pc' = "idle"
    /\ Disconnect
    /\ UNCHANGED <<robot, next, observers>>

\* _recv_packet reads exactly one packet, header and payload, and no byte more.
AfterPacket == SubSeq(wire, OtherSize + 1, Len(wire))

Receives(kind) ==
    /\ pc \in {"version", "outputs", "start"}
    /\ wire # <<>>
    /\ Head(wire).kind = kind
    /\ Len(wire) >= Size(kind)

SkipPacket ==
    /\ Receives("text")
    /\ wire' = AfterPacket
    /\ UNCHANGED <<client, robot, peer, asked, streaming, next, observers>>

Granted(step, request) ==
    /\ pc = step
    /\ Receives(step)
    /\ Head(wire).n = 1
    /\ wire' = AfterPacket
    /\ pc' = request
    /\ asked' = request
    /\ UNCHANGED <<sock, connected, buf, robot, peer, streaming, next, observers>>

NegotiateVersion == Granted("version", "outputs")
SetupOutputs == Granted("outputs", "start")

Start ==
    /\ pc = "start"
    /\ Receives("start")
    /\ Head(wire).n = 1
    /\ wire' = AfterPacket
    /\ pc' = "idle"
    /\ buf' = <<>>
    /\ connected' = TRUE
    /\ arrived' = None
    /\ published' = None
    /\ UNCHANGED <<sock, robot, peer, asked, streaming, next>>

RefusedStaysOpen ==  \* mutant: return False without disconnect
    /\ pc \in {"outputs", "start"}
    /\ Receives(pc)
    /\ Head(wire).n = 0
    /\ pc' = "idle"
    /\ UNCHANGED <<sock, connected, buf, server, observers>>

Refused ==
    /\ pc \in {"outputs", "start"}
    /\ Receives(pc)
    /\ Head(wire).n = 0
    /\ pc' = "idle"
    /\ Disconnect
    /\ UNCHANGED <<robot, next, observers>>

\* An OSError: the 5 s timeout, a closed connection or a failed send.
HandshakeFails ==
    /\ pc \in {"version", "outputs", "start"}
    /\ robot # "up" \/ peer # "alive"
    /\ pc' = "idle"
    /\ Disconnect
    /\ UNCHANGED <<robot, next, observers>>

-----------------------------------------------------------------------------
(* get_torques and the publish timer.                                      *)

\* The two size bytes at offset i; zero stands for anything but a header.
SizeAt(b, i) == IF b[i + 1].at = 1 THEN Size(b[i + 1].kind) ELSE 0

\* Where the parser stops: at the first packet that is not all there.
ParsesOne(b) ==  \* mutant: if instead of while
    IF Len(b) >= HeaderSize /\ Len(b) >= SizeAt(b, 0) THEN SizeAt(b, 0) ELSE 0
Parsed(b) ==
    LET stop[i \in 0..Len(b)] ==
            IF \/ Len(b) - i < HeaderSize
               \/ SizeAt(b, i) < HeaderSize
               \/ Len(b) - i < SizeAt(b, i)
            THEN i ELSE stop[i + SizeAt(b, i)]
    IN  stop[0]

LatestSample(b, end) ==
    LET heads == {i \in 1..end : b[i].kind = "data" /\ b[i].at = 1}
    IN  IF heads = {} THEN None ELSE b[Max(heads)].n

DropsTail(b, end) == <<>>  \* mutant: the buffer is emptied after the parse
Residue(b, end) == SubSeq(b, end + 1, Len(b))

EndUnnoticed(k) == FALSE  \* mutant: an empty chunk taken for no data
ReadsEnd(k) == peer = "closed" /\ k = Len(wire)

\* The last sample that came to its end in the bytes read, as the wire sees it.
LastEnding(bytes) ==
    LET ends == {i \in DOMAIN bytes : bytes[i].kind = "data" /\ bytes[i].at = DataSize}
    IN  IF ends = {} THEN arrived ELSE bytes[Max(ends)].n

\* The first k bytes of the wire are there when the timer fires.
PublishTorques(k) ==
    /\ pc = "idle"
    /\ IsConnected
    /\ ~ReadsEnd(k)
    /\ LET b == buf \o SubSeq(wire, 1, k)
           sample == LatestSample(b, Parsed(b))
       IN  /\ buf' = Residue(b, Parsed(b))
           /\ published' = IF sample = None THEN published ELSE sample
    /\ arrived' = LastEnding(SubSeq(wire, 1, k))
    /\ wire' = SubSeq(wire, k + 1, Len(wire))
    /\ UNCHANGED <<pc, sock, connected, robot, peer, asked, streaming, next>>

\* The drained bytes are lost with the connection, whole packets among them.
ReadFails ==
    /\ pc = "idle"
    /\ IsConnected
    /\ ReadsEnd(Len(wire))
    /\ Disconnect
    /\ UNCHANGED <<pc, robot, next, observers>>

\* Ctrl-C, also in the middle of connect.
DestroyNode ==
    /\ pc # "ended"
    /\ pc' = "ended"
    /\ Disconnect
    /\ UNCHANGED <<robot, next, observers>>

-----------------------------------------------------------------------------
Connect == \/ EnsureConnected \/ Dial \/ DialFails \/ SkipPacket
           \/ NegotiateVersion \/ SetupOutputs \/ Start \/ Refused \/ HandshakeFails
Robot == \/ \E how \in {"up", "moody", "down"} : RobotTurns(how)
         \/ \E how \in {"closed", "vanished"}, k \in 0..Len(wire) : PeerEnds(how, k)
         \/ \E ok \in {0, 1} : Answer(ok)
         \/ SendText
         \/ SendSample

Next ==
    \/ Robot
    \/ Connect
    \/ \E k \in 0..Len(wire) : PublishTorques(k)
    \/ ReadFails
    \/ DestroyNode

Spec == Init /\ [][Next]_vars

\* The timers fire and connect() returns, TCP delivers what was sent, and a
\* robot answers and streams as soon as there is room, texts or no texts.
Fairness ==
    /\ WF_vars(Connect)
    /\ WF_vars(PublishTorques(Len(wire)) \/ ReadFails)
    /\ SF_vars(Answer(1))
    /\ SF_vars(SendSample)

FairSpec == Spec /\ Fairness

-----------------------------------------------------------------------------
\* Every variable has its type, and what the parser leaves in the buffer is
\* the beginning of one packet: no whole packet waits in it, and no packet
\* lost its header (lines 141-147).
TypeOK ==
    /\ pc \in {"idle", "dial", "version", "outputs", "start", "ended"}
    /\ sock \in BOOLEAN /\ connected \in BOOLEAN /\ streaming \in BOOLEAN
    /\ robot \in {"up", "moody", "down"}
    /\ peer \in {"none", "alive", "closed", "vanished"}
    /\ asked \in {"none", "version", "outputs", "start"}
    /\ wire \in Seq(Bytes)
    /\ buf \in Seq(Bytes)
    /\ buf # <<>> => Head(buf).at = 1 /\ Len(buf) < Size(Head(buf).kind)
    /\ next \in Samples
    /\ {arrived, published} \subseteq Samples \cup {None}

\* "so we always publish the freshest sample" (line 126): the last sample on
\* the topic is the last one of this connection that reached the client whole,
\* however TCP cuts the stream, whatever other packets lie between the samples
\* and however many sessions there were before.
FreshestSample == IsConnected => published = arrived

\* No attempt to connect that failed, and no read that failed, leaves a socket
\* behind: outside connect() the socket is open exactly while is_connected()
\* (lines 82-106, 135-138).
NoSocketLeak == pc \in {"idle", "dial", "ended"} => sock = connected

\* "keeps it connected" (torque_publisher_node.py:5): samples flow again after
\* any refusals, timeouts and closed connections, once the robot is up for
\* good -- unless its end vanished without closing, which the client never learns.
SamplesResume ==
    <>[](robot = "up" /\ peer # "vanished" /\ pc # "ended")
        => []<><<published' # published>>_vars
=============================================================================
