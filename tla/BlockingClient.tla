--------------------------- MODULE BlockingClient ---------------------------
(***************************************************************************)
(* The blocking client of mqtt-wasi (src/src/client.rs) with its handshake,*)
(* its transport and the broker.                                           *)
(*                                                                         *)
(* The client is sequential: it runs only inside a call of the application,*)
(* and a call spends its time in stream.read.  Messages, acknowledgements  *)
(* and time go on between calls too, unseen by the client.  Instants are   *)
(* ticks that remain or have passed, up to the bound they are compared     *)
(* with.  A write finishes within a tick or fails.                         *)
(***************************************************************************)
EXTENDS Integers, Sequences, FiniteSets

CONSTANTS
    Ops,                     \* calls of publish, subscribe and unsubscribe
    Request,                 \* what each of them asks for
    NoCall,                  \* not a call
    MaxPacketId,             \* 65535 in the code (u16::MAX)
    max_incoming_messages,   \* also the Receive Maximum sent in CONNECT
    PacketLimits,            \* Maximum Packet Sizes a CONNACK may carry
    ConnectTimeout,
    AckTimeout,
    KeepAlive,               \* of the CONNACK, or else of the options; 0 when disabled
    MessageQos,              \* QoS of the messages the broker may publish
    StrayBound,              \* packets with which a broker may break the protocol
    Hazards                  \* what may go wrong in this instance

AllHazards == {"break",      \* the transport fails
               "interrupt",  \* a read returns without data
               "reject",     \* the broker rejects a request, or the connection
               "leave",      \* the broker says DISCONNECT or closes the stream
               "stray",      \* the broker breaks the protocol
               "idle",       \* time passes between two calls of the application
               "disconnect"} \* the application disconnects

RequestKinds == {"PublishQos0", "PublishQos1", "Subscribe", "Unsubscribe"}

\* A request that is acknowledged is longer than a PUBACK or a PINGREQ (the shortest,
\* a PUBLISH with QoS 1, has eight bytes).
PubAckLen == 4       \* PUBACK without properties
ShortLen == 2        \* PINGREQ and DISCONNECT with reason code 0

ASSUME ClientAssumption ==
    /\ Request \in [Ops -> [kind : RequestKinds, len : Nat \ {0},
                            defect : {"none", "validate", "encode"}]]
    /\ \A o \in Ops : Request[o].kind # "PublishQos0" => Request[o].len > PubAckLen
    /\ {NoCall, "connect", "recv"} \cap Ops = {} /\ NoCall \notin {"connect", "recv"}
    /\ MaxPacketId \in Nat \ {0}
    /\ max_incoming_messages \in Nat \ {0}
    /\ PacketLimits \subseteq Nat \ {0} /\ PacketLimits # {}
    /\ ConnectTimeout \in Nat \ {0} /\ AckTimeout \in Nat \ {0}
    /\ KeepAlive \in Nat
    /\ MessageQos \in Seq({0, 1})
    /\ StrayBound \in Nat
    /\ Hazards \subseteq AllHazards

VARIABLES
    pc,              \* "new", "app" between two calls, "decode", "read", "gone"
    call,            \* the call in progress
    wait_id,         \* the identifier it sent
    deadline,        \* ticks until it gives up, or NoDeadline
    op,              \* what each call of Ops returned
    recv_result,     \* what the last call of recv returned
    received,        \* messages recv returned
    connected, incoming, next_packet_id, max_outbound_packet_size,
    idle,            \* ticks since last_write_at
    ping_age,        \* ticks since ping_sent_at
    inbound,         \* packets on their way to the client or in its frame reader
    framed,          \* how many of them are in the frame reader
    broker,          \* "listening", "connecting", "up" or "closed"
    unacked,         \* client packets the broker has to acknowledge
    acked,           \* operations the broker acknowledged with success
    pings_owed, published, pubacked,
    strays           \* packets with which the broker broke the protocol

callVars == <<pc, call, wait_id, deadline, op, recv_result>>
brokerVars == <<broker, unacked, acked, pings_owed, published, pubacked, strays>>
stateVars == <<received, connected, incoming, next_packet_id, idle, ping_age,
               max_outbound_packet_size>>
vars == <<callVars, stateVars, inbound, framed, brokerVars>>

----------------------------------------------------------------------------
NoPing == -1
NoDeadline == -1
MQTT_MAX_PACKET_SIZE == 268435460
PacketIds == 1..MaxPacketId

Failures == {"AckRejected", "Timeout", "QueueFull", "PacketTooLarge", "Invalid", "Io",
             "ClientClosed", "ConnectionClosed", "ServerDisconnected", "UnexpectedPacket",
             "Malformed", "KeepAliveTimeout", "ConnectionRefused"}
OpStates == {"idle", "waiting", "Ok"} \cup Failures
RecvResults == {"none", "Some", "None"} \cup Failures

PacketTypes == {"CONNACK", "PUBACK", "SUBACK", "UNSUBACK", "PUBLISH", "PINGRESP",
                "DISCONNECT", "OTHER", "BAD", "EOF"}
Codes == {"ok", "rejected", "malformed"}
Packet(type, id, o, code) == [type |-> type, id |-> id, op |-> o, code |-> code]
Packets == [type : PacketTypes, id : Nat, op : Ops \cup {NoCall}, code : Codes]
Frame(type, id, o, len) == [type |-> type, id |-> id, op |-> o, len |-> len]

AckTypeFor(type) == CASE type = "PUBLISH" -> "PUBACK" [] type = "SUBSCRIBE" -> "SUBACK"
                      [] type = "UNSUBSCRIBE" -> "UNSUBACK"
TypeFor(kind) == CASE kind \in {"PublishQos0", "PublishQos1"} -> "PUBLISH"
                   [] kind = "Subscribe" -> "SUBSCRIBE" [] kind = "Unsubscribe" -> "UNSUBSCRIBE"

NextId == IF next_packet_id = MaxPacketId THEN 1 ELSE next_packet_id + 1

----------------------------------------------------------------------------
(* The end of a call, and of what it sends.                                 *)

\* The call c returns; a failed connect leaves no client.
Answer(c, result) ==
    /\ pc' = IF c = "connect" /\ result # "Ok" THEN "gone" ELSE "app"
    /\ call' = NoCall /\ wait_id' = 0 /\ deadline' = NoDeadline
    /\ op' = IF c \in Ops THEN [op EXCEPT ![c] = result] ELSE op
    /\ recv_result' = IF c = "recv" THEN result ELSE recv_result
Returns(result) == Answer(call, result)

\* What the broker makes of a frame.
Deliver(frame) ==
    /\ broker' = IF frame.type = "CONNECT" /\ broker = "listening" THEN "connecting"
                 ELSE IF frame.type = "DISCONNECT" THEN "closed" ELSE broker
    /\ unacked' = IF broker = "up" /\ frame.id # 0 /\ frame.type # "PUBACK"
                  THEN unacked \cup {frame} ELSE unacked
    /\ pings_owed' = IF broker = "up" /\ frame.type = "PINGREQ" THEN pings_owed + 1
                     ELSE pings_owed
    /\ pubacked' = IF broker = "up" /\ frame.type = "PUBACK" THEN pubacked \cup {frame.id}
                   ELSE pubacked
    /\ UNCHANGED <<acked, published, strays>>

\* send_encoded: too large for the broker, written and flushed, or failed with
\* the frame at the broker or not.
TooLarge(len) == len > max_outbound_packet_size
Sent(frame) == /\ ~TooLarge(frame.len)
               /\ idle' = 0
               /\ Deliver(frame)
               /\ UNCHANGED connected
SendFails(frame) == /\ "break" \in Hazards
                    /\ ~TooLarge(frame.len)
                    /\ connected' = FALSE
                    /\ \/ Deliver(frame)
                       \/ UNCHANGED brokerVars
                    /\ UNCHANGED idle
\* map_write_result
WriteErrors == {"Io", "Timeout"}

----------------------------------------------------------------------------
(* Calls.                                                                   *)

\* connect_with: CONNECT, then read_packet_until the deadline for the CONNACK.
connect ==
    /\ pc = "new"
    /\ \/ /\ Sent(Frame("CONNECT", 0, NoCall, 1))
          /\ pc' = "decode" /\ call' = "connect" /\ deadline' = ConnectTimeout
          /\ UNCHANGED <<wait_id, op, recv_result>>
       \/ /\ SendFails(Frame("CONNECT", 0, NoCall, 1))
          /\ Answer("connect", "Io")
    /\ UNCHANGED <<received, incoming, next_packet_id, ping_age, inbound, framed,
                   max_outbound_packet_size>>

Calls(o, kinds) == pc = "app" /\ op[o] = "idle" /\ Request[o].kind \in kinds
Refuse(o, error) == Answer(o, error) /\ UNCHANGED <<connected, idle, brokerVars>>

\* What comes before the identifier: ensure_connected and the checks of the topic.
Refusal(o) == IF ~connected THEN "ClientClosed"
              ELSE IF Request[o].defect = "validate" THEN "Invalid" ELSE "none"
\* What comes after it: encode, and the size check of send_encoded.
Unsendable(o) == IF Request[o].defect = "encode" THEN "Invalid"
                 ELSE IF TooLarge(Request[o].len) THEN "PacketTooLarge" ELSE "none"

\* publish with QoS 0.
publish_qos0(o) ==
    LET frame == Frame("PUBLISH", 0, o, Request[o].len) IN
    /\ Calls(o, {"PublishQos0"})
    /\ \/ Refusal(o) # "none" /\ Refuse(o, Refusal(o))
       \/ /\ Refusal(o) = "none"
          /\ \/ Unsendable(o) # "none" /\ Refuse(o, Unsendable(o))
             \/ /\ Unsendable(o) = "none"
                /\ \/ Sent(frame) /\ Answer(o, "Ok")
                   \/ SendFails(frame) /\ \E error \in WriteErrors : Answer(o, error)
    /\ UNCHANGED <<received, incoming, next_packet_id, ping_age, inbound, framed,
                   max_outbound_packet_size>>

\* publish with QoS 1, subscribe and unsubscribe up to their wait.
call_acknowledged(o) ==
    LET frame == Frame(TypeFor(Request[o].kind), next_packet_id, o, Request[o].len) IN
    /\ Calls(o, RequestKinds \ {"PublishQos0"})
    /\ \/ /\ Refusal(o) # "none" /\ Refuse(o, Refusal(o))
          /\ UNCHANGED next_packet_id
       \/ /\ Refusal(o) = "none"
          /\ next_packet_id' = NextId
          /\ \/ Unsendable(o) # "none" /\ Refuse(o, Unsendable(o))
             \/ /\ Unsendable(o) = "none"
                /\ \/ SendFails(frame) /\ \E error \in WriteErrors : Answer(o, error)
                   \/ /\ Sent(frame)
                      /\ pc' = "decode" /\ call' = o /\ wait_id' = next_packet_id
                      /\ deadline' = AckTimeout
                      /\ op' = [op EXCEPT ![o] = "waiting"]
                      /\ UNCHANGED recv_result
    /\ UNCHANGED <<received, incoming, ping_age, inbound, framed, max_outbound_packet_size>>

Pop(queue) == [message |-> Head(queue), rest |-> Tail(queue)]

\* recv: a queued message, or a wait without a deadline.
recv ==
    /\ pc = "app"
    /\ \/ /\ ~connected
          /\ Answer("recv", "ClientClosed")
          /\ UNCHANGED stateVars
       \/ /\ connected /\ incoming # << >>
          /\ received' = Append(received, Pop(incoming).message)
          /\ incoming' = Pop(incoming).rest
          /\ Answer("recv", "Some")
          /\ UNCHANGED <<connected, next_packet_id, idle, ping_age, max_outbound_packet_size>>
       \/ /\ connected /\ incoming = << >>
          /\ pc' = "decode" /\ call' = "recv"
          /\ UNCHANGED <<wait_id, deadline, op, recv_result, stateVars>>
    /\ UNCHANGED <<inbound, framed, brokerVars>>

\* The client is consumed and the transport is shut down.
disconnect ==
    /\ "disconnect" \in Hazards
    /\ pc = "app"
    /\ pc' = "gone"
    /\ \/ connected /\ Sent(Frame("DISCONNECT", 0, NoCall, ShortLen))
       \/ connected /\ SendFails(Frame("DISCONNECT", 0, NoCall, ShortLen))
       \/ /\ ~connected \/ TooLarge(ShortLen)
          /\ UNCHANGED <<connected, idle, brokerVars>>
    /\ UNCHANGED <<call, wait_id, deadline, op, recv_result, received, incoming, next_packet_id,
                   ping_age, inbound, framed, max_outbound_packet_size>>

----------------------------------------------------------------------------
(* read_packet_until: decode a packet that is complete, or else serve the   *)
(* timers and read.                                                         *)

Waiting == call \in Ops
Decodes(types) == pc = "decode" /\ framed > 0 /\ Head(inbound).type \in types
Taken == inbound' = Tail(inbound) /\ framed' = framed - 1
NoTraffic == UNCHANGED <<idle, brokerVars>>
Messages == UNCHANGED <<received, incoming>>
SameLimit == UNCHANGED max_outbound_packet_size
KeepCall == UNCHANGED callVars

\* Mutant: no error of a wait ends the session.
Poison_never == UNCHANGED connected
\* The session ends with the call: what is still on its way would be taken for the
\* answer to a later call.
Poison == connected' = FALSE

\* A packet that does not decode.
DecodeFails == /\ Decodes({"BAD"})
               /\ Poison
               /\ Returns("Malformed")
               /\ Messages /\ NoTraffic /\ SameLimit
               /\ UNCHANGED <<next_packet_id, ping_age, inbound, framed>>

\* Mutant: the PINGREQ stays outstanding.
PingAnswered_kept == ping_age
PingAnswered == NoPing

DecodePingResp ==
    /\ Decodes({"PINGRESP"})
    /\ Taken
    /\ ping_age' = PingAnswered
    /\ IF call = "connect" THEN Returns("UnexpectedPacket") ELSE KeepCall
    /\ Messages /\ NoTraffic /\ SameLimit
    /\ UNCHANGED <<connected, next_packet_id>>

\* The CONNACK, with its Maximum Packet Size for an identifier: connect_with returns
\* the client, or drops it.
DecodeConnAck ==
    /\ Decodes({"CONNACK"}) /\ call = "connect"
    /\ Taken
    /\ LET code == Head(inbound).code
           limit == Head(inbound).id IN
       \/ /\ code = "ok" /\ limit # 0
          /\ max_outbound_packet_size' = limit
          /\ \/ connected' = TRUE /\ Returns("Ok")
             \/ "break" \in Hazards /\ UNCHANGED connected /\ Returns("Io")
       \/ /\ code = "rejected" \/ code = "malformed" \/ limit = 0
          /\ Returns(IF code = "rejected" THEN "ConnectionRefused" ELSE "Malformed")
          /\ UNCHANGED connected /\ SameLimit
    /\ Messages /\ NoTraffic
    /\ UNCHANGED <<next_packet_id, ping_age>>

\* The acknowledgement of the call that waits.
Matches(packet) == /\ Waiting
                   /\ packet.type = AckTypeFor(TypeFor(Request[call].kind))
                   /\ packet.id = wait_id
\* wait_for_puback, wait_for_suback and wait_for_unsuback; only the codes of the
\* last two can be malformed, and end the session.
DecodeAck ==
    /\ Decodes({"PUBACK", "SUBACK", "UNSUBACK"})
    /\ Matches(Head(inbound))
    /\ Taken
    /\ LET code == Head(inbound).code IN
       /\ connected' = (connected /\ code # "malformed")
       /\ Returns(CASE code = "ok" -> "Ok" [] code = "rejected" -> "AckRejected"
                    [] code = "malformed" -> "Malformed")
    /\ Messages /\ NoTraffic /\ SameLimit
    /\ UNCHANGED <<next_packet_id, ping_age>>

\* protocol_failure: what the call in progress has no use for.
DecodeUnexpected ==
    /\ \/ Decodes({"OTHER"})
       \/ Decodes({"CONNACK"}) /\ call # "connect"
       \/ Decodes({"PUBACK", "SUBACK", "UNSUBACK"}) /\ ~Matches(Head(inbound))
       \/ Decodes({"PUBLISH", "DISCONNECT"}) /\ call = "connect"
    /\ Taken
    /\ connected' = FALSE
    /\ Returns("UnexpectedPacket")
    /\ Messages /\ NoTraffic /\ SameLimit
    /\ UNCHANGED <<next_packet_id, ping_age>>

DecodeDisconnect ==
    /\ Decodes({"DISCONNECT"}) /\ call # "connect"
    /\ Taken
    /\ connected' = FALSE
    /\ Returns(IF Head(inbound).code # "ok" THEN "ServerDisconnected"
               ELSE IF call = "recv" THEN "None" ELSE "ConnectionClosed")
    /\ Messages /\ NoTraffic /\ SameLimit
    /\ UNCHANGED <<next_packet_id, ping_age>>

\* Mutant: a message that arrives during a wait is not kept.
Keeps_recv_only(m) == IF call = "recv" THEN Append(incoming, m) ELSE incoming
Keeps(m) == Append(incoming, m)

\* A message that is in the queue: recv returns the oldest, a wait goes on.
Accepted(m) ==
    IF call = "recv"
    THEN /\ received' = Append(received, Pop(Keeps(m)).message)
         /\ incoming' = Pop(Keeps(m)).rest
         /\ Returns("Some")
    ELSE incoming' = Keeps(m) /\ UNCHANGED received /\ KeepCall

IncomingFull == Len(incoming) >= max_incoming_messages

\* accept_publish, and accept_publish_during_ack, which ends the session when the
\* queue is full.
DecodePublish ==
    /\ Decodes({"PUBLISH"}) /\ call # "connect"
    /\ Taken
    /\ LET m == Head(inbound).id
           ack == Frame("PUBACK", m, NoCall, PubAckLen) IN
       \/ /\ IncomingFull
          /\ connected' = (connected /\ ~Waiting)
          /\ Returns("QueueFull")
          /\ Messages /\ NoTraffic
       \/ /\ ~IncomingFull /\ MessageQos[m] = 0
          /\ Accepted(m)
          /\ NoTraffic /\ UNCHANGED connected
       \/ /\ ~IncomingFull /\ MessageQos[m] = 1
          /\ \/ Sent(ack) /\ Accepted(m)
             \/ /\ SendFails(ack) /\ incoming' = Keeps(m) /\ UNCHANGED received
                /\ \E error \in WriteErrors : Returns(error)
             \/ /\ TooLarge(PubAckLen) /\ incoming' = Keeps(m) /\ UNCHANGED received
                /\ Returns("PacketTooLarge")
                /\ NoTraffic /\ UNCHANGED connected
    /\ SameLimit
    /\ UNCHANGED <<next_packet_id, ping_age>>

----------------------------------------------------------------------------
(* service_timers and the read it is followed by.                           *)

\* Mutant: the deadline is not looked at.
Expired_never == FALSE
Expired == deadline = 0
PingUnanswered == connected /\ ping_age >= AckTimeout
PingDue == connected /\ ping_age = NoPing /\ KeepAlive > 0 /\ idle >= KeepAlive
TimerStep == /\ pc = "decode" /\ framed = 0
             /\ Messages /\ SameLimit
             /\ UNCHANGED <<next_packet_id, inbound, framed>>
ToRead == pc' = "read" /\ UNCHANGED <<call, wait_id, deadline, op, recv_result>>

\* The deadline has passed: read_ack_packet ends the session.
TimeoutCall == /\ TimerStep /\ Expired
               /\ Poison
               /\ Returns("Timeout")
               /\ NoTraffic /\ UNCHANGED ping_age

TimeoutPing == /\ TimerStep /\ ~Expired /\ PingUnanswered
               /\ connected' = FALSE
               /\ Returns("KeepAliveTimeout")
               /\ NoTraffic /\ UNCHANGED ping_age

SendPing == /\ TimerStep /\ ~Expired /\ PingDue
            /\ LET ping == Frame("PINGREQ", 0, NoCall, ShortLen) IN
               \/ Sent(ping) /\ ping_age' = 0 /\ ToRead
               \/ /\ SendFails(ping) /\ UNCHANGED ping_age
                  /\ \E error \in WriteErrors : Returns(error)
               \/ /\ TooLarge(ShortLen) /\ Returns("PacketTooLarge")
                  /\ NoTraffic /\ UNCHANGED <<connected, ping_age>>

NoTimer == /\ TimerStep /\ ~Expired /\ ~PingUnanswered /\ ~PingDue
           /\ ToRead
           /\ NoTraffic /\ UNCHANGED <<connected, ping_age>>

\* Mutant: the read waits for the deadline of the call only.
WakeDue_deadline == Expired
\* next_read_timeout has run out.
WakeDue == Expired \/ PingUnanswered \/ PingDue

Readable(n) == \A i \in 1..n : inbound[i].type # "EOF"
ToDecode == pc' = "decode" /\ UNCHANGED <<call, wait_id, deadline, op, recv_result>>

ReadSome == /\ pc = "read"
            /\ \E n \in 1..Len(inbound) : Readable(n) /\ framed' = n
            /\ ToDecode
            /\ UNCHANGED <<stateVars, inbound, brokerVars>>

\* TimedOut or WouldBlock once the time is up; Interrupted, or part of a packet.
NoPacketRead == /\ pc = "read"
                /\ ToDecode
                /\ UNCHANGED <<stateVars, inbound, framed, brokerVars>>
ReadTimesOut == WakeDue /\ inbound = << >> /\ NoPacketRead
ReadInterrupted == "interrupt" \in Hazards /\ NoPacketRead

\* The read fails, or the stream has ended.
Disconnected(error) == /\ pc = "read"
                       /\ connected' = FALSE
                       /\ Returns(error)
                       /\ Messages /\ NoTraffic /\ SameLimit
                       /\ UNCHANGED <<next_packet_id, ping_age, inbound, framed>>
ReadFails == "break" \in Hazards /\ Disconnected("Io")
ReadEof == inbound # << >> /\ Head(inbound).type = "EOF" /\ Disconnected("ConnectionClosed")

----------------------------------------------------------------------------
(* Time and the broker.  A call that has data to read does not wait.         *)

Tick == /\ \/ pc = "app" /\ "idle" \in Hazards
           \/ pc = "read" /\ inbound = << >> /\ ~WakeDue
        /\ deadline' = IF deadline > 0 THEN deadline - 1 ELSE deadline
        /\ ping_age' = IF ping_age \in 0..AckTimeout - 1 THEN ping_age + 1 ELSE ping_age
        /\ idle' = IF connected /\ idle < KeepAlive + 1 THEN idle + 1 ELSE idle
        /\ UNCHANGED <<pc, call, wait_id, op, recv_result, received, connected, incoming,
                       next_packet_id, inbound, framed, max_outbound_packet_size, brokerVars>>

BrokerRuns == pc \in {"app", "read"}
BrokerSends(packet) == /\ inbound' = Append(inbound, packet)
                       /\ UNCHANGED <<callVars, stateVars, framed>>
BrokerUp == broker = "up" /\ BrokerRuns

\* A broker that refuses a connection closes it.
BrokerConnAck ==
    /\ BrokerRuns /\ broker = "connecting"
    /\ \E code \in {"ok", "rejected"}, limit \in PacketLimits :
         /\ code = "rejected" => "reject" \in Hazards
         /\ BrokerSends(Packet("CONNACK", limit, NoCall, code))
         /\ broker' = IF code = "rejected" THEN "closed" ELSE "up"
    /\ UNCHANGED <<unacked, acked, pings_owed, published, pubacked, strays>>

BrokerAck ==
    /\ BrokerUp
    /\ \E frame \in unacked, code \in {"ok", "rejected"} :
         /\ code = "ok" \/ "reject" \in Hazards
         /\ BrokerSends(Packet(AckTypeFor(frame.type), frame.id, frame.op, code))
         /\ unacked' = unacked \ {frame}
         /\ acked' = IF code = "ok" THEN acked \cup {frame.op} ELSE acked
    /\ UNCHANGED <<broker, pings_owed, published, pubacked, strays>>

\* The identifier of a PINGRESP is not on the wire: it says whether the answer
\* arrived in time.
InTime == 1
Late == 0
BrokerPingResp ==
    /\ BrokerUp /\ pings_owed > 0
    /\ BrokerSends(Packet("PINGRESP", IF ping_age < AckTimeout THEN InTime ELSE Late, NoCall, "ok"))
    /\ pings_owed' = pings_owed - 1
    /\ UNCHANGED <<broker, unacked, acked, published, pubacked, strays>>

UnackedMessages == {m \in 1..published : MessageQos[m] = 1} \ pubacked
BrokerPublish ==
    /\ BrokerUp /\ published < Len(MessageQos)
    /\ \/ MessageQos[published + 1] = 0
       \/ Cardinality(UnackedMessages) < max_incoming_messages
    /\ BrokerSends(Packet("PUBLISH", published + 1, NoCall, "ok"))
    /\ published' = published + 1
    /\ UNCHANGED <<broker, unacked, acked, pings_owed, pubacked, strays>>

\* DISCONNECT, normal or with an error, or just the end of the stream.
BrokerLeaves ==
    /\ "leave" \in Hazards /\ BrokerRuns /\ broker # "closed"
    /\ \/ BrokerSends(Packet("EOF", 0, NoCall, "ok"))
       \/ /\ broker = "up"
          /\ \E code \in {"ok", "rejected"} : BrokerSends(Packet("DISCONNECT", 0, NoCall, code))
    /\ broker' = "closed"
    /\ UNCHANGED <<unacked, acked, pings_owed, published, pubacked, strays>>

BrokerStrays ==
    /\ "stray" \in Hazards /\ BrokerRuns /\ broker \in {"connecting", "up"}
    /\ strays < StrayBound
    /\ \/ \E type \in {"OTHER", "BAD", "PINGRESP"} :
            BrokerSends(Packet(type, Late, NoCall, "ok"))
       \/ \E limit \in {0} \cup PacketLimits, code \in Codes :
            BrokerSends(Packet("CONNACK", limit, NoCall, code))
       \/ \E type \in {"PUBACK", "SUBACK", "UNSUBACK"}, id \in PacketIds, code \in Codes :
            /\ type = "PUBACK" => code # "malformed"
            /\ BrokerSends(Packet(type, id, NoCall, code))
    /\ strays' = strays + 1
    /\ UNCHANGED <<broker, unacked, acked, pings_owed, published, pubacked>>

----------------------------------------------------------------------------
Init == /\ pc = "new" /\ call = NoCall /\ wait_id = 0 /\ deadline = NoDeadline
        /\ op = [o \in Ops |-> "idle"] /\ recv_result = "none"
        /\ received = << >> /\ connected = FALSE /\ incoming = << >> /\ next_packet_id = 1
        /\ idle = 0 /\ ping_age = NoPing /\ inbound = << >> /\ framed = 0
        /\ broker = "listening" /\ unacked = {} /\ acked = {} /\ pings_owed = 0
        /\ published = 0 /\ pubacked = {} /\ strays = 0
        /\ max_outbound_packet_size = MQTT_MAX_PACKET_SIZE

Application == connect \/ recv \/ disconnect \/ \E o \in Ops : publish_qos0(o) \/ call_acknowledged(o)
Decode == \/ DecodeFails \/ DecodePingResp \/ DecodeConnAck \/ DecodeAck \/ DecodeUnexpected
          \/ DecodeDisconnect \/ DecodePublish
Timers == TimeoutCall \/ TimeoutPing \/ SendPing \/ NoTimer
Reads == ReadSome \/ ReadTimesOut \/ ReadInterrupted \/ ReadEof \/ ReadFails
Broker == \/ BrokerConnAck \/ BrokerAck \/ BrokerPingResp \/ BrokerPublish \/ BrokerLeaves
          \/ BrokerStrays
Gone == pc = "gone" /\ UNCHANGED vars

Next == Application \/ Decode \/ Timers \/ Reads \/ Broker \/ Tick \/ Gone

Spec == Init /\ [][Next]_vars

\* A call in progress goes on, a read whose time is up returns, a read with something
\* to return returns it in the end, and time passes.
FairSpec == /\ Spec
            /\ WF_vars(Decode \/ Timers \/ ReadTimesOut)
            /\ SF_vars(ReadSome \/ ReadEof)
            /\ SF_vars(Tick)

----------------------------------------------------------------------------
(* Properties.                                                              *)

\* Every variable has its type, and the identifier is that of the call in progress.
TypeOK == /\ pc \in {"new", "app", "decode", "read", "gone"}
          /\ call \in Ops \cup {NoCall, "connect", "recv"}
          /\ wait_id \in Nat /\ (Waiting => wait_id \in PacketIds)
          /\ deadline \in -1..ConnectTimeout + AckTimeout
          /\ op \in [Ops -> OpStates] /\ recv_result \in RecvResults
          /\ received \in Seq(Nat) /\ incoming \in Seq(Nat)
          /\ Len(incoming) <= max_incoming_messages
          /\ max_outbound_packet_size \in PacketLimits \cup {MQTT_MAX_PACKET_SIZE}
          /\ strays \in 0..StrayBound /\ connected \in BOOLEAN /\ next_packet_id \in PacketIds
          /\ idle \in 0..KeepAlive + 1 /\ ping_age \in -1..AckTimeout
          /\ inbound \in Seq(Packets) /\ framed \in 0..Len(inbound)
          /\ broker \in {"listening", "connecting", "up", "closed"}
          /\ acked \subseteq Ops /\ pings_owed \in Nat
          /\ published \in 0..Len(MessageQos) /\ pubacked \subseteq 1..published

Acknowledged(o) == Request[o].kind # "PublishQos0"
AckTypes == {"PUBACK", "SUBACK", "UNSUBACK"}

\* publish with QoS 1, subscribe and unsubscribe return Ok only when the broker
\* acknowledged this very call, also when identifiers are used again.
OkMeansAcked == strays = 0 => \A o \in Ops : Acknowledged(o) /\ op[o] = "Ok" => o \in acked

\* Between two calls of a session no acknowledgement is on its way: a call that ends
\* without it ends the session (read_ack_packet, accept_publish_during_ack).
NoAckOutstanding ==
    pc = "app" /\ connected =>
        unacked = {} /\ \A i \in DOMAIN inbound : inbound[i].type \notin AckTypes

\* No packet of a broker that keeps to the protocol is taken for a violation of it, since
\* no acknowledgement outlasts the call that waits for it.
BrokerNotAccused == strays = 0 => /\ NoAckOutstanding
                                /\ \A o \in Ops : op[o] \notin {"UnexpectedPacket", "Malformed"}
                                /\ recv_result \notin {"UnexpectedPacket", "Malformed"}

MessagesOf(packets) ==
    LET publishes == SelectSeq(packets, LAMBDA packet : packet.type = "PUBLISH")
    IN  [i \in DOMAIN publishes |-> publishes[i].id]

\* During a session recv returns every message once and in order: those it returned,
\* the queued ones and those in transit are all that the broker published.  Whatever
\* becomes of the session, a message the client acknowledged was returned or is queued.
MessagesKept ==
    /\ connected => received \o incoming \o MessagesOf(inbound) = [m \in 1..published |-> m]
    /\ \A m \in pubacked : \E i \in DOMAIN (received \o incoming) : (received \o incoming)[i] = m

\* Messages that were put in the queue are returned later (DESIGN.md: "returned to
\* the caller later"), so a recv that finds the session ended has returned them all.
QueuedMessagesReturned == recv_result = "ClientClosed" => incoming = << >>

\* The call in progress fails with that error in this step.
FailsWith(error) == \/ call = "recv" /\ pc = "decode" /\ pc' = "app" /\ recv_result' = error
                    \/ Waiting /\ op[call] # error /\ op'[call] = error

\* A call reports "broker did not answer PINGREQ" only when it did not, or too late.
KeepAliveJustified ==
    [][FailsWith("KeepAliveTimeout") =>
            \/ pings_owed > 0 \/ broker = "closed"
            \/ \E i \in DOMAIN inbound : inbound[i].type = "PINGRESP" /\ inbound[i].id = Late]_vars

\* During a call the client is silent for no longer than the keep-alive interval,
\* except while a PINGREQ is unanswered.
SilenceBounded ==
    connected /\ pc = "read" /\ KeepAlive > 0 /\ ping_age = NoPing => idle <= KeepAlive

\* connect, and each call that waits for an acknowledgement, returns, whatever the
\* broker does not do.
CallsReturn == \A c \in Ops \cup {"connect"} : call = c ~> call # c
=============================================================================
