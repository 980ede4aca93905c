---------------------- MODULE BlockingClientTypeProofs ----------------------
(***************************************************************************)
(* Proofs about BlockingClient for every set of calls, every limit and     *)
(* every bound: its types, and that a call does not let the connection     *)
(* fall silent.                                                            *)
(***************************************************************************)
EXTENDS BlockingClient, SequenceTheorems, TLAPS

----------------------------------------------------------------------------
(* Types.                                                                   *)

CallTypes == /\ pc \in {"new", "app", "decode", "read", "gone"}
             /\ call \in Ops \cup {NoCall, "connect", "recv"}
             /\ wait_id \in Nat /\ (Waiting => wait_id \in PacketIds)
             /\ deadline \in -1..ConnectTimeout + AckTimeout
             /\ op \in [Ops -> OpStates] /\ recv_result \in RecvResults

QueueTypes == /\ received \in Seq(Nat) /\ incoming \in Seq(Nat)
              /\ Len(incoming) <= max_incoming_messages

ClientTypes == /\ max_outbound_packet_size \in PacketLimits \cup {MQTT_MAX_PACKET_SIZE}
               /\ connected \in BOOLEAN /\ next_packet_id \in PacketIds
               /\ idle \in 0..KeepAlive + 1 /\ ping_age \in -1..AckTimeout

\* A PUBLISH is one of the messages the broker published, and a CONNACK carries a limit.
PacketOK(packet, n) ==
    /\ packet.type = "PUBLISH" => packet.id \in 1..n
    /\ packet.type = "CONNACK" => packet.id \in {0} \cup PacketLimits
WireTypes == /\ inbound \in Seq(Packets) /\ framed \in 0..Len(inbound)
             /\ \A i \in DOMAIN inbound : PacketOK(inbound[i], published)

Requests == [type : {"PUBLISH", "SUBSCRIBE", "UNSUBSCRIBE"}, id : PacketIds, op : Ops, len : Nat]
BrokerTypes == /\ broker \in {"listening", "connecting", "up", "closed"}
               /\ strays \in 0..StrayBound
               /\ acked \subseteq Ops /\ pings_owed \in Nat
               /\ published \in 0..Len(MessageQos) /\ pubacked \subseteq 1..published
               /\ unacked \subseteq Requests

\* TypeOK with the types of what is on its way, without which it is not inductive.
Types == CallTypes /\ QueueTypes /\ ClientTypes /\ WireTypes /\ BrokerTypes

\* A client that is about to connect.
LEMMA TypesInit == Init => Types
<1> SUFFICES ASSUME Init PROVE Types
  OBVIOUS
<1> USE ClientAssumption DEF Init
<1>1. CallTypes
  BY DEF CallTypes, NoDeadline, OpStates, RecvResults, Waiting
<1>2. QueueTypes /\ ClientTypes
  <2>1. QueueTypes
    BY DEF QueueTypes
  <2>2. idle \in 0..KeepAlive + 1 /\ ping_age \in -1..AckTimeout /\ next_packet_id \in PacketIds
    BY DEF PacketIds, NoPing
  <2> QED BY <2>1, <2>2 DEF ClientTypes
<1>3. WireTypes
  <2>1. inbound \in Seq(Packets) /\ Len(inbound) = 0 /\ DOMAIN inbound = {}
    OBVIOUS
  <2> QED BY <2>1 DEF WireTypes
<1>4. BrokerTypes
  BY DEF BrokerTypes
<1> QED BY <1>1, <1>2, <1>3, <1>4 DEF Types

\* What a call returns has the type of its result.
LEMMA AnswerTypes ==
    ASSUME CallTypes, NEW c \in Ops \cup {NoCall, "connect", "recv"}, NEW result,
           c \in Ops => result \in OpStates, c = "recv" => result \in RecvResults,
           Answer(c, result)
    PROVE  CallTypes' /\ call' = NoCall /\ pc' \in {"app", "gone"}
<1> USE ClientAssumption
<1>1. op' \in [Ops -> OpStates]
  BY DEF CallTypes, Answer
<1>2. recv_result' \in RecvResults
  BY DEF CallTypes, Answer
<1>3. deadline' \in -1..ConnectTimeout + AckTimeout
  BY DEF Answer, NoDeadline
<1>4. pc' \in {"app", "gone"} /\ call' = NoCall /\ wait_id' = 0
  BY DEF Answer
<1> QED BY <1>1, <1>2, <1>3, <1>4 DEF CallTypes, Waiting

\* Every failure is a result of every call.
LEMMA FailureTypes ==
    ASSUME CallTypes, NEW c \in Ops \cup {NoCall, "connect", "recv"}, NEW result \in Failures,
           Answer(c, result)
    PROVE  CallTypes' /\ call' = NoCall /\ pc' \in {"app", "gone"}
BY AnswerTypes DEF OpStates, RecvResults

\* The broker gets a frame of the client.
LEMMA DeliverTypes ==
    ASSUME BrokerTypes, NEW frame, Deliver(frame),
           frame.id # 0 /\ frame.type # "PUBACK" => frame \in Requests,
           frame.type = "PUBACK" => frame.id \in 1..published
    PROVE  BrokerTypes' /\ published' = published
<1>1. UNCHANGED <<acked, published, strays>>
  BY DEF Deliver
<1>2. broker' \in {"listening", "connecting", "up", "closed"}
  BY DEF Deliver, BrokerTypes
<1>3. unacked' \subseteq Requests
  BY DEF Deliver, BrokerTypes
<1>4. pings_owed' \in Nat
  BY DEF Deliver, BrokerTypes
<1>5. pubacked' \subseteq 1..published
  BY DEF Deliver, BrokerTypes
<1> QED BY <1>1, <1>2, <1>3, <1>4, <1>5 DEF BrokerTypes

\* A frame that is sent, or fails.
LEMMA SendTypes ==
    ASSUME BrokerTypes, ClientTypes, NEW frame, Sent(frame) \/ SendFails(frame),
           UNCHANGED <<max_outbound_packet_size, next_packet_id>>,
           ping_age' \in -1..AckTimeout,
           frame.id # 0 /\ frame.type # "PUBACK" => frame \in Requests,
           frame.type = "PUBACK" => frame.id \in 1..published
    PROVE  BrokerTypes' /\ ClientTypes' /\ published' = published
<1>1. BrokerTypes' /\ published' = published
  <2>1. CASE Deliver(frame)
    BY <2>1, DeliverTypes
  <2>2. CASE UNCHANGED brokerVars
    BY <2>2 DEF brokerVars, BrokerTypes
  <2> QED BY <2>1, <2>2 DEF Sent, SendFails
<1>2. ClientTypes'
  <2>1. idle' \in 0..KeepAlive + 1
    BY ClientAssumption DEF Sent, SendFails, ClientTypes
  <2>2. connected' \in BOOLEAN
    BY DEF Sent, SendFails, ClientTypes
  <2> QED BY <2>1, <2>2 DEF ClientTypes
<1> QED BY <1>1, <1>2

\* A packet leaves the stream.
LEMMA TakenTypes ==
    ASSUME WireTypes, framed > 0, Taken, published' = published
    PROVE  /\ WireTypes'
           /\ inbound # << >> /\ Head(inbound) = inbound[1] /\ 1 \in DOMAIN inbound
           /\ \A i \in DOMAIN inbound' : i + 1 \in DOMAIN inbound /\ inbound'[i] = inbound[i + 1]
<1>1. inbound \in Seq(Packets) /\ Len(inbound) \in Nat /\ Len(inbound) > 0 /\ framed \in Nat
      /\ framed <= Len(inbound)
  BY DEF WireTypes
<1>2. inbound # << >> /\ Head(inbound) = inbound[1] /\ 1 \in DOMAIN inbound
  BY <1>1
<1>3. inbound' = Tail(inbound) /\ framed' = framed - 1
  BY DEF Taken
<1>4. inbound' \in Seq(Packets) /\ Len(inbound') = Len(inbound) - 1
  BY <1>1, <1>2, <1>3
<1>5. \A i \in DOMAIN inbound' : i + 1 \in DOMAIN inbound /\ inbound'[i] = inbound[i + 1]
  BY <1>1, <1>2, <1>3
<1>6. framed' \in 0..Len(inbound')
  BY <1>1, <1>3, <1>4
<1>7. \A i \in DOMAIN inbound' : PacketOK(inbound'[i], published')
  BY <1>5 DEF WireTypes, PacketOK
<1> QED BY <1>2, <1>4, <1>5, <1>6, <1>7 DEF WireTypes

\* A packet comes into the stream.
LEMMA AppendTypes ==
    ASSUME WireTypes, NEW packet \in Packets, inbound' = Append(inbound, packet),
           framed' = framed, published \in Nat, published' \in Nat, published' >= published,
           PacketOK(packet, published')
    PROVE  /\ WireTypes'
           /\ \A i \in DOMAIN inbound' :
                \/ i \in DOMAIN inbound /\ inbound'[i] = inbound[i]
                \/ i = Len(inbound) + 1 /\ inbound'[i] = packet
<1>1. inbound \in Seq(Packets) /\ Len(inbound) \in Nat /\ framed \in 0..Len(inbound)
  BY DEF WireTypes
<1>2. inbound' \in Seq(Packets) /\ Len(inbound') = Len(inbound) + 1
  BY <1>1
<1>3. \A i \in DOMAIN inbound' :
        \/ i \in DOMAIN inbound /\ inbound'[i] = inbound[i]
        \/ i = Len(inbound) + 1 /\ inbound'[i] = packet
  BY <1>1, <1>2
<1>4. framed' \in 0..Len(inbound')
  BY <1>1, <1>2
<1>5. \A p : PacketOK(p, published) => PacketOK(p, published')
  BY DEF PacketOK
<1>6. \A i \in DOMAIN inbound' : PacketOK(inbound'[i], published')
  BY <1>3, <1>5 DEF WireTypes, PacketOK
<1> QED BY <1>2, <1>3, <1>4, <1>6 DEF WireTypes

\* The calls of the application keep the types.
LEMMA ApplicationTypes == Types /\ Application => Types'
<1> SUFFICES ASSUME Types, Application PROVE Types'
  OBVIOUS
<1> USE ClientAssumption
<1>1. CASE connect
  <2> DEFINE frame == Frame("CONNECT", 0, NoCall, 1)
  <2>1. frame.id = 0 /\ frame.type = "CONNECT"
    BY DEF Frame
  <2> HIDE DEF frame
  <2>2. /\ Sent(frame) \/ SendFails(frame)
        /\ UNCHANGED <<received, incoming, next_packet_id, ping_age, inbound, framed,
                      max_outbound_packet_size>>
    BY <1>1 DEF connect, frame
  <2>3. BrokerTypes' /\ ClientTypes' /\ published' = published
    BY <2>1, <2>2, SendTypes DEF Types, ClientTypes
  <2>4. QueueTypes' /\ WireTypes'
    BY <2>2, <2>3 DEF Types, QueueTypes, WireTypes
  <2>5. CallTypes'
    <3>1. CASE Answer("connect", "Io")
      BY <3>1, FailureTypes DEF Types, Failures
    <3>2. CASE /\ pc' = "decode" /\ call' = "connect" /\ deadline' = ConnectTimeout
               /\ UNCHANGED <<wait_id, op, recv_result>>
      BY <3>2 DEF Types, CallTypes, Waiting
    <3> QED BY <1>1, <3>1, <3>2 DEF connect
  <2> QED BY <2>3, <2>4, <2>5 DEF Types
<1>2. ASSUME NEW o \in Ops, publish_qos0(o) PROVE Types'
  <2> DEFINE frame == Frame("PUBLISH", 0, o, Request[o].len)
  <2>1. frame.id = 0 /\ frame.type = "PUBLISH"
    BY DEF Frame
  <2> HIDE DEF frame
  <2>2. UNCHANGED <<received, incoming, next_packet_id, ping_age, inbound, framed,
                    max_outbound_packet_size>>
    BY <1>2 DEF publish_qos0
  <2>3. CASE \E error \in Failures : Refuse(o, error)
    BY <2>2, <2>3, FailureTypes
       DEF Refuse, Types, QueueTypes, WireTypes, ClientTypes, BrokerTypes, brokerVars
  <2>4. CASE (Sent(frame) \/ SendFails(frame)) /\ \E result \in {"Ok"} \cup WriteErrors : Answer(o, result)
    <3>1. BrokerTypes' /\ ClientTypes' /\ published' = published
      BY <2>1, <2>2, <2>4, SendTypes DEF Types, ClientTypes
    <3>2. CallTypes'
      BY <2>4, AnswerTypes DEF WriteErrors, OpStates, Failures, Types
    <3> QED BY <3>1, <3>2, <2>2 DEF Types, QueueTypes, WireTypes
  <2> QED BY <1>2, <2>3, <2>4 DEF publish_qos0, Refusal, Unsendable, Failures, frame
<1>3. ASSUME NEW o \in Ops, call_acknowledged(o) PROVE Types'
  <2> DEFINE frame == Frame(TypeFor(Request[o].kind), next_packet_id, o, Request[o].len)
  <2>1. frame \in Requests /\ frame.type # "PUBACK"
    BY <1>3 DEF Frame, TypeFor, Requests, Calls, call_acknowledged, RequestKinds, Types, ClientTypes
  <2>2. UNCHANGED <<received, incoming, ping_age, inbound, framed, max_outbound_packet_size>>
    BY <1>3 DEF call_acknowledged
  <2>3. NextId \in PacketIds
    BY DEF NextId, PacketIds, Types, ClientTypes
  <2> HIDE DEF frame
  <2>4. CASE /\ \E error \in Failures : Refuse(o, error)
             /\ next_packet_id' \in {next_packet_id, NextId}
    BY <2>2, <2>3, <2>4, FailureTypes
       DEF Refuse, Types, QueueTypes, WireTypes, ClientTypes, BrokerTypes, brokerVars
  <2>5. CASE /\ next_packet_id' = NextId
             /\ \/ SendFails(frame) /\ \E error \in WriteErrors : Answer(o, error)
                \/ /\ Sent(frame)
                   /\ pc' = "decode" /\ call' = o /\ wait_id' = next_packet_id
                   /\ deadline' = AckTimeout
                   /\ op' = [op EXCEPT ![o] = "waiting"]
                   /\ UNCHANGED recv_result
    <3>1. BrokerTypes' /\ published' = published
      <4>1. CASE Deliver(frame)
        BY <4>1, <2>1, DeliverTypes DEF Types
      <4>2. CASE UNCHANGED brokerVars
        BY <4>2 DEF brokerVars, BrokerTypes, Types
      <4> QED BY <2>5, <4>1, <4>2 DEF Sent, SendFails
    <3>2. ClientTypes'
      <4>1. idle' \in 0..KeepAlive + 1
        BY <2>5 DEF Sent, SendFails, ClientTypes, Types
      <4>2. connected' \in BOOLEAN
        BY <2>5 DEF Sent, SendFails, ClientTypes, Types
      <4> QED BY <2>2, <2>3, <2>5, <4>1, <4>2 DEF ClientTypes, Types
    <3>3. CallTypes'
      <4>1. CASE \E error \in WriteErrors : Answer(o, error)
        BY <4>1, FailureTypes DEF WriteErrors, Failures, Types
      <4>2. CASE /\ pc' = "decode" /\ call' = o /\ wait_id' = next_packet_id
                 /\ deadline' = AckTimeout
                 /\ op' = [op EXCEPT ![o] = "waiting"]
                 /\ UNCHANGED recv_result
        BY <4>2 DEF Types, CallTypes, ClientTypes, PacketIds, OpStates, Waiting
      <4> QED BY <2>5, <4>1, <4>2
    <3> QED BY <3>1, <3>2, <3>3, <2>2 DEF Types, QueueTypes, WireTypes
  <2> QED BY <1>3, <2>4, <2>5 DEF call_acknowledged, Refusal, Unsendable, Failures, frame
<1>4. CASE recv
  <2>1. UNCHANGED <<inbound, framed, brokerVars>>
    BY <1>4 DEF recv
  <2>2. ClientTypes' /\ WireTypes' /\ BrokerTypes'
    BY <1>4, <2>1 DEF recv, stateVars, brokerVars, Types, ClientTypes, WireTypes, BrokerTypes
  <2>3. QueueTypes'
    <3>1. CASE incoming # << >> /\ received' = Append(received, Pop(incoming).message)
               /\ incoming' = Pop(incoming).rest
      BY <3>1 DEF Pop, QueueTypes, Types
    <3>2. CASE UNCHANGED stateVars
      BY <3>2 DEF stateVars, QueueTypes, Types
    <3> QED BY <1>4, <3>1, <3>2 DEF recv
  <2>4. CallTypes'
    <3>1. CASE Answer("recv", "ClientClosed") \/ Answer("recv", "Some")
      BY <3>1, AnswerTypes DEF Types, RecvResults, Failures
    <3>2. CASE /\ pc' = "decode" /\ call' = "recv"
               /\ UNCHANGED <<wait_id, deadline, op, recv_result>>
      BY <3>2 DEF Types, CallTypes, Waiting
    <3> QED BY <1>4, <3>1, <3>2 DEF recv
  <2> QED BY <2>2, <2>3, <2>4 DEF Types
<1>5. CASE disconnect
  <2> DEFINE frame == Frame("DISCONNECT", 0, NoCall, ShortLen)
  <2>1. frame.id = 0 /\ frame.type = "DISCONNECT"
    BY DEF Frame
  <2> HIDE DEF frame
  <2>2. /\ Sent(frame) \/ SendFails(frame) \/ UNCHANGED <<connected, idle, brokerVars>>
        /\ pc' = "gone"
        /\ UNCHANGED <<call, wait_id, deadline, op, recv_result, received, incoming, next_packet_id,
                      ping_age, inbound, framed, max_outbound_packet_size>>
    BY <1>5 DEF disconnect, frame
  <2>3. BrokerTypes' /\ ClientTypes' /\ published' = published
    <3>1. CASE Sent(frame) \/ SendFails(frame)
      BY <3>1, <2>1, <2>2, SendTypes DEF Types, ClientTypes
    <3>2. CASE UNCHANGED <<connected, idle, brokerVars>>
      BY <3>2, <2>2 DEF brokerVars, BrokerTypes, ClientTypes, Types
    <3> QED BY <2>2, <3>1, <3>2
  <2> QED BY <2>2, <2>3 DEF Types, QueueTypes, WireTypes, CallTypes, Waiting
<1> QED BY <1>1, <1>2, <1>3, <1>4, <1>5 DEF Application

\* The call in progress, and no call, are arguments of Answer.
LEMMA CallKnown == CallTypes => call \in Ops \cup {NoCall, "connect", "recv"}
BY DEF CallTypes

\* A message comes to the queue.
LEMMA QueueGrows ==
    ASSUME NEW queue \in Seq(Nat), NEW m \in Nat
    PROVE  /\ Append(queue, m) \in Seq(Nat)
           /\ Len(Append(queue, m)) = Len(queue) + 1
           /\ Append(queue, m) # << >>
BY AppendProperties

\* Decoding a packet keeps the types.
LEMMA DecodeTypes == Types /\ Decode => Types'
<1> SUFFICES ASSUME Types, Decode PROVE Types'
  OBVIOUS
<1> USE ClientAssumption
<1>1. CASE DecodeFails
  <2>1. CallTypes'
    BY <1>1, FailureTypes, CallKnown DEF DecodeFails, Returns, Failures, Types
  <2> QED BY <1>1, <2>1 DEF DecodeFails, Poison, Messages, NoTraffic, SameLimit, Types,
                             QueueTypes, ClientTypes, WireTypes, BrokerTypes, brokerVars
<1>2. ASSUME Taken, framed > 0, NoTraffic, Messages, CallTypes', ClientTypes'
      PROVE  Types'
  <2>1. published' = published /\ BrokerTypes' /\ QueueTypes'
    BY <1>2 DEF NoTraffic, Messages, brokerVars, Types, BrokerTypes, QueueTypes
  <2>2. WireTypes'
    BY <1>2, <2>1, TakenTypes DEF Types
  <2> QED BY <1>2, <2>1, <2>2 DEF Types
<1>3. CASE DecodePingResp
  <2>1. CallTypes'
    BY <1>3, FailureTypes, CallKnown DEF DecodePingResp, Returns, Failures, Types, KeepCall, callVars,
                                   CallTypes, Waiting
  <2>2. ClientTypes'
    BY <1>3 DEF DecodePingResp, NoTraffic, SameLimit, PingAnswered, NoPing, Types, ClientTypes
  <2> QED BY <1>3, <1>2, <2>1, <2>2 DEF DecodePingResp, Decodes
<1>4. CASE DecodeConnAck
  <2>1. call = "connect" /\ "connect" \notin Ops /\ "connect" # "recv"
    BY <1>4 DEF DecodeConnAck
  <2>2. CallTypes'
    <3>1. PICK result : Answer(call, result)
      BY <1>4 DEF DecodeConnAck, Returns
    <3> QED BY <3>1, <2>1, AnswerTypes DEF Types
  <2>3. Head(inbound).id \in {0} \cup PacketLimits
    <3>1. inbound \in Seq(Packets) /\ Len(inbound) > 0
      BY <1>4 DEF DecodeConnAck, Decodes, Types, WireTypes
    <3>2. 1 \in DOMAIN inbound /\ Head(inbound) = inbound[1]
      BY <3>1
    <3> QED BY <3>2, <1>4 DEF DecodeConnAck, Decodes, Types, WireTypes, PacketOK
  <2>4. ClientTypes'
    <3>1. max_outbound_packet_size' \in PacketLimits \cup {MQTT_MAX_PACKET_SIZE}
      BY <1>4, <2>3 DEF DecodeConnAck, SameLimit, Types, ClientTypes
    <3>2. connected' \in BOOLEAN
      BY <1>4 DEF DecodeConnAck, Types, ClientTypes
    <3> QED BY <1>4, <3>1, <3>2 DEF DecodeConnAck, NoTraffic, Types, ClientTypes
  <2> QED BY <1>4, <1>2, <2>2, <2>4 DEF DecodeConnAck, Decodes
<1>5. CASE DecodeAck
  <2>1. call \in Ops
    BY <1>5 DEF DecodeAck, Matches, Waiting
  <2>2. Head(inbound).code \in Codes
    <3>1. inbound \in Seq(Packets) /\ Len(inbound) > 0
      BY <1>5 DEF DecodeAck, Decodes, Types, WireTypes
    <3>2. Head(inbound) \in Packets
      BY <3>1
    <3> QED BY <3>2 DEF Packets
  <2>3. \E result \in OpStates : Answer(call, result)
    BY <1>5, <2>2 DEF DecodeAck, Returns, OpStates, Failures, Codes
  <2>4. CallTypes'
    BY <2>1, <2>3, AnswerTypes DEF Types
  <2>5. ClientTypes'
    BY <1>5 DEF DecodeAck, NoTraffic, SameLimit, Types, ClientTypes
  <2> QED BY <1>5, <1>2, <2>4, <2>5 DEF DecodeAck, Decodes
<1>6. CASE DecodeUnexpected
  <2>1. CallTypes'
    BY <1>6, FailureTypes, CallKnown DEF DecodeUnexpected, Returns, Failures, Types
  <2>2. ClientTypes'
    BY <1>6 DEF DecodeUnexpected, NoTraffic, SameLimit, Types, ClientTypes
  <2> QED BY <1>6, <1>2, <2>1, <2>2 DEF DecodeUnexpected, Decodes
<1>7. CASE DecodeDisconnect
  <2>1. \/ \E result \in Failures : Answer(call, result)
        \/ call = "recv" /\ Answer(call, "None")
    BY <1>7 DEF DecodeDisconnect, Returns, Failures
  <2>2. CallTypes'
    BY <2>1, FailureTypes, AnswerTypes, CallKnown DEF Types, RecvResults
  <2>3. ClientTypes'
    BY <1>7 DEF DecodeDisconnect, NoTraffic, SameLimit, Types, ClientTypes
  <2> QED BY <1>7, <1>2, <2>2, <2>3 DEF DecodeDisconnect, Decodes
<1>8. CASE DecodePublish
  <2> DEFINE m == Head(inbound).id
             ack == Frame("PUBACK", m, NoCall, PubAckLen)
  <2>1. m \in 1..published /\ m \in Nat /\ published \in Nat
    <3>1. inbound \in Seq(Packets) /\ Len(inbound) > 0
      BY <1>8 DEF DecodePublish, Decodes, Types, WireTypes
    <3>2. 1 \in DOMAIN inbound /\ Head(inbound) = inbound[1]
      BY <3>1
    <3> QED BY <3>2, <1>8 DEF DecodePublish, Decodes, Types, WireTypes, PacketOK, BrokerTypes
  <2>2. ack.id = m /\ ack.type = "PUBACK"
    BY DEF Frame
  <2>3. \/ /\ IncomingFull /\ connected' = (connected /\ ~Waiting)
           /\ Returns("QueueFull") /\ Messages /\ NoTraffic
        \/ ~IncomingFull /\ Accepted(m) /\ NoTraffic /\ UNCHANGED connected
        \/ ~IncomingFull /\ Sent(ack) /\ Accepted(m)
        \/ /\ ~IncomingFull /\ SendFails(ack) /\ incoming' = Keeps(m) /\ UNCHANGED received
           /\ \E error \in WriteErrors : Returns(error)
        \/ /\ ~IncomingFull /\ incoming' = Keeps(m) /\ UNCHANGED received
           /\ Returns("PacketTooLarge") /\ NoTraffic /\ UNCHANGED connected
    BY <1>8 DEF DecodePublish
  <2>4. Taken /\ framed > 0 /\ SameLimit /\ UNCHANGED <<next_packet_id, ping_age>>
    BY <1>8 DEF DecodePublish, Decodes
  <2> HIDE DEF m, ack
  <2>5. BrokerTypes' /\ ClientTypes' /\ published' = published
    <3>1. CASE NoTraffic
      BY <3>1, <2>3, <2>4 DEF NoTraffic, SameLimit, Sent, SendFails, brokerVars, Types, BrokerTypes,
                              ClientTypes
    <3>2. CASE Sent(ack) \/ SendFails(ack)
      <4>1. ping_age' \in -1..AckTimeout
        BY <2>4 DEF Types, ClientTypes
      <4> QED BY <3>2, <2>1, <2>2, <2>4, <4>1, SendTypes DEF Types, SameLimit
    <3> QED BY <2>3, <3>1, <3>2
  <2>6. WireTypes'
    BY <2>4, <2>5, TakenTypes DEF Types
  <2>7. CallTypes'
    <3>1. CASE \E error \in Failures : Answer(call, error)
      BY <3>1, FailureTypes, CallKnown DEF Types
    <3>2. CASE Accepted(m)
      BY <3>2, AnswerTypes, CallKnown DEF Accepted, Returns, KeepCall, callVars, Types, CallTypes,
                                          Waiting, RecvResults
    <3> QED BY <2>3, <3>1, <3>2 DEF Returns, Failures, WriteErrors
  <2>8. QueueTypes'
    <3>1. Append(incoming, m) \in Seq(Nat) /\ Len(Append(incoming, m)) = Len(incoming) + 1
          /\ Append(incoming, m) # << >>
      <4>1. incoming \in Seq(Nat)
        BY DEF Types, QueueTypes
      <4>2. m \in Nat
        BY <2>1
      <4> QED BY ONLY <4>1, <4>2, QueueGrows
    <3>2. ~IncomingFull => Len(Append(incoming, m)) <= max_incoming_messages
      BY <3>1 DEF IncomingFull, Types, QueueTypes
    <3>3. CASE Messages
      BY <3>3 DEF Messages, Types, QueueTypes
    <3>4. CASE ~IncomingFull /\ incoming' = Keeps(m) /\ UNCHANGED received
      BY <3>1, <3>2, <3>4 DEF Keeps, Types, QueueTypes
    <3>5. CASE /\ ~IncomingFull /\ received' = Append(received, Pop(Keeps(m)).message)
               /\ incoming' = Pop(Keeps(m)).rest
      <4>1. /\ Head(Append(incoming, m)) \in Nat /\ Tail(Append(incoming, m)) \in Seq(Nat)
            /\ Len(Tail(Append(incoming, m))) = Len(incoming)
        BY <3>1
      <4> QED BY <3>5, <4>1 DEF Keeps, Pop, Types, QueueTypes
    <3> QED BY <2>3, <3>3, <3>4, <3>5 DEF Accepted
  <2> QED BY <2>5, <2>6, <2>7, <2>8 DEF Types
<1> QED BY <1>1, <1>3, <1>4, <1>5, <1>6, <1>7, <1>8 DEF Decode

\* The timers and the reads keep the types.
LEMMA WaitTypes == Types /\ (Timers \/ Reads) => Types'
<1> SUFFICES ASSUME Types, Timers \/ Reads PROVE Types'
  OBVIOUS
<1> USE ClientAssumption
<1>1. ASSUME \E error \in Failures : Returns(error), Messages, SameLimit,
             UNCHANGED <<next_packet_id, inbound, framed>>,
             BrokerTypes', ClientTypes', published' = published
      PROVE  Types'
  <2>1. CallTypes'
    BY <1>1, FailureTypes, CallKnown DEF Returns, Types
  <2> QED BY <1>1, <2>1 DEF Messages, Types, QueueTypes, WireTypes
<1>2. ASSUME NoTraffic, UNCHANGED <<next_packet_id, ping_age, max_outbound_packet_size>>,
             connected' \in BOOLEAN
      PROVE  BrokerTypes' /\ ClientTypes' /\ published' = published
  BY <1>2 DEF NoTraffic, brokerVars, Types, BrokerTypes, ClientTypes
<1>3. ASSUME pc' \in {"decode", "read"}, UNCHANGED <<call, wait_id, deadline, op, recv_result>>
      PROVE  CallTypes'
  BY <1>3 DEF Types, CallTypes, Waiting
<1>4. CASE TimeoutCall \/ TimeoutPing \/ ReadFails \/ ReadEof
  <2>1. /\ \E error \in Failures : Returns(error)
        /\ Messages /\ SameLimit /\ UNCHANGED <<next_packet_id, inbound, framed, ping_age>>
        /\ connected' = FALSE /\ NoTraffic
    BY <1>4 DEF TimeoutCall, TimeoutPing, ReadFails, ReadEof, TimerStep, Disconnected, Poison, Failures
  <2> QED BY <1>1, <1>2, <2>1 DEF SameLimit
<1>5. CASE SendPing
  <2> DEFINE ping == Frame("PINGREQ", 0, NoCall, ShortLen)
  <2>1. ping.id = 0 /\ ping.type = "PINGREQ"
    BY DEF Frame
  <2>2. /\ \/ Sent(ping) /\ ping_age' = 0 /\ ToRead
           \/ SendFails(ping) /\ UNCHANGED ping_age /\ \E error \in Failures : Returns(error)
           \/ /\ \E error \in Failures : Returns(error)
              /\ NoTraffic /\ UNCHANGED <<connected, ping_age>>
        /\ Messages /\ SameLimit /\ UNCHANGED <<next_packet_id, inbound, framed>>
    BY <1>5 DEF SendPing, TimerStep, WriteErrors, Failures
  <2> HIDE DEF ping
  <2>3. ping_age' \in -1..AckTimeout /\ connected \in BOOLEAN
    BY <2>2 DEF Types, ClientTypes
  <2>4. BrokerTypes' /\ ClientTypes' /\ published' = published
    BY <2>1, <2>2, <2>3, <1>2, SendTypes DEF Types, SameLimit
  <2>5. CASE ToRead
    BY <2>2, <2>4, <2>5, <1>3 DEF ToRead, Messages, Types, QueueTypes, WireTypes
  <2> QED BY <2>2, <2>4, <2>5, <1>1
<1>6. CASE NoTimer
  <2>1. connected \in BOOLEAN
    BY DEF Types, ClientTypes
  <2>2. BrokerTypes' /\ ClientTypes' /\ published' = published
    BY <1>6, <1>2, <2>1 DEF NoTimer, TimerStep, SameLimit
  <2> QED BY <1>6, <2>2, <1>3 DEF NoTimer, TimerStep, ToRead, Messages, Types, QueueTypes, WireTypes
<1>7. CASE ReadSome \/ ReadTimesOut \/ ReadInterrupted
  <2>1. ToDecode /\ UNCHANGED <<stateVars, inbound, brokerVars>>
    BY <1>7 DEF ReadSome, ReadTimesOut, ReadInterrupted, NoPacketRead
  <2>2. framed' \in 0..Len(inbound)
    <3>1. Len(inbound) \in Nat /\ framed \in 0..Len(inbound)
      BY DEF Types, WireTypes
    <3> QED BY <1>7, <3>1 DEF ReadSome, ReadTimesOut, ReadInterrupted, NoPacketRead
  <2> QED BY <1>3, <2>1, <2>2 DEF ToDecode, stateVars, brokerVars, Types, QueueTypes, ClientTypes,
                                  WireTypes, BrokerTypes
<1> QED BY <1>4, <1>5, <1>6, <1>7 DEF Timers, Reads

\* The broker keeps the types.
LEMMA BrokerKeepsTypes == Types /\ Broker => Types'
<1> SUFFICES ASSUME Types, Broker PROVE Types'
  OBVIOUS
<1> USE ClientAssumption
<1>1. ASSUME NEW packet \in Packets, BrokerSends(packet), PacketOK(packet, published'),
             BrokerTypes', published' \in {published, published + 1}
      PROVE  Types'
  <2>1. published \in Nat /\ published' \in Nat /\ published' >= published
    BY <1>1 DEF Types, BrokerTypes
  <2>2. WireTypes'
    BY <1>1, <2>1, AppendTypes DEF BrokerSends, Types
  <2>3. CallTypes' /\ QueueTypes' /\ ClientTypes'
    BY <1>1 DEF BrokerSends, callVars, stateVars, Types, CallTypes, QueueTypes, ClientTypes, Waiting
  <2> QED BY <1>1, <2>2, <2>3 DEF Types
<1>2. CASE BrokerConnAck
  <2>1. PICK code \in {"ok", "rejected"}, limit \in PacketLimits :
               /\ BrokerSends(Packet("CONNACK", limit, NoCall, code))
               /\ broker' = IF code = "rejected" THEN "closed" ELSE "up"
    BY <1>2 DEF BrokerConnAck
  <2>2. Packet("CONNACK", limit, NoCall, code) \in Packets
    BY DEF Packet, Packets, PacketTypes, Codes
  <2>3. PacketOK(Packet("CONNACK", limit, NoCall, code), published')
    BY DEF Packet, PacketOK
  <2>4. BrokerTypes' /\ published' = published
    BY <1>2, <2>1 DEF BrokerConnAck, Types, BrokerTypes
  <2> QED BY <1>1, <2>1, <2>2, <2>3, <2>4
<1>3. CASE BrokerAck
  <2>1. PICK frame \in unacked, code \in {"ok", "rejected"} :
               /\ BrokerSends(Packet(AckTypeFor(frame.type), frame.id, frame.op, code))
               /\ unacked' = unacked \ {frame}
               /\ acked' = IF code = "ok" THEN acked \cup {frame.op} ELSE acked
    BY <1>3 DEF BrokerAck
  <2>2. frame \in Requests
    BY DEF Types, BrokerTypes
  <2>3. /\ AckTypeFor(frame.type) \in {"PUBACK", "SUBACK", "UNSUBACK"}
        /\ frame.id \in Nat /\ frame.op \in Ops
    BY <2>2 DEF Requests, AckTypeFor, PacketIds
  <2> DEFINE ack == Packet(AckTypeFor(frame.type), frame.id, frame.op, code)
  <2>4. ack \in Packets
    BY <2>3 DEF Packet, Packets, PacketTypes, Codes
  <2>5. PacketOK(ack, published')
    BY <2>3 DEF Packet, PacketOK
  <2>6. BrokerTypes' /\ published' = published
    BY <1>3, <2>1, <2>3 DEF BrokerAck, Types, BrokerTypes
  <2> QED BY <1>1, <2>1, <2>4, <2>5, <2>6
<1>4. CASE BrokerPingResp
  <2> DEFINE answer == Packet("PINGRESP", IF ping_age < AckTimeout THEN InTime ELSE Late, NoCall, "ok")
  <2>1. answer \in Packets
    BY DEF Packet, Packets, PacketTypes, Codes, InTime, Late
  <2>2. PacketOK(answer, published')
    BY DEF Packet, PacketOK
  <2>3. BrokerTypes' /\ published' = published
    BY <1>4 DEF BrokerPingResp, Types, BrokerTypes
  <2> QED BY <1>1, <1>4, <2>1, <2>2, <2>3 DEF BrokerPingResp
<1>5. CASE BrokerPublish
  <2>1. published \in Nat /\ published' = published + 1 /\ published' \in 1..published'
        /\ Len(MessageQos) \in Nat
    BY <1>5 DEF BrokerPublish, Types, BrokerTypes
  <2>2. Packet("PUBLISH", published + 1, NoCall, "ok") \in Packets
    BY <2>1 DEF Packet, Packets, PacketTypes, Codes
  <2>3. PacketOK(Packet("PUBLISH", published + 1, NoCall, "ok"), published')
    BY <2>1 DEF Packet, PacketOK
  <2>4. BrokerTypes'
    BY <1>5, <2>1 DEF BrokerPublish, Types, BrokerTypes
  <2> QED BY <1>1, <1>5, <2>1, <2>2, <2>3, <2>4 DEF BrokerPublish
<1>6. CASE BrokerLeaves
  <2>1. PICK type \in {"EOF", "DISCONNECT"}, code \in {"ok", "rejected"} :
               BrokerSends(Packet(type, 0, NoCall, code))
    BY <1>6 DEF BrokerLeaves
  <2>2. Packet(type, 0, NoCall, code) \in Packets
    BY DEF Packet, Packets, PacketTypes, Codes
  <2>3. PacketOK(Packet(type, 0, NoCall, code), published')
    BY DEF Packet, PacketOK
  <2>4. BrokerTypes' /\ published' = published
    BY <1>6 DEF BrokerLeaves, Types, BrokerTypes
  <2> QED BY <1>1, <2>1, <2>2, <2>3, <2>4
<1>7. CASE BrokerStrays
  <2>1. BrokerTypes' /\ published' = published
    BY <1>7 DEF BrokerStrays, Types, BrokerTypes
  <2>2. PICK packet \in Packets : BrokerSends(packet) /\ PacketOK(packet, published')
    <3>1. ASSUME NEW type \in {"OTHER", "BAD", "PINGRESP"}
          PROVE  /\ Packet(type, Late, NoCall, "ok") \in Packets
                 /\ PacketOK(Packet(type, Late, NoCall, "ok"), published')
      BY DEF Packet, Packets, PacketTypes, Codes, Late, PacketOK
    <3>2. ASSUME NEW limit \in {0} \cup PacketLimits, NEW code \in Codes
          PROVE  /\ Packet("CONNACK", limit, NoCall, code) \in Packets
                 /\ PacketOK(Packet("CONNACK", limit, NoCall, code), published')
      BY DEF Packet, Packets, PacketTypes, PacketOK
    <3>3. ASSUME NEW type \in {"PUBACK", "SUBACK", "UNSUBACK"}, NEW id \in PacketIds, NEW code \in Codes
          PROVE  /\ Packet(type, id, NoCall, code) \in Packets
                 /\ PacketOK(Packet(type, id, NoCall, code), published')
      BY DEF Packet, Packets, PacketTypes, PacketIds, PacketOK
    <3> QED BY <1>7, <3>1, <3>2, <3>3 DEF BrokerStrays
  <2> QED BY <1>1, <2>1, <2>2
<1> QED BY <1>2, <1>3, <1>4, <1>5, <1>6, <1>7 DEF Broker

\* Every step keeps the types.
LEMMA TypesNext == Types /\ [Next]_vars => Types'
<1> SUFFICES ASSUME Types, [Next]_vars PROVE Types'
  OBVIOUS
<1>1. CASE Tick
  <2>1. deadline' \in -1..ConnectTimeout + AckTimeout
    BY <1>1, ClientAssumption DEF Tick, Types, CallTypes
  <2>2. ping_age' \in -1..AckTimeout /\ idle' \in 0..KeepAlive + 1
    BY <1>1, ClientAssumption DEF Tick, Types, ClientTypes
  <2> QED BY <1>1, <2>1, <2>2 DEF Tick, brokerVars, Types, CallTypes, QueueTypes, ClientTypes,
                                  WireTypes, BrokerTypes, Waiting
<1>2. CASE UNCHANGED vars
  BY <1>2 DEF vars, callVars, stateVars, brokerVars, Types, CallTypes, QueueTypes, ClientTypes,
              WireTypes, BrokerTypes, Waiting
<1> QED BY <1>1, <1>2, ApplicationTypes, DecodeTypes, WaitTypes, BrokerKeepsTypes DEF Next, Gone

\* Every variable of the client and of the broker keeps its type: in particular, the queue of
\* messages never outgrows max_incoming_messages and a wait has an identifier in range.
THEOREM TypeCorrect == Spec => []TypeOK
<1>1. Types => TypeOK
  BY DEF Types, CallTypes, QueueTypes, ClientTypes, WireTypes, BrokerTypes, TypeOK
<1> QED BY <1>1, TypesInit, TypesNext, PTL DEF Spec

\* During a call the client is silent for no longer than the keep-alive interval, except while
\* a PINGREQ is unanswered: service_timers comes before every read, and the read before the
\* next timer.
THEOREM SilenceIsBounded == Spec => []SilenceBounded
<1>1. Init => SilenceBounded
  BY DEF Init, SilenceBounded
<1>2. Types /\ SilenceBounded /\ [Next]_vars => SilenceBounded'
  <2> SUFFICES ASSUME Types, SilenceBounded, [Next]_vars, pc' = "read", connected', KeepAlive > 0,
                      ping_age' = NoPing
               PROVE  idle' <= KeepAlive
    BY DEF SilenceBounded
  <2> USE ClientAssumption
  <2>1. idle \in Nat /\ ping_age \in Int
    BY DEF Types, ClientTypes
  <2>2. ~ \E c, result : Answer(c, result)
    BY DEF Answer
  <2>3. CASE SendPing
    <3>1. ~ \E result : Returns(result)
      BY <2>2 DEF Returns
    <3>2. idle' = 0
      BY <2>3, <3>1 DEF SendPing, Sent
    <3> QED BY <3>2
  <2>4. CASE NoTimer
    BY <2>1, <2>4 DEF NoTimer, NoTraffic, PingDue
  <2>5. CASE Tick
    <3>1. pc = "read" /\ ~PingDue /\ connected
      BY <2>5 DEF Tick, WakeDue
    <3>2. ping_age = NoPing
      <4>1. \/ ping_age' = ping_age
            \/ ping_age \in Nat /\ ping_age' = ping_age + 1
        BY <2>5 DEF Tick
      <4> QED BY <4>1 DEF NoPing
    <3>3. idle < KeepAlive
      BY <2>1, <3>1, <3>2 DEF PingDue
    <3> QED BY <2>1, <2>5, <3>3 DEF Tick
  <2>6. CASE Broker
    <3>1. UNCHANGED <<callVars, stateVars>>
      BY <2>6 DEF Broker, BrokerConnAck, BrokerAck, BrokerPingResp, BrokerPublish, BrokerLeaves,
                  BrokerStrays, BrokerSends
    <3> QED BY <3>1 DEF callVars, stateVars, SilenceBounded
  <2>7. CASE UNCHANGED vars
    BY <2>7 DEF vars, callVars, stateVars, SilenceBounded
  <2>8. ~Application
    BY <2>2 DEF Application, connect, recv, disconnect, publish_qos0, call_acknowledged, Refuse
  <2>9. ~Decode
    <3>1. Decode => pc = "decode" /\ (KeepCall \/ \E result : Returns(result))
      BY DEF Decode, Decodes, DecodeFails, DecodePingResp, DecodeConnAck, DecodeAck, DecodeUnexpected,
             DecodeDisconnect, DecodePublish, Accepted
    <3> QED BY <2>2, <3>1 DEF Returns, KeepCall, callVars
  <2>10. ~Reads /\ ~TimeoutCall /\ ~TimeoutPing
    BY <2>2 DEF Reads, ReadSome, ReadTimesOut, ReadInterrupted, ReadEof, ReadFails, NoPacketRead,
                Disconnected, ToDecode, TimeoutCall, TimeoutPing, Returns
  <2> QED BY <2>3, <2>4, <2>5, <2>6, <2>7, <2>8, <2>9, <2>10 DEF Next, Timers, Gone
<1> QED BY <1>1, <1>2, TypesInit, TypesNext, PTL DEF Spec
=============================================================================
