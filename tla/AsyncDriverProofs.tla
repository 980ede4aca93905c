------------------------- MODULE AsyncDriverProofs -------------------------
(* Safety of AsyncDriver for every value of its constants.                  *)
EXTENDS AsyncDriverTypeProofs

----------------------------------------------------------------------------
(* Packet identifiers.  PacketIdsOwned is not inductive: that the entry of an *)
(* identifier is removed with its acknowledgement is sound only because there *)
(* is one acknowledgement of it, or one request, on the way at a time.        *)

\* At most one packet on its way carries a given identifier.
IdsUnique ==
    /\ \A i, j \in DOMAIN outbound :
         IsRequest(outbound[i]) /\ IsRequest(outbound[j]) /\ outbound[i].id = outbound[j].id => i = j
    /\ \A i \in DOMAIN outbound, request \in unacked :
         IsRequest(outbound[i]) => outbound[i].id # request.id
    /\ \A i \in DOMAIN outbound, j \in DOMAIN inbound :
         IsRequest(outbound[i]) /\ IsAck(inbound[j]) => outbound[i].id # inbound[j].id
    /\ \A request, other \in unacked : request.id = other.id => request = other
    /\ \A request \in unacked, i \in DOMAIN inbound : IsAck(inbound[i]) => request.id # inbound[i].id
    /\ \A i, j \in DOMAIN inbound :
         IsAck(inbound[i]) /\ IsAck(inbound[j]) /\ inbound[i].id = inbound[j].id => i = j

\* What a broker that keeps to the protocol sends.
StreamConforms ==
    \A i \in DOMAIN inbound :
      /\ inbound[i].type \notin {"OTHER", "BAD"} /\ inbound[i].code # "malformed"
      /\ IsAck(inbound[i]) /\ inbound[i].code = "ok" => inbound[i].op \in acked

\* Only operations without an acknowledgement are answered by a flush.
Unacknowledged == {o \in Ops : Request[o].kind \in {"PublishQos0", "Disconnect"}}
AnswersOwn(frame) == frame.action \in Answers => frame.op \in Unacknowledged
FramesAnswer == /\ \A i \in DOMAIN outbound : AnswersOwn(outbound[i])
                /\ \A i \in DOMAIN flush_actions : AnswersOwn(flush_actions[i])

\* The driver works only for operations that were started.
Begun == /\ \A i \in DOMAIN commands : op[commands[i]] # "idle"
         /\ \A id \in DOMAIN pending_acks : op[pending_acks[id].op] # "idle"

SafeInv == /\ TypeOK /\ PacketIdsOwned /\ IdsUnique /\ StreamConforms /\ FramesAnswer
           /\ OkMeansAcked /\ ConformingBrokerAccepted /\ Begun

----------------------------------------------------------------------------
(* How sequences change.                                                    *)

\* An index of an extended sequence is an old one, or that of the new element.
LEMMA AppendIndex ==
    ASSUME NEW S, NEW seq \in Seq(S), NEW e \in S,
           NEW i \in DOMAIN Append(seq, e)
    PROVE  \/ i \in DOMAIN seq /\ Append(seq, e)[i] = seq[i]
           \/ i = Len(seq) + 1 /\ Append(seq, e)[i] = e
<1>1. Append(seq, e) \in Seq(S) /\ Len(Append(seq, e)) = Len(seq) + 1
  BY AppendProperties
<1>2. i \in 1..Len(seq) + 1 /\ DOMAIN seq = 1..Len(seq) /\ Len(seq) \in Nat
  BY <1>1, LenProperties
<1>. QED  BY <1>2, AppendProperties

\* An index of a tail is the predecessor of an old one.
LEMMA TailIndex ==
    ASSUME NEW S, NEW seq \in Seq(S), seq # << >>,
           NEW i \in DOMAIN Tail(seq)
    PROVE  i + 1 \in DOMAIN seq /\ i \in Nat /\ i + 1 # 1 /\ Tail(seq)[i] = seq[i + 1]
<1>1. Tail(seq) \in Seq(S) /\ Len(Tail(seq)) = Len(seq) - 1
  BY HeadTailProperties
<1>2. i \in 1..Len(seq) - 1 /\ DOMAIN seq = 1..Len(seq) /\ Len(seq) \in Nat
  BY <1>1, LenProperties
<1>. QED  BY <1>1, <1>2, HeadTailProperties

\* The head of a non-empty sequence is its first element.
LEMMA HeadIndex ==
    ASSUME NEW S, NEW seq \in Seq(S), seq # << >>
    PROVE  1 \in DOMAIN seq /\ Head(seq) = seq[1]
<1>1. DOMAIN seq = 1..Len(seq) /\ Len(seq) \in Nat
  BY LenProperties
<1>2. Len(seq) # 0
  BY EmptySeq
<1>. QED  BY <1>1, <1>2

----------------------------------------------------------------------------
(* The kinds of step, told apart by what they do to the packets on the way.  *)

\* An operation succeeds only if it may, and none is forgotten.
OpStep == \A o \in Ops : /\ op'[o] = "Ok" => op[o] = "Ok" \/ o \in acked' \cup Unacknowledged
                         /\ op[o] # "idle" => op'[o] # "idle"

\* A step that sends no request, takes no acknowledgement and keeps the table: it
\* may queue another frame, dispatch another packet and change what is waited for.
LEMMA KeepSafe ==
    ASSUME SafeInv, TypeOK', OpStep, exit' \notin {"UnexpectedPacket", "MalformedPacket"},
           UNCHANGED <<unacked, acked>>,
           \A i \in DOMAIN outbound' : /\ AnswersOwn(outbound'[i])
                                       /\ IsRequest(outbound'[i]) =>
                                            i \in DOMAIN outbound /\ outbound'[i] = outbound[i],
           NEW d \in {0, 1},
           \A i \in DOMAIN inbound' : i \in Nat /\ i + d \in DOMAIN inbound
                                      /\ inbound'[i] = inbound[i + d],
           DOMAIN pending_acks' = DOMAIN pending_acks,
           \A id \in DOMAIN pending_acks : /\ pending_acks'[id].op = pending_acks[id].op
                                           /\ pending_acks'[id].ack = pending_acks[id].ack,
           \A i \in DOMAIN flush_actions' : AnswersOwn(flush_actions'[i]),
           \A i \in DOMAIN commands' : op'[commands'[i]] # "idle"
    PROVE  SafeInv'
<1>1. \A id, type, o : Owned(id, type, o) => Owned(id, type, o)'
  BY DEF Owned
<1>2. PacketIdsOwned'
  BY <1>1 DEF SafeInv, PacketIdsOwned
<1>3. IdsUnique'
  BY DEF SafeInv, IdsUnique
<1>4. StreamConforms' /\ FramesAnswer'
  BY DEF SafeInv, StreamConforms, FramesAnswer
<1>5. OkMeansAcked'
  BY DEF SafeInv, OkMeansAcked, OpStep, Unacknowledged
<1>6. Begun'
  BY DEF SafeInv, Begun, OpStep, TypeOK, PendingAcks
<1>. QED  BY <1>2, <1>3, <1>4, <1>5, <1>6 DEF SafeInv, ConformingBrokerAccepted

\* A step that takes the acknowledgement at the head of the stream.
LEMMA AckSafe ==
    ASSUME SafeInv, TypeOK', OpStep, UNCHANGED <<unacked, acked, outbound, flush_actions, commands, exit>>,
           inbound # << >>, inbound' = Tail(inbound), IsAck(Head(inbound)),
           pending_acks' = Without(Head(inbound).id)
    PROVE  SafeInv'
<1>. DEFINE taken == Head(inbound).id
<1>1. /\ 1 \in DOMAIN inbound /\ Head(inbound) = inbound[1]
      /\ \A i \in DOMAIN inbound' : /\ i \in Nat /\ i + 1 \in DOMAIN inbound /\ i + 1 # 1
                                    /\ inbound'[i] = inbound[i + 1]
  BY HeadIndex, TailIndex DEF SafeInv, TypeOK
<1>2. \A id, type, o : Owned(id, type, o) /\ id # taken => Owned(id, type, o)'
  BY DEF Owned, Without, Restrict
<1>3. PacketIdsOwned'
  <2>1. \A i \in DOMAIN inbound' : IsAck(inbound'[i]) => inbound'[i].id # taken
    BY <1>1 DEF SafeInv, IdsUnique
  <2>2. \A i \in DOMAIN outbound : IsRequest(outbound[i]) => outbound[i].id # taken
    BY <1>1 DEF SafeInv, IdsUnique
  <2>3. \A request \in unacked : request.id # taken
    BY <1>1 DEF SafeInv, IdsUnique
  <2>. QED  BY <1>1, <1>2, <2>1, <2>2, <2>3 DEF SafeInv, PacketIdsOwned
<1>4. IdsUnique'
  BY <1>1 DEF SafeInv, IdsUnique
<1>5. StreamConforms' /\ FramesAnswer'
  BY <1>1 DEF SafeInv, StreamConforms, FramesAnswer
<1>6. OkMeansAcked'
  BY DEF SafeInv, OkMeansAcked, OpStep, Unacknowledged
<1>7. Begun'
  <2>1. \A id \in DOMAIN pending_acks' : id \in DOMAIN pending_acks /\ pending_acks'[id] = pending_acks[id]
    BY DEF Without, Restrict
  <2>2. commands \in Seq(Ops)
    BY DEF SafeInv, TypeOK
  <2>3. \A i \in DOMAIN commands : commands[i] \in Ops
    BY <2>2
  <2>. QED  BY <2>1, <2>3 DEF SafeInv, Begun, OpStep, TypeOK, PendingAcks
<1>. QED  BY <1>3, <1>4, <1>5, <1>6, <1>7 DEF SafeInv, ConformingBrokerAccepted

\* A step that sends a request with an identifier that is not in the table.
LEMMA RequestSafe ==
    ASSUME SafeInv, TypeOK', UNCHANGED <<op, unacked, acked, inbound, flush_actions, exit>>,
           NEW id \in PacketIds, id \notin DOMAIN pending_acks,
           NEW o \in Ops, op[o] # "idle", NEW class \in AckClasses, NEW len,
           pending_acks' = With(id, NewPending(o, class)),
           NEW frame \in Frames, frame = Frame(RequestType(class), id, o, len, "None"),
           outbound' = Append(outbound, frame),
           \A i \in DOMAIN commands' : op[commands'[i]] # "idle"
    PROVE  SafeInv'
<1>1. \A i \in DOMAIN outbound' : \/ i \in DOMAIN outbound /\ outbound'[i] = outbound[i]
                                  \/ i = Len(outbound) + 1 /\ outbound'[i] = frame
  <2>1. outbound \in Seq(Frames)
    BY DEF SafeInv, TypeOK
  <2>. QED  BY <2>1, AppendIndex
<1>2. /\ frame.id = id /\ frame.type = RequestType(class) /\ frame.op = o /\ frame.action = "None"
  BY DEF Frame
<1>3. \A other, type, p : Owned(other, type, p) => Owned(other, type, p)' /\ other # id
  BY DEF Owned, With
<1>4. Owned(id, RequestType(class), o)'
  BY DEF Owned, With, NewPending
<1>5. PacketIdsOwned'
  <2>1. ASSUME NEW i \in DOMAIN outbound', IsRequest(outbound'[i])
        PROVE  Owned(outbound[i].id, outbound[i].type, outbound[i].op)'
    <3>1. CASE i \in DOMAIN outbound /\ outbound'[i] = outbound[i]
      <4>1. Owned(outbound[i].id, outbound[i].type, outbound[i].op)
        BY <2>1, <3>1 DEF SafeInv, PacketIdsOwned
      <4>. QED  BY <1>3, <3>1, <4>1
    <3>2. CASE outbound'[i] = frame
      BY <1>2, <1>4, <3>2
    <3>. QED  BY <1>1, <3>1, <3>2
  <2>2. \A request \in unacked : Owned(request.id, request.type, request.op)'
    BY <1>3 DEF SafeInv, PacketIdsOwned
  <2>3. \A i \in DOMAIN inbound :
          IsAck(inbound[i]) => Owned(inbound[i].id, inbound[i].type, inbound[i].op)'
    BY <1>3 DEF SafeInv, PacketIdsOwned
  <2>. QED  BY <2>1, <2>2, <2>3 DEF PacketIdsOwned
<1>6. IdsUnique'
  <2>1. \A i \in DOMAIN outbound : IsRequest(outbound[i]) => outbound[i].id # id
    BY <1>3 DEF SafeInv, PacketIdsOwned
  <2>2. \A request \in unacked : request.id # id
    BY <1>3 DEF SafeInv, PacketIdsOwned
  <2>3. \A i \in DOMAIN inbound : IsAck(inbound[i]) => inbound[i].id # id
    BY <1>3 DEF SafeInv, PacketIdsOwned
  <2>4. \A i \in DOMAIN outbound' :
          \/ i = Len(outbound) + 1 /\ outbound'[i].id = id
          \/ /\ i \in DOMAIN outbound /\ outbound'[i] = outbound[i]
             /\ IsRequest(outbound[i]) => outbound[i].id # id
    BY <1>1, <1>2, <2>1
  <2>5. UNCHANGED <<unacked, inbound>>
    OBVIOUS
  <2>6. \A i, j \in DOMAIN outbound' :
          IsRequest(outbound'[i]) /\ IsRequest(outbound'[j]) /\ outbound'[i].id = outbound'[j].id => i = j
    <3>1. \A i, j \in DOMAIN outbound :
            IsRequest(outbound[i]) /\ IsRequest(outbound[j]) /\ outbound[i].id = outbound[j].id => i = j
      BY DEF SafeInv, IdsUnique
    <3>. QED  BY <3>1, <2>4
  <2>7. \A i \in DOMAIN outbound', other \in unacked' :
          IsRequest(outbound'[i]) => outbound'[i].id # other.id
    <3>1. \A i \in DOMAIN outbound, other \in unacked :
            IsRequest(outbound[i]) => outbound[i].id # other.id
      BY DEF SafeInv, IdsUnique
    <3>. QED  BY <3>1, <2>2, <2>4, <2>5
  <2>8. \A i \in DOMAIN outbound', j \in DOMAIN inbound' :
          IsRequest(outbound'[i]) /\ IsAck(inbound'[j]) => outbound'[i].id # inbound'[j].id
    <3>1. \A i \in DOMAIN outbound, j \in DOMAIN inbound :
            IsRequest(outbound[i]) /\ IsAck(inbound[j]) => outbound[i].id # inbound[j].id
      BY DEF SafeInv, IdsUnique
    <3>. QED  BY <3>1, <2>3, <2>4, <2>5
  <2>9. \A one, other \in unacked' : one.id = other.id => one = other
    <3>1. \A one, other \in unacked : one.id = other.id => one = other
      BY DEF SafeInv, IdsUnique
    <3>. QED  BY <3>1, <2>5
  <2>10. \A other \in unacked', i \in DOMAIN inbound' :
           IsAck(inbound'[i]) => other.id # inbound'[i].id
    <3>1. \A other \in unacked, i \in DOMAIN inbound :
            IsAck(inbound[i]) => other.id # inbound[i].id
      BY DEF SafeInv, IdsUnique
    <3>. QED  BY <3>1, <2>5
  <2>11. \A i, j \in DOMAIN inbound' :
           IsAck(inbound'[i]) /\ IsAck(inbound'[j]) /\ inbound'[i].id = inbound'[j].id => i = j
    <3>1. \A i, j \in DOMAIN inbound :
            IsAck(inbound[i]) /\ IsAck(inbound[j]) /\ inbound[i].id = inbound[j].id => i = j
      BY DEF SafeInv, IdsUnique
    <3>. QED  BY <3>1, <2>5
  <2>. QED  BY <2>6, <2>7, <2>8, <2>9, <2>10, <2>11 DEF IdsUnique
<1>7. StreamConforms' /\ FramesAnswer' /\ OkMeansAcked'
  BY <1>1, <1>2 DEF SafeInv, StreamConforms, FramesAnswer, OkMeansAcked, AnswersOwn, Answers
<1>8. Begun'
  BY DEF SafeInv, Begun, With, NewPending
<1>. QED  BY <1>5, <1>6, <1>7, <1>8 DEF SafeInv, ConformingBrokerAccepted

\* A step that ends the driver.
LEMMA ClosedSafe ==
    ASSUME SafeInv, TypeOK', OpStep, exit' \notin {"UnexpectedPacket", "MalformedPacket"}, Closed
    PROVE  SafeInv'
<1>1. /\ DOMAIN outbound' = {} /\ DOMAIN flush_actions' = {} /\ DOMAIN commands' = {}
      /\ DOMAIN inbound' = {} /\ DOMAIN pending_acks' = {} /\ unacked' = {} /\ acked' = acked
  BY DEF Closed, NoPending
<1>2. PacketIdsOwned' /\ IdsUnique' /\ StreamConforms' /\ FramesAnswer' /\ Begun'
  BY <1>1 DEF PacketIdsOwned, IdsUnique, StreamConforms, FramesAnswer, Begun
<1>3. OkMeansAcked'
  BY <1>1 DEF SafeInv, OkMeansAcked, OpStep, Unacknowledged
<1>. QED  BY <1>2, <1>3 DEF SafeInv, ConformingBrokerAccepted

\* A frame that is written: its identifier passes from the queue to the broker.
LEMMA WriteSafe ==
    ASSUME SafeInv, TypeOK', outbound # << >>,
           UNCHANGED <<op, acked, inbound, commands, pending_acks, exit>>,
           outbound' = Tail(outbound),
           flush_actions' = Append(flush_actions, Head(outbound)),
           Deliver(Head(outbound))
    PROVE  SafeInv'
<1>. DEFINE frame == Head(outbound)
<1>. DEFINE sent == [type |-> frame.type, id |-> frame.id, op |-> frame.op]
<1>0. outbound \in Seq(Frames) /\ flush_actions \in Seq(Frames)
  BY DEF SafeInv, TypeOK
<1>1. 1 \in DOMAIN outbound /\ frame = outbound[1] /\ frame \in Frames
  BY <1>0, HeadIndex
<1>2. \A i \in DOMAIN outbound' : /\ i \in Nat /\ i + 1 \in DOMAIN outbound /\ i + 1 # 1
                                  /\ outbound'[i] = outbound[i + 1]
  BY <1>0, TailIndex
<1>3. \A i \in DOMAIN flush_actions' : \/ i \in DOMAIN flush_actions /\ flush_actions'[i] = flush_actions[i]
                                       \/ i = Len(flush_actions) + 1 /\ flush_actions'[i] = frame
  BY <1>0, <1>1, AppendIndex
<1>4. /\ \A request \in unacked' : request \in unacked \/ (request = sent /\ IsRequest(frame))
      /\ sent.id = frame.id /\ sent.type = frame.type /\ sent.op = frame.op
  BY DEF Deliver, IsRequest
<1>. HIDE DEF sent, frame
<1>5. \A id, type, o : Owned(id, type, o) => Owned(id, type, o)'
  BY DEF Owned
<1>6. PacketIdsOwned'
  BY <1>1, <1>2, <1>4, <1>5 DEF SafeInv, PacketIdsOwned
<1>7. IdsUnique'
  BY <1>1, <1>2, <1>4 DEF SafeInv, IdsUnique
<1>8. StreamConforms' /\ FramesAnswer' /\ OkMeansAcked' /\ Begun'
  BY <1>1, <1>2, <1>3 DEF SafeInv, StreamConforms, FramesAnswer, OkMeansAcked, Begun
<1>. QED  BY <1>6, <1>7, <1>8 DEF SafeInv, ConformingBrokerAccepted

\* A packet of the broker that is not an acknowledgement.
LEMMA MessageSafe ==
    ASSUME SafeInv, TypeOK', NEW packet \in Packets, BrokerSends(packet), UNCHANGED <<unacked, acked>>,
           ~IsAck(packet), packet.type \notin {"OTHER", "BAD"}, packet.code # "malformed"
    PROVE  SafeInv'
<1>0. inbound \in Seq(Packets)
  BY DEF SafeInv, TypeOK
<1>1. \A i \in DOMAIN inbound' : \/ i \in DOMAIN inbound /\ inbound'[i] = inbound[i]
                                 \/ i = Len(inbound) + 1 /\ inbound'[i] = packet
  BY <1>0, AppendIndex DEF BrokerSends
<1>2. UNCHANGED <<op, commands, outbound, flush_actions, pending_acks, exit>>
  BY DEF BrokerSends, callerVars, queueVars, ackVars, endVars
<1>3. \A id, type, o : Owned(id, type, o) => Owned(id, type, o)'
  BY <1>2 DEF Owned
<1>4. PacketIdsOwned'
  BY <1>1, <1>2, <1>3 DEF SafeInv, PacketIdsOwned
<1>5. IdsUnique'
  <2>1. \A i \in DOMAIN inbound' : IsAck(inbound'[i]) =>
          i \in DOMAIN inbound /\ inbound'[i] = inbound[i]
    BY <1>1
  <2>2. \A i, j \in DOMAIN outbound' :
          IsRequest(outbound'[i]) /\ IsRequest(outbound'[j]) /\ outbound'[i].id = outbound'[j].id => i = j
    <3>1. \A i, j \in DOMAIN outbound :
            IsRequest(outbound[i]) /\ IsRequest(outbound[j]) /\ outbound[i].id = outbound[j].id => i = j
      BY DEF SafeInv, IdsUnique
    <3>. QED  BY <3>1, <1>2
  <2>3. \A i \in DOMAIN outbound', other \in unacked' :
          IsRequest(outbound'[i]) => outbound'[i].id # other.id
    <3>1. \A i \in DOMAIN outbound, other \in unacked :
            IsRequest(outbound[i]) => outbound[i].id # other.id
      BY DEF SafeInv, IdsUnique
    <3>. QED  BY <3>1, <1>2
  <2>4. \A i \in DOMAIN outbound', j \in DOMAIN inbound' :
          IsRequest(outbound'[i]) /\ IsAck(inbound'[j]) => outbound'[i].id # inbound'[j].id
    <3>1. \A i \in DOMAIN outbound, j \in DOMAIN inbound :
            IsRequest(outbound[i]) /\ IsAck(inbound[j]) => outbound[i].id # inbound[j].id
      BY DEF SafeInv, IdsUnique
    <3>. QED  BY <3>1, <1>2, <2>1
  <2>5. \A one, other \in unacked' : one.id = other.id => one = other
    <3>1. \A one, other \in unacked : one.id = other.id => one = other
      BY DEF SafeInv, IdsUnique
    <3>. QED  BY <3>1, <1>2
  <2>6. \A other \in unacked', i \in DOMAIN inbound' :
          IsAck(inbound'[i]) => other.id # inbound'[i].id
    <3>1. \A other \in unacked, i \in DOMAIN inbound :
            IsAck(inbound[i]) => other.id # inbound[i].id
      BY DEF SafeInv, IdsUnique
    <3>. QED  BY <3>1, <1>2, <2>1
  <2>7. \A i, j \in DOMAIN inbound' :
          IsAck(inbound'[i]) /\ IsAck(inbound'[j]) /\ inbound'[i].id = inbound'[j].id => i = j
    <3>1. \A i, j \in DOMAIN inbound :
            IsAck(inbound[i]) /\ IsAck(inbound[j]) /\ inbound[i].id = inbound[j].id => i = j
      BY DEF SafeInv, IdsUnique
    <3>. QED  BY <3>1, <2>1
  <2>. QED  BY <2>2, <2>3, <2>4, <2>5, <2>6, <2>7 DEF IdsUnique
<1>6. StreamConforms' /\ FramesAnswer' /\ OkMeansAcked' /\ Begun'
  BY <1>1, <1>2 DEF SafeInv, StreamConforms, FramesAnswer, OkMeansAcked, Begun
<1>. QED  BY <1>2, <1>4, <1>5, <1>6 DEF SafeInv, ConformingBrokerAccepted

\* An acknowledgement: the identifier passes from the broker to the stream.
LEMMA BrokerAckSafe ==
    ASSUME SafeInv, TypeOK', BrokerAck
    PROVE  SafeInv'
<1>0. inbound \in Seq(Packets) /\ unacked \subseteq Requests
  BY DEF SafeInv, TypeOK
<1>. PICK request \in unacked, code \in {"ok", "rejected"} :
         /\ BrokerSends(Packet(AckTypeFor(request.type), request.id, request.op, code))
         /\ unacked' = unacked \ {request}
         /\ acked' = IF code = "ok" THEN acked \cup {request.op} ELSE acked
  BY DEF BrokerAck
<1>. DEFINE packet == Packet(AckTypeFor(request.type), request.id, request.op, code)
<1>1. /\ packet \in Packets /\ packet.id = request.id /\ packet.op = request.op
      /\ packet.type = AckTypeFor(request.type) /\ packet.code = code
      /\ packet.type \in {"PUBACK", "SUBACK", "UNSUBACK"}
  BY <1>0 DEF Requests, Packet, Packets, AckTypeFor, PacketTypes, Codes
<1>2. \A i \in DOMAIN inbound' : \/ i \in DOMAIN inbound /\ inbound'[i] = inbound[i]
                                 \/ i = Len(inbound) + 1 /\ inbound'[i] = packet
  <2>1. inbound' = Append(inbound, packet)
    BY DEF BrokerSends
  <2>. HIDE DEF packet
  <2>. QED  BY <1>0, <1>1, <2>1, AppendIndex
<1>3. UNCHANGED <<op, commands, outbound, flush_actions, pending_acks, exit>>
  BY DEF BrokerSends, callerVars, queueVars, ackVars, endVars
<1>4. \A id, type, o : Owned(id, type, o) => Owned(id, type, o)'
  BY <1>3 DEF Owned
<1>5. Owned(request.id, request.type, request.op) /\ request \in Requests
  BY <1>0 DEF SafeInv, PacketIdsOwned
<1>6. Owned(packet.id, packet.type, packet.op)'
  <2>1. request.id \in DOMAIN pending_acks /\ pending_acks[request.id].ack \in AckClasses
    BY <1>5 DEF Owned, SafeInv, TypeOK, PendingAcks
  <2>2. RequestType(pending_acks[request.id].ack) = request.type
    BY <1>5, <2>1 DEF Owned, Requests, AckClasses, RequestType, AckType
  <2>3. AckType(pending_acks[request.id].ack) = AckTypeFor(request.type)
    BY <2>1, <2>2 DEF AckClasses, RequestType, AckType, AckTypeFor
  <2>. QED  BY <1>1, <1>3, <1>5, <2>1, <2>3 DEF Owned
<1>. HIDE DEF packet
<1>7. PacketIdsOwned'
  BY <1>2, <1>3, <1>4, <1>6 DEF SafeInv, PacketIdsOwned
<1>8. IdsUnique'
  <2>1. \A i \in DOMAIN inbound : IsAck(inbound[i]) => inbound[i].id # request.id
    BY DEF SafeInv, IdsUnique
  <2>2. \A i \in DOMAIN inbound' :
          \/ i = Len(inbound) + 1 /\ inbound'[i].id = request.id
          \/ /\ i \in DOMAIN inbound /\ inbound'[i] = inbound[i]
             /\ IsAck(inbound[i]) => inbound[i].id # request.id
    BY <1>1, <1>2, <2>1
  <2>3. \A other \in unacked' : other \in unacked /\ other.id # request.id
    BY DEF SafeInv, IdsUnique
  <2>4. \A i \in DOMAIN outbound : IsRequest(outbound[i]) => outbound[i].id # request.id
    BY DEF SafeInv, IdsUnique
  <2>5. \A i, j \in DOMAIN outbound' :
          IsRequest(outbound'[i]) /\ IsRequest(outbound'[j]) /\ outbound'[i].id = outbound'[j].id => i = j
    <3>1. \A i, j \in DOMAIN outbound :
            IsRequest(outbound[i]) /\ IsRequest(outbound[j]) /\ outbound[i].id = outbound[j].id => i = j
      BY DEF SafeInv, IdsUnique
    <3>. QED  BY <3>1, <1>3
  <2>6. \A i \in DOMAIN outbound', other \in unacked' :
          IsRequest(outbound'[i]) => outbound'[i].id # other.id
    <3>1. \A i \in DOMAIN outbound, other \in unacked :
            IsRequest(outbound[i]) => outbound[i].id # other.id
      BY DEF SafeInv, IdsUnique
    <3>. QED  BY <3>1, <1>3, <2>3
  <2>7. \A i \in DOMAIN outbound', j \in DOMAIN inbound' :
          IsRequest(outbound'[i]) /\ IsAck(inbound'[j]) => outbound'[i].id # inbound'[j].id
    <3>1. \A i \in DOMAIN outbound, j \in DOMAIN inbound :
            IsRequest(outbound[i]) /\ IsAck(inbound[j]) => outbound[i].id # inbound[j].id
      BY DEF SafeInv, IdsUnique
    <3>. QED  BY <3>1, <1>3, <2>2, <2>4
  <2>8. \A one, other \in unacked' : one.id = other.id => one = other
    <3>1. \A one, other \in unacked : one.id = other.id => one = other
      BY DEF SafeInv, IdsUnique
    <3>. QED  BY <3>1, <2>3
  <2>9. \A other \in unacked', i \in DOMAIN inbound' :
          IsAck(inbound'[i]) => other.id # inbound'[i].id
    <3>1. \A other \in unacked, i \in DOMAIN inbound :
            IsAck(inbound[i]) => other.id # inbound[i].id
      BY DEF SafeInv, IdsUnique
    <3>. QED  BY <3>1, <2>2, <2>3
  <2>10. \A i, j \in DOMAIN inbound' :
           IsAck(inbound'[i]) /\ IsAck(inbound'[j]) /\ inbound'[i].id = inbound'[j].id => i = j
    <3>1. \A i, j \in DOMAIN inbound :
            IsAck(inbound[i]) /\ IsAck(inbound[j]) /\ inbound[i].id = inbound[j].id => i = j
      BY DEF SafeInv, IdsUnique
    <3>. QED  BY <3>1, <2>2
  <2>. QED  BY <2>5, <2>6, <2>7, <2>8, <2>9, <2>10 DEF IdsUnique
<1>9. StreamConforms'
  BY <1>1, <1>2 DEF SafeInv, StreamConforms
<1>10. FramesAnswer' /\ OkMeansAcked' /\ Begun'
  BY <1>3 DEF SafeInv, FramesAnswer, OkMeansAcked, Begun
<1>. QED  BY <1>3, <1>7, <1>8, <1>9, <1>10 DEF SafeInv, ConformingBrokerAccepted

\* A step that leaves every packet where it is.
LEMMA QuietSafe ==
    ASSUME SafeInv, TypeOK', OpStep, exit' \notin {"UnexpectedPacket", "MalformedPacket"},
           UNCHANGED <<unacked, acked, outbound, inbound>>,
           DOMAIN pending_acks' = DOMAIN pending_acks,
           \A id \in DOMAIN pending_acks : /\ pending_acks'[id].op = pending_acks[id].op
                                           /\ pending_acks'[id].ack = pending_acks[id].ack,
           \A i \in DOMAIN flush_actions' : AnswersOwn(flush_actions'[i]),
           \A i \in DOMAIN commands' : op'[commands'[i]] # "idle"
    PROVE  SafeInv'
<1>1. inbound \in Seq(Packets)
  BY DEF SafeInv, TypeOK
<1>2. \A i \in DOMAIN inbound : i \in Nat /\ i + 0 = i
  BY <1>1
<1>3. \A i \in DOMAIN outbound : AnswersOwn(outbound[i])
  BY DEF SafeInv, FramesAnswer
<1>. QED  BY <1>2, <1>3, KeepSafe

\* A step that queues a frame with no identifier, or a PUBACK.
LEMMA QueueSafe ==
    ASSUME SafeInv, TypeOK', UNCHANGED <<op, unacked, acked, pending_acks, flush_actions, exit>>,
           NEW frame \in Frames, ~IsRequest(frame), AnswersOwn(frame),
           outbound' = Append(outbound, frame),
           inbound' = inbound \/ (inbound # << >> /\ inbound' = Tail(inbound)),
           \A i \in DOMAIN commands' : op[commands'[i]] # "idle"
    PROVE  SafeInv'
<1>0. outbound \in Seq(Frames) /\ inbound \in Seq(Packets)
  BY DEF SafeInv, TypeOK
<1>1. \A i \in DOMAIN outbound' : \/ i \in DOMAIN outbound /\ outbound'[i] = outbound[i]
                                  \/ outbound'[i] = frame
  BY <1>0, AppendIndex
<1>2. \A i \in DOMAIN outbound' : /\ AnswersOwn(outbound'[i])
                                  /\ IsRequest(outbound'[i]) =>
                                       i \in DOMAIN outbound /\ outbound'[i] = outbound[i]
  BY <1>1 DEF SafeInv, FramesAnswer
<1>3. \E d \in {0, 1} : \A i \in DOMAIN inbound' : i \in Nat /\ i + d \in DOMAIN inbound
                                                   /\ inbound'[i] = inbound[i + d]
  <2>1. CASE inbound' = inbound
    <3>1. \A i \in DOMAIN inbound : i \in Nat /\ i + 0 = i
      BY <1>0
    <3>. QED  BY <2>1, <3>1
  <2>2. CASE inbound # << >> /\ inbound' = Tail(inbound)
    BY <1>0, <2>2, TailIndex
  <2>. QED  BY <2>1, <2>2
<1>4. OpStep /\ exit \notin {"UnexpectedPacket", "MalformedPacket"}
  BY DEF OpStep, SafeInv, ConformingBrokerAccepted
<1>5. \A i \in DOMAIN flush_actions : AnswersOwn(flush_actions[i])
  BY DEF SafeInv, FramesAnswer
<1>. QED  BY <1>2, <1>3, <1>4, <1>5, KeepSafe

\* The driver returns, with an error that does not accuse the broker.
LEMMA ReturnSafe ==
    ASSUME SafeInv, TypeOK', NEW result, NEW sent, Return(result, sent, op),
           result \notin {"UnexpectedPacket", "MalformedPacket"}
    PROVE  SafeInv'
<1>1. OpStep
  BY DEF Return, fail_pending, OpStep
<1>. QED  BY <1>1, ClosedSafe DEF Return

----------------------------------------------------------------------------
(* The steps.                                                               *)

\* The calls of the application.
LEMMA ApplicationSafe ==
    ASSUME SafeInv, TypeOK', Application
    PROVE  SafeInv'
<1>. USE DEF callerVars, loopVars, endVars, ackVars, queueVars, pingVars, brokerVars
<1>0. /\ op \in [Ops -> OpStates] /\ commands \in Seq(Ops)
      /\ exit \notin {"UnexpectedPacket", "MalformedPacket"}
      /\ \A i \in DOMAIN commands : op[commands[i]] # "idle" /\ commands[i] \in Ops
      /\ \A i \in DOMAIN flush_actions : AnswersOwn(flush_actions[i])
  <2>1. op \in [Ops -> OpStates] /\ commands \in Seq(Ops)
    BY DEF SafeInv, TypeOK
  <2>2. \A i \in DOMAIN commands : commands[i] \in Ops
    BY <2>1
  <2>. QED  BY <2>1, <2>2 DEF SafeInv, ConformingBrokerAccepted, Begun, FramesAnswer
<1>1. ASSUME NEW o \in Ops, DriverUnchanged, UNCHANGED commands,
             NEW result \in OpStates \ {"Ok", "idle"}, op' = [op EXCEPT ![o] = result]
      PROVE  SafeInv'
  <2>1. OpStep /\ \A i \in DOMAIN commands : op'[commands[i]] # "idle"
    BY <1>0, <1>1 DEF OpStep
  <2>. QED  BY <1>0, <1>1, <2>1, QuietSafe DEF DriverUnchanged
<1>2. ASSUME NEW o \in Ops, send_command(o)
      PROVE  SafeInv'
  <2>1. CASE /\ op' = [op EXCEPT ![o] = "waiting"] /\ commands' = Append(commands, o)
    <3>1. \A i \in DOMAIN commands' : \/ i \in DOMAIN commands /\ commands'[i] = commands[i]
                                      \/ commands'[i] = o
      BY <1>0, <2>1, AppendIndex
    <3>2. OpStep /\ \A i \in DOMAIN commands' : op'[commands'[i]] # "idle"
      BY <1>0, <2>1, <3>1 DEF OpStep
    <3>. QED  BY <1>0, <1>2, <3>2, QuietSafe DEF send_command, DriverUnchanged
  <2>. QED  BY <1>1, <1>2, <2>1 DEF send_command, OpStates, Results
<1>3. ASSUME UNCHANGED <<op, commands>>, DriverUnchanged
      PROVE  SafeInv'
  <2>1. OpStep
    BY <1>3 DEF OpStep
  <2>. QED  BY <1>0, <1>3, <2>1, QuietSafe DEF DriverUnchanged
<1>4. ASSUME DropDriver  PROVE SafeInv'
  <2>1. OpStep
    BY <1>0, <1>4 DEF DropDriver, OpStep
  <2>. QED  BY <1>4, <2>1, ClosedSafe DEF DropDriver
<1>5. ASSUME NEW o \in Ops, publish(o) \/ Cancel(o)
      PROVE  SafeInv'
  BY <1>1, <1>2, <1>5 DEF publish, Cancel, OpStates, Results
<1>. QED  BY <1>2, <1>3, <1>4, <1>5 DEF Application, subscribe, unsubscribe, disconnect, next_event,
                                        DropHandle

\* A command taken from the channel, whatever becomes of it.
LEMMA ProcessSafe ==
    ASSUME SafeInv, TypeOK', commands # << >>, commands' = Tail(commands),
           process_command(Head(commands))
    PROVE  SafeInv'
<1>. USE DEF callerVars, loopVars, endVars, ackVars, queueVars, pingVars, brokerVars
<1>. DEFINE o == Head(commands)
<1>0. op \in [Ops -> OpStates] /\ commands \in Seq(Ops) /\ outbound_bytes \in Nat
  BY DEF SafeInv, TypeOK
<1>1. o \in Ops /\ op[o] # "idle"
  BY <1>0, HeadIndex DEF SafeInv, Begun
<1>2. \A i \in DOMAIN commands' : op[commands'[i]] # "idle" /\ commands'[i] \in Ops
  BY <1>0, TailIndex DEF SafeInv, Begun
<1>3. Request[o].kind \in RequestKinds /\ Request[o].len \in Nat \ {0}
  BY <1>1, ConstantsAssumption
<1>4. /\ UNCHANGED <<inbound, unacked, acked, exit>>
      /\ exit \notin {"UnexpectedPacket", "MalformedPacket"}
      /\ \A i \in DOMAIN flush_actions : AnswersOwn(flush_actions[i])
  BY DEF process_command, ProcessUnchanged, SafeInv, ConformingBrokerAccepted, FramesAnswer
<1>. HIDE DEF o
<1>5. ASSUME NEW error \in OpStates \ {"Ok", "idle"}, Refuse(o, error)
      PROVE  SafeInv'
  <2>1. OpStep /\ \A i \in DOMAIN commands' : op'[commands'[i]] # "idle"
    BY <1>0, <1>1, <1>2, <1>5 DEF OpStep, Refuse, Send
  <2>. QED  BY <1>4, <1>5, <2>1, QuietSafe DEF Refuse
<1>6. ASSUME NEW frame \in Frames, ~IsRequest(frame), AnswersOwn(frame), enqueue(frame),
             UNCHANGED <<op, pending_acks>>
      PROVE  SafeInv'
  BY <1>2, <1>4, <1>6, QueueSafe DEF enqueue
<1>7. \A len : EnqueueError(len) \in OpStates \ {"Ok", "idle"}
  BY DEF EnqueueError, OpStates, Results
<1>8. CASE closing /\ Refuse(o, "ClientClosed")
  BY <1>5, <1>8 DEF OpStates, Results
<1>9. CASE Request[o].kind = "PublishQos0" /\ begin_publish_qos0(o)
  <2>. DEFINE frame == Frame("PUBLISH", 0, o, Request[o].len, "PublishQos0")
  <2>1. frame \in Frames /\ ~IsRequest(frame) /\ AnswersOwn(frame)
    <3>1. frame \in Frames
      BY <1>1, <1>3 DEF Frame, Frames, FrameTypes, WrittenActions
    <3>2. frame.id = 0 /\ frame.op = o
      BY DEF Frame
    <3>3. o \in Unacknowledged
      BY <1>1, <1>9 DEF Unacknowledged
    <3>. QED  BY <3>1, <3>2, <3>3 DEF IsRequest, AnswersOwn
  <2>. HIDE DEF frame
  <2>2. \/ Refuse(o, "Invalid") \/ Refuse(o, EnqueueError(Request[o].len))
        \/ enqueue(frame) /\ UNCHANGED <<op, pending_acks>>
    BY <1>9 DEF begin_publish_qos0, frame
  <2>. QED  BY <1>5, <1>6, <1>7, <2>1, <2>2 DEF OpStates, Results
<1>10. CASE Request[o].kind = "Disconnect" /\ begin_disconnect(o)
  <2>. DEFINE frame == Frame("DISCONNECT", 0, o, ShortLen, "Disconnect")
  <2>1. frame \in Frames /\ ~IsRequest(frame) /\ AnswersOwn(frame)
    <3>1. frame \in Frames
      BY <1>1 DEF Frame, Frames, FrameTypes, WrittenActions, ShortLen
    <3>2. frame.id = 0 /\ frame.op = o
      BY DEF Frame
    <3>3. o \in Unacknowledged
      BY <1>1, <1>10 DEF Unacknowledged
    <3>. QED  BY <3>1, <3>2, <3>3 DEF IsRequest, AnswersOwn
  <2>. HIDE DEF frame
  <2>2. \/ Refuse(o, EnqueueError(ShortLen))
        \/ enqueue(frame) /\ UNCHANGED <<op, pending_acks>>
    BY <1>10 DEF begin_disconnect, frame
  <2>. QED  BY <1>5, <1>6, <1>7, <2>1, <2>2
<1>11. CASE Request[o].kind \notin {"PublishQos0", "Disconnect"} /\ begin_acknowledged(o)
  <2>1. Refusal(o) # "none" => Refusal(o) \in OpStates \ {"Ok", "idle"}
    BY <1>7 DEF Refusal, OpStates, Results
  <2>2. AckClassOf(Request[o].kind) \in AckClasses
    BY <1>3, <1>11 DEF RequestKinds, AckClassOf, AckClasses
  <2>3. ASSUME NEW id \in PacketIds, reserve_packet_id(id),
               pending_acks' = With(id, NewPending(o, AckClassOf(Request[o].kind))),
               enqueue(Frame(RequestType(AckClassOf(Request[o].kind)), id, o, Request[o].len, "None")),
               UNCHANGED op
        PROVE  SafeInv'
    <3>. DEFINE class == AckClassOf(Request[o].kind)
    <3>. DEFINE frame == Frame(RequestType(class), id, o, Request[o].len, "None")
    <3>1. frame \in Frames
      BY <1>1, <1>3, <2>2, ConstantsAssumption
         DEF Frame, Frames, FrameTypes, WrittenActions, RequestType, AckClasses, PacketIds
    <3>2. id \notin DOMAIN pending_acks
      BY <2>3 DEF reserve_packet_id, Free
    <3>3. outbound' = Append(outbound, frame) /\ UNCHANGED flush_actions
      BY <2>3 DEF enqueue
    <3>. QED  BY <1>1, <1>2, <1>4, <2>2, <2>3, <3>1, <3>2, <3>3, RequestSafe
  <2>4. ASSUME NEW id \in PacketIds, Refuse(o, Refusal(o)), Refusal(o) # "none"
        PROVE  SafeInv'
    BY <1>5, <2>1, <2>4
  <2>5. CASE Refuse(o, IF Request[o].defect = "validate" THEN "Invalid" ELSE "QueueFull")
    BY <1>5, <2>5 DEF OpStates, Results
  <2>. QED  BY <1>11, <2>3, <2>4, <2>5 DEF begin_acknowledged
<1>12. \/ closing /\ Refuse(o, "ClientClosed")
       \/ Request[o].kind = "PublishQos0" /\ begin_publish_qos0(o)
       \/ Request[o].kind = "Disconnect" /\ begin_disconnect(o)
       \/ Request[o].kind \notin {"PublishQos0", "Disconnect"} /\ begin_acknowledged(o)
  BY DEF process_command, Begin, o
<1>. QED  BY <1>8, <1>9, <1>10, <1>11, <1>12

\* The commands, the flushes and the writes.
LEMMA OutboundSafe ==
    ASSUME SafeInv, TypeOK',
           \/ Start \/ DrainCommand \/ DrainEnd \/ DrainDisconnected \/ FlushNotNeeded
           \/ complete_written \/ FlushEnd \/ WriteEnd \/ Finish \/ Continue
           \/ WaitCommand \/ WaitTimeout \/ WaitDisconnected \/ TransportAccepts
           \/ TransportRefuses \/ TransportBreaks
    PROVE  SafeInv'
<1>. USE DEF callerVars, loopVars, endVars, ackVars, queueVars, pingVars, brokerVars
<1>0. /\ exit \notin {"UnexpectedPacket", "MalformedPacket"}
      /\ \A i \in DOMAIN commands : op[commands[i]] # "idle"
      /\ \A i \in DOMAIN flush_actions : AnswersOwn(flush_actions[i])
  BY DEF SafeInv, ConformingBrokerAccepted, FramesAnswer, Begun
<1>1. ASSUME UNCHANGED <<op, exit, unacked, acked, outbound, inbound, pending_acks, flush_actions, commands>>
      PROVE  SafeInv'
  <2>1. OpStep
    BY <1>1 DEF OpStep
  <2>. QED  BY <1>0, <1>1, <2>1, QuietSafe
<1>2. CASE \/ Start \/ DrainEnd \/ FlushNotNeeded \/ FlushEnd \/ WriteEnd \/ Continue \/ WaitTimeout
           \/ TransportRefuses \/ FlushAccepted
  <2>1. UNCHANGED <<op, exit, unacked, acked, outbound, inbound, pending_acks, flush_actions, commands>>
    BY <1>2 DEF Start, DrainEnd, FlushNotNeeded, FlushEnd, WriteEnd, Continue, WaitTimeout,
                TransportRefuses, FlushBlocked, WritePart, WriteBlocked, FlushAccepted, OnlyPc, WriteUnchanged
  <2>. QED  BY <1>1, <2>1
<1>3. CASE DrainCommand \/ WaitCommand
  BY <1>3, ProcessSafe DEF DrainCommand, WaitCommand
<1>4. CASE DrainDisconnected \/ WaitDisconnected
  <2>. DEFINE frame == Frame("DISCONNECT", 0, NoOp, ShortLen, "AbandonedDisconnect")
  <2>1. frame \in Frames /\ ~IsRequest(frame) /\ AnswersOwn(frame)
    BY DEF Frame, Frames, FrameTypes, WrittenActions, IsRequest, AnswersOwn, Answers, ShortLen
  <2>. HIDE DEF frame
  <2>2. \/ Return(EnqueueError(ShortLen), << >>, op)
        \/ /\ UNCHANGED <<op, exit, unacked, acked, inbound, pending_acks, commands>>
           /\ UNCHANGED <<outbound, flush_actions>> \/ enqueue(frame)
    BY <1>4 DEF DrainDisconnected, WaitDisconnected, begin_abandoned_disconnect, frame
  <2>3. CASE Return(EnqueueError(ShortLen), << >>, op)
    BY <2>3, ReturnSafe DEF EnqueueError
  <2>4. CASE /\ UNCHANGED <<op, exit, unacked, acked, inbound, pending_acks, commands>>
             /\ enqueue(frame)
    BY <1>0, <2>1, <2>4, QueueSafe DEF enqueue
  <2>. QED  BY <1>1, <2>2, <2>3, <2>4
<1>5. CASE complete_written
  <2>0. op \in [Ops -> OpStates] /\ flush_actions \in Seq(Frames) /\ commands \in Seq(Ops)
    BY DEF SafeInv, TypeOK
  <2>1. flush_actions # << >> /\ flush_actions' = Tail(flush_actions) /\ AnswersOwn(Head(flush_actions))
    BY <1>0, <1>5, <2>0, HeadIndex DEF complete_written
  <2>2. \A i \in DOMAIN flush_actions' : AnswersOwn(flush_actions'[i])
    BY <1>0, <2>0, <2>1, TailIndex
  <2>3. \A i \in DOMAIN commands : commands[i] \in Ops
    BY <2>0
  <2>4. \A o \in Ops : op'[o] = op[o] \/ (op'[o] = "Ok" /\ o \in Unacknowledged)
    BY <1>5, <2>0, <2>1 DEF complete_written, Send, AnswersOwn
  <2>5. OpStep /\ \A i \in DOMAIN commands : op'[commands[i]] # "idle"
    BY <1>0, <2>3, <2>4 DEF OpStep
  <2>6. UNCHANGED <<exit, unacked, acked, outbound, inbound, pending_acks, commands>>
    BY <1>5 DEF complete_written
  <2>. QED  BY <1>0, <2>2, <2>5, <2>6, QuietSafe
<1>6. CASE WriteFrame
  BY <1>6, WriteSafe DEF WriteFrame, Writes, WriteUnchanged, Deliver
<1>7. CASE Finish \/ TransportBreaks
  BY <1>7, ReturnSafe DEF Finish, TransportBreaks, TransportFails, ReadFails
<1>. QED  BY <1>2, <1>3, <1>4, <1>5, <1>6, <1>7 DEF TransportAccepts

\* The packets from the broker.
LEMMA InboundSafe ==
    ASSUME SafeInv, TypeOK',
           \/ ReadSome \/ ReadEof \/ dispatch_publish \/ (\E class \in AckClasses : dispatch_ack(class))
           \/ dispatch_pingresp \/ dispatch_disconnect \/ dispatch_invalid \/ DispatchEnd
    PROVE  SafeInv'
<1>. USE DEF callerVars, loopVars, endVars, ackVars, queueVars, pingVars, brokerVars
<1>0. /\ exit \notin {"UnexpectedPacket", "MalformedPacket"}
      /\ \A i \in DOMAIN commands : op[commands[i]] # "idle"
      /\ \A i \in DOMAIN flush_actions : AnswersOwn(flush_actions[i])
      /\ \A i \in DOMAIN outbound : AnswersOwn(outbound[i])
      /\ inbound \in Seq(Packets) /\ op \in [Ops -> OpStates] /\ read \in 0..Len(inbound)
  BY DEF SafeInv, ConformingBrokerAccepted, FramesAnswer, Begun, TypeOK
<1>1. CASE ReadSome \/ DispatchEnd
  <2>1. UNCHANGED <<op, exit, unacked, acked, outbound, inbound, pending_acks, flush_actions, commands>>
    BY <1>1 DEF ReadSome, DispatchEnd, OnlyPc
  <2>2. OpStep
    BY <2>1 DEF OpStep
  <2>. QED  BY <1>0, <2>1, <2>2, QuietSafe
<1>2. CASE ReadEof \/ dispatch_disconnect
  BY <1>2, ReturnSafe DEF ReadEof, dispatch_disconnect
<1>3. ASSUME read > 0
      PROVE  /\ inbound # << >> /\ 1 \in DOMAIN inbound /\ Head(inbound) = inbound[1]
             /\ Head(inbound) \in Packets
             /\ \A i \in DOMAIN Tail(inbound) : /\ i \in Nat /\ i + 1 \in DOMAIN inbound
                                                /\ Tail(inbound)[i] = inbound[i + 1]
  <2>1. Len(inbound) \in Nat /\ Len(inbound) # 0
    BY <1>0, <1>3
  <2>2. inbound # << >>
    BY <1>0, <2>1, EmptySeq
  <2>3. 1 \in DOMAIN inbound /\ Head(inbound) = inbound[1]
    BY <1>0, <2>2, HeadIndex
  <2>4. Head(inbound) \in Packets
    BY <1>0, <2>3
  <2>. QED  BY <1>0, <2>2, <2>3, <2>4, TailIndex
<1>4. CASE dispatch_publish
  <2>. DEFINE id == Head(inbound).id
  <2>. DEFINE frame == Frame("PUBACK", id, NoOp, PubAckLen, "None")
  <2>0. read > 0
    BY <1>4 DEF dispatch_publish, Dispatches
  <2>1. frame \in Frames /\ ~IsRequest(frame) /\ AnswersOwn(frame)
    <3>1. id \in Nat
      BY <1>3, <2>0 DEF Packets
    <3>. HIDE DEF id
    <3>2. frame \in Frames
      BY <3>1 DEF Frame, Frames, FrameTypes, WrittenActions, PubAckLen
    <3>3. frame.type = "PUBACK" /\ frame.action = "None"
      BY DEF Frame
    <3>. QED  BY <3>2, <3>3 DEF IsRequest, AnswersOwn, Answers
  <2>. HIDE DEF frame
  <2>2. \/ \E result \in {"PacketTooLarge", "QueueFull", "ClientClosed"} : Return(result, << >>, op)
        \/ /\ UNCHANGED <<op, exit, unacked, acked, pending_acks, commands>>
           /\ inbound' = Tail(inbound)
           /\ UNCHANGED <<outbound, flush_actions>> \/ enqueue(frame)
    BY <1>4 DEF dispatch_publish, EnqueueError, DispatchNext, frame
  <2>3. CASE /\ UNCHANGED <<op, exit, unacked, acked, pending_acks, commands>>
             /\ inbound' = Tail(inbound)
             /\ enqueue(frame)
    BY <1>0, <1>3, <2>0, <2>1, <2>3, QueueSafe DEF enqueue
  <2>4. CASE /\ UNCHANGED <<op, exit, unacked, acked, pending_acks, commands>>
             /\ inbound' = Tail(inbound)
             /\ UNCHANGED <<outbound, flush_actions>>
    <3>1. OpStep
      BY <2>4 DEF OpStep
    <3>. QED  BY <1>0, <1>3, <2>0, <2>4, <3>1, KeepSafe
  <2>. QED  BY <2>2, <2>3, <2>4, ReturnSafe
<1>5. CASE dispatch_pingresp
  <2>1. /\ UNCHANGED <<op, exit, unacked, acked, pending_acks, commands, outbound, flush_actions>>
        /\ inbound' = Tail(inbound) /\ read > 0
    BY <1>5 DEF dispatch_pingresp, DispatchNext, Dispatches
  <2>2. OpStep
    BY <2>1 DEF OpStep
  <2>. QED  BY <1>0, <1>3, <2>1, <2>2, KeepSafe
<1>6. CASE dispatch_invalid
  <2>1. read > 0 /\ Head(inbound).type \in {"OTHER", "BAD"}
    BY <1>6 DEF dispatch_invalid, Dispatches
  <2>. QED  BY <1>3, <2>1 DEF SafeInv, StreamConforms
<1>7. ASSUME NEW class \in AckClasses, dispatch_ack(class)
      PROVE  SafeInv'
  <2>. DEFINE packet == Head(inbound)
  <2>0. read > 0 /\ packet.type = AckType(class)
    BY <1>7 DEF dispatch_ack, Dispatches
  <2>1. IsAck(packet) /\ packet.code \in {"ok", "rejected"}
    <3>1. packet.code # "malformed" /\ packet.code \in Codes
      BY <1>3, <2>0 DEF SafeInv, StreamConforms, Packets
    <3>. QED  BY <2>0, <3>1 DEF AckType, AckClasses, IsAck, Codes
  <2>2. Owned(packet.id, packet.type, packet.op)
    BY <1>3, <2>0, <2>1 DEF SafeInv, PacketIdsOwned
  <2>3. /\ packet.id \in DOMAIN pending_acks /\ pending_acks[packet.id].op = packet.op
        /\ pending_acks[packet.id] \in PendingAcks
    BY <2>2 DEF Owned, SafeInv, TypeOK
  <2>4. pending_acks[packet.id].ack = class
    BY <2>0, <2>2, <2>3 DEF Owned, PendingAcks, AckClasses, AckType, RequestType
  <2>5. /\ inbound' = Tail(inbound) /\ pending_acks' = Without(packet.id)
        /\ op' = op \/ op' = Complete(packet.id, packet.code)
        /\ UNCHANGED <<unacked, acked, outbound, flush_actions, commands, exit>>
    BY <1>7, <2>1, <2>3, <2>4 DEF dispatch_ack, Takes, DispatchNext
  <2>6. packet.code = "ok" => packet.op \in acked
    BY <1>3, <2>0, <2>1 DEF SafeInv, StreamConforms
  <2>7. packet.op \in Ops
    BY <2>3 DEF PendingAcks
  <2>8. OpStep
    BY <1>0, <2>1, <2>3, <2>5, <2>6, <2>7 DEF OpStep, Complete, Send, AckResult
  <2>. QED  BY <1>3, <2>0, <2>1, <2>5, <2>8, AckSafe
<1>. QED  BY <1>1, <1>2, <1>4, <1>5, <1>6, <1>7

\* Deadlines, the keep-alive and time.
LEMMA TimerSafe ==
    ASSUME SafeInv, TypeOK', expire_operations \/ maintain_keep_alive \/ Tick
    PROVE  SafeInv'
<1>. USE DEF callerVars, loopVars, endVars, ackVars, queueVars, pingVars, brokerVars
<1>0. /\ exit \notin {"UnexpectedPacket", "MalformedPacket"}
      /\ \A i \in DOMAIN commands : op[commands[i]] # "idle"
      /\ \A i \in DOMAIN flush_actions : AnswersOwn(flush_actions[i])
      /\ op \in [Ops -> OpStates] /\ commands \in Seq(Ops)
      /\ \A id \in DOMAIN pending_acks : pending_acks[id] \in PendingAcks
  BY DEF SafeInv, ConformingBrokerAccepted, FramesAnswer, Begun, TypeOK
<1>1. CASE expire_operations
  <2>1. \A i \in DOMAIN commands : commands[i] \in Ops
    BY <1>0
  <2>2. OpStep /\ \A i \in DOMAIN commands : op'[commands[i]] # "idle"
    BY <1>0, <1>1, <2>1 DEF expire_operations, OpStep
  <2>3. UNCHANGED <<exit, unacked, acked, outbound, inbound, flush_actions, commands>>
    BY <1>1 DEF expire_operations
  <2>4. /\ DOMAIN pending_acks' = DOMAIN pending_acks
        /\ \A id \in DOMAIN pending_acks : /\ pending_acks'[id].op = pending_acks[id].op
                                           /\ pending_acks'[id].ack = pending_acks[id].ack
    BY <1>0, <1>1 DEF expire_operations, AfterExpiry, Tombstone, PendingAcks
  <2>. QED  BY <1>0, <2>2, <2>3, <2>4, QuietSafe
<1>2. CASE Tick
  <2>1. UNCHANGED <<op, exit, unacked, acked, outbound, inbound, flush_actions, commands>>
    BY <1>2 DEF Tick
  <2>2. /\ DOMAIN pending_acks' = DOMAIN pending_acks
        /\ \A id \in DOMAIN pending_acks : /\ pending_acks'[id].op = pending_acks[id].op
                                           /\ pending_acks'[id].ack = pending_acks[id].ack
    BY <1>0, <1>2 DEF Tick, PendingAcks
  <2>3. OpStep
    BY <2>1 DEF OpStep
  <2>. QED  BY <1>0, <2>1, <2>2, <2>3, QuietSafe
<1>3. CASE maintain_keep_alive
  <2>. DEFINE frame == Frame("PINGREQ", 0, NoOp, ShortLen, "PingReq")
  <2>1. frame \in Frames /\ ~IsRequest(frame) /\ AnswersOwn(frame)
    BY DEF Frame, Frames, FrameTypes, WrittenActions, IsRequest, AnswersOwn, Answers, ShortLen
  <2>. HIDE DEF frame
  <2>2. \/ \E result \in {"KeepAliveTimeout", "PacketTooLarge", "QueueFull"} : Return(result, << >>, op)
        \/ /\ UNCHANGED <<op, exit, unacked, acked, inbound, pending_acks, commands>>
           /\ UNCHANGED <<outbound, flush_actions>> \/ enqueue(frame)
    BY <1>3 DEF maintain_keep_alive, EnqueueError, OnlyPc, frame
  <2>3. CASE /\ UNCHANGED <<op, exit, unacked, acked, inbound, pending_acks, commands>>
             /\ enqueue(frame)
    BY <1>0, <2>1, <2>3, QueueSafe DEF enqueue
  <2>4. CASE UNCHANGED <<op, exit, unacked, acked, inbound, pending_acks, commands, outbound, flush_actions>>
    <3>1. OpStep
      BY <2>4 DEF OpStep
    <3>. QED  BY <1>0, <2>4, <3>1, QuietSafe
  <2>. QED  BY <2>2, <2>3, <2>4, ReturnSafe
<1>. QED  BY <1>1, <1>2, <1>3

\* What the broker sends.
LEMMA BrokerSafe ==
    ASSUME SafeInv, TypeOK', Broker
    PROVE  SafeInv'
<1>1. published \in Nat /\ published + 1 \in Nat
  <2>1. published \in 0..Len(MessageQos)
    BY DEF SafeInv, TypeOK
  <2>2. MessageQos \in Seq({0, 1})
    BY ConstantsAssumption
  <2>. QED  BY <2>1, <2>2
<1>2. ASSUME NEW type \in {"PINGRESP", "PUBLISH", "DISCONNECT", "EOF"}, NEW id \in Nat,
             BrokerSends(Packet(type, id, NoOp, "ok")), UNCHANGED <<unacked, acked>>
      PROVE  SafeInv'
  <2>. DEFINE packet == Packet(type, id, NoOp, "ok")
  <2>1. /\ packet \in Packets /\ ~IsAck(packet) /\ packet.type \notin {"OTHER", "BAD"}
        /\ packet.code # "malformed"
    BY DEF Packet, Packets, PacketTypes, Codes, IsAck
  <2>. HIDE DEF packet
  <2>2. BrokerSends(packet)
    BY <1>2 DEF packet
  <2>. QED  BY <1>2, <2>1, <2>2, MessageSafe
<1>. QED  BY <1>1, <1>2, BrokerAckSafe DEF Broker, BrokerPingResp, BrokerPublish, BrokerDisconnect, BrokerClose

\* Every step preserves the invariant.
LEMMA StepSafe ==
    ASSUME SafeInv, [Next]_vars
    PROVE  SafeInv'
<1>1. TypeOK'
  BY StepType DEF SafeInv, FaultyNext
<1>2. CASE UNCHANGED vars
  <2>1. UNCHANGED <<op, exit, unacked, acked, outbound, inbound, pending_acks, flush_actions, commands>>
    BY <1>2 DEF vars, callerVars, endVars, ackVars, queueVars, brokerVars
  <2>2. OpStep /\ exit \notin {"UnexpectedPacket", "MalformedPacket"}
    BY <2>1 DEF OpStep, SafeInv, ConformingBrokerAccepted
  <2>3. /\ \A i \in DOMAIN flush_actions : AnswersOwn(flush_actions[i])
        /\ \A i \in DOMAIN commands : op[commands[i]] # "idle"
    BY DEF SafeInv, FramesAnswer, Begun
  <2>. QED  BY <1>1, <2>1, <2>2, <2>3, QuietSafe
<1>3. CASE Next
  BY <1>1, <1>2, <1>3, ApplicationSafe, OutboundSafe, InboundSafe, TimerSafe, BrokerSafe
     DEF Next, Driver, Ended
<1>. QED  BY <1>2, <1>3

\* The invariant holds before the first step.
LEMMA InitSafe == Init => SafeInv
<1>. SUFFICES ASSUME Init PROVE SafeInv
  OBVIOUS
<1>1. TypeOK
  BY InitType
<1>2. /\ DOMAIN outbound = {} /\ DOMAIN flush_actions = {} /\ DOMAIN commands = {}
      /\ DOMAIN inbound = {} /\ DOMAIN pending_acks = {} /\ unacked = {}
  BY DEF Init, NoPending
<1>3. PacketIdsOwned /\ IdsUnique /\ StreamConforms /\ FramesAnswer /\ Begun
  BY <1>2 DEF PacketIdsOwned, IdsUnique, StreamConforms, FramesAnswer, Begun
<1>4. OkMeansAcked /\ ConformingBrokerAccepted
  BY DEF Init, OkMeansAcked, ConformingBrokerAccepted
<1>. QED  BY <1>1, <1>3, <1>4 DEF SafeInv

\* For every number of operations, identifiers and queue slots: with a broker that
\* keeps to the protocol, the invariant holds throughout.
THEOREM Safe == Spec => []SafeInv
<1>1. Init => SafeInv
  BY InitSafe
<1>2. SafeInv /\ [Next]_vars => SafeInv'
  BY StepSafe
<1>. QED  BY <1>1, <1>2, PTL DEF Spec

\* A packet identifier on its way belongs to the operation its entry was made for
\* (reserve_packet_id, expire_operations, take_pending_ack).
THEOREM IdentifiersOwned == Spec => []PacketIdsOwned
<1>1. SafeInv => PacketIdsOwned
  BY DEF SafeInv
<1>. QED  BY <1>1, Safe, PTL

\* An acknowledged operation succeeds only if the broker acknowledged that very
\* operation (dispatch_puback, dispatch_suback, dispatch_unsuback).
THEOREM SuccessIsAcknowledged == Spec => []OkMeansAcked
<1>1. SafeInv => OkMeansAcked
  BY DEF SafeInv
<1>. QED  BY <1>1, Safe, PTL

\* A broker that keeps to the protocol is never accused of breaking it
\* (take_pending_ack's mismatch, validate_reason_codes).
THEOREM ConformingBroker == Spec => []ConformingBrokerAccepted
<1>1. SafeInv => ConformingBrokerAccepted
  BY DEF SafeInv
<1>. QED  BY <1>1, Safe, PTL
=============================================================================
