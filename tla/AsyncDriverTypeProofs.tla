----------------------- MODULE AsyncDriverTypeProofs -----------------------
(* AsyncDriver is type correct for every value of its constants.            *)
EXTENDS AsyncDriver, SequenceTheorems, TLAPS

\* The driver ends in a state of the right type, whatever made it end.
LEMMA ReturnType ==
    ASSUME TypeOK, NEW result \in Exits, NEW sent, NEW known \in [Ops -> OpStates],
           sent = << >> \/ (\E e \in EventSet : sent = <<e>>),
           Return(result, sent, known)
    PROVE  TypeOK'
<1>1. op' \in [Ops -> OpStates]
  BY DEF Return, fail_pending, OpStates, Results
<1>2. events' \in Seq(EventSet)
  <2>1. Event("TransportClosed", 0) \in EventSet
    BY DEF Event, EventSet
  <2>2. \A e \in EventSet : TrySendEvent(e) \in Seq(EventSet)
    BY AppendProperties DEF TypeOK, TrySendEvent
  <2>. QED  BY <2>1, <2>2 DEF Return, TypeOK
<1>3. /\ exit' \in Exits /\ terminal_event_sent' \in BOOLEAN
  BY DEF Return, TypeOK
<1>4. DOMAIN pending_acks' = {}
  BY DEF Return, Closed, NoPending
<1>5. /\ outbound' \in Seq(Frames) /\ flush_actions' \in Seq(Frames)
      /\ commands' \in Seq(Ops) /\ inbound' \in Seq(Packets) /\ read' \in 0..Len(inbound')
  BY EmptySeq DEF Return, Closed
<1>. QED  BY <1>1, <1>2, <1>3, <1>4, <1>5 DEF Return, Closed, TypeOK, loopVars, pingVars, PCs

\* What an operation asks for has its type.
LEMMA RequestsTyped ==
    ASSUME NEW o \in Ops
    PROVE  /\ Request[o].kind \in RequestKinds /\ Request[o].len \in Nat \ {0}
           /\ Request[o].payload \in Nat /\ Request[o].defect \in Defects
BY ConstantsAssumption

\* Sending a result keeps the type of the results.
LEMMA SendType ==
    ASSUME TypeOK, NEW o, NEW result \in Results
    PROVE  Send(o, result) \in [Ops -> OpStates]
BY DEF TypeOK, Send, OpStates

\* Queueing a frame keeps the type of the queue.
LEMMA EnqueueType ==
    ASSUME TypeOK, NEW frame \in Frames, enqueue(frame)
    PROVE  /\ outbound' \in Seq(Frames) /\ outbound_bytes' \in Nat
           /\ started' \in BOOLEAN /\ flush_actions' \in Seq(Frames) /\ needs_flush' \in BOOLEAN
<1>1. outbound' \in Seq(Frames)
  BY AppendProperties DEF TypeOK, enqueue
<1>2. frame.len \in Nat
  BY DEF Frames
<1>3. outbound_bytes \in Nat /\ outbound_bytes' = outbound_bytes + frame.len
  BY DEF TypeOK, enqueue
<1>4. outbound_bytes' \in Nat
  BY <1>2, <1>3
<1>5. started' \in BOOLEAN /\ flush_actions' \in Seq(Frames) /\ needs_flush' \in BOOLEAN
  BY DEF TypeOK, enqueue
<1>. QED  BY <1>1, <1>4, <1>5

\* The steps of the application keep the types.
LEMMA ApplicationType ==
    ASSUME TypeOK, Application
    PROVE  TypeOK'
<1>1. ASSUME NEW o \in Ops, send_command(o)
      PROVE  TypeOK'
  <2>1. op' \in [Ops -> OpStates]
    BY <1>1 DEF TypeOK, send_command, OpStates, Results
  <2>2. commands' \in Seq(Ops)
    <3>1. Append(commands, o) \in Seq(Ops)
      BY AppendProperties DEF TypeOK
    <3>. QED  BY <1>1, <3>1 DEF TypeOK, send_command
  <2>. QED  BY <1>1, <2>1, <2>2 DEF TypeOK, send_command, DriverUnchanged, loopVars, endVars,
                 ackVars, queueVars, pingVars, brokerVars
<1>2. ASSUME NEW o \in Ops, publish(o)
      PROVE  TypeOK'
  <2>1. CASE send_command(o)
    BY <1>1, <2>1
  <2>2. CASE ~send_command(o)
    BY <1>2, <2>2 DEF publish, TypeOK, DriverUnchanged, loopVars, endVars,
       ackVars, queueVars, pingVars, brokerVars, OpStates, Results
  <2>. QED  BY <2>1, <2>2
<1>3. ASSUME NEW o \in Ops, Cancel(o)
      PROVE  TypeOK'
  BY <1>3 DEF Cancel, TypeOK, DriverUnchanged, loopVars, endVars,
     ackVars, queueVars, pingVars, brokerVars, OpStates
<1>4. CASE next_event
  <2>1. events' \in Seq(EventSet) /\ Head(events) \in EventSet
    BY <1>4, HeadTailProperties DEF next_event, TypeOK
  <2>2. Head(events).id \in Nat
    BY <2>1 DEF EventSet
  <2>3. seen' \in Seq(Nat)
    BY <1>4, <2>2, AppendProperties DEF next_event, TypeOK
  <2>. QED  BY <1>4, <2>1, <2>3 DEF next_event, TypeOK, DriverUnchanged, loopVars, endVars,
                 ackVars, queueVars, pingVars, brokerVars
<1>5. CASE DropHandle
  <2>1. events' \in Seq(EventSet)
    BY <1>5, EmptySeq DEF DropHandle
  <2>. QED  BY <1>5, <2>1 DEF DropHandle, TypeOK, DriverUnchanged, loopVars, endVars,
                 ackVars, queueVars, pingVars, brokerVars
<1>6. CASE DropDriver
  <2>1. op' \in [Ops -> OpStates] /\ exit' \in Exits
    BY <1>6 DEF DropDriver, TypeOK, OpStates, Results, Exits
  <2>2. DOMAIN pending_acks' = {}
    BY <1>6 DEF DropDriver, Closed, NoPending
  <2>3. /\ outbound' \in Seq(Frames) /\ flush_actions' \in Seq(Frames)
        /\ commands' \in Seq(Ops) /\ inbound' \in Seq(Packets) /\ read' \in 0..Len(inbound')
    BY <1>6, EmptySeq DEF DropDriver, Closed
  <2>. QED  BY <1>6, <2>1, <2>2, <2>3 DEF DropDriver, Closed, TypeOK, loopVars, pingVars, PCs
<1>. QED  BY <1>1, <1>2, <1>3, <1>4, <1>5, <1>6
          DEF Application, subscribe, unsubscribe, disconnect

\* A processed command keeps the types of what it may change.
LEMMA ProcessType ==
    ASSUME TypeOK, NEW o \in Ops, process_command(o)
    PROVE  /\ op' \in [Ops -> OpStates] /\ next_packet_id' \in PacketIds
           /\ DOMAIN pending_acks' \subseteq PacketIds
           /\ \A id \in DOMAIN pending_acks' : pending_acks'[id] \in PendingAcks
           /\ outbound' \in Seq(Frames) /\ outbound_bytes' \in Nat /\ started' \in BOOLEAN
           /\ flush_actions' \in Seq(Frames) /\ needs_flush' \in BOOLEAN /\ closing' \in BOOLEAN
<1>. DEFINE Kept == /\ DOMAIN pending_acks' \subseteq PacketIds
                    /\ \A id \in DOMAIN pending_acks' : pending_acks'[id] \in PendingAcks
            Queues == /\ outbound' \in Seq(Frames) /\ outbound_bytes' \in Nat
                      /\ started' \in BOOLEAN /\ flush_actions' \in Seq(Frames)
                      /\ needs_flush' \in BOOLEAN
<1>1. ASSUME NEW error \in Results, Refuse(o, error)
      PROVE  op' \in [Ops -> OpStates] /\ Kept /\ Queues /\ closing' \in BOOLEAN
  BY <1>1, SendType DEF Refuse, queueVars, TypeOK
<1>2. \A len \in Nat : EnqueueError(len) \in Results
  BY DEF EnqueueError, Results
<1>3. \A type \in FrameTypes, id \in Nat, len \in Nat \ {0}, action \in WrittenActions,
         p \in Ops \cup {NoOp} : Frame(type, id, p, len, action) \in Frames
  BY DEF Frame, Frames
<1>4. CASE begin_publish_qos0(o)
  <2>1. Frame("PUBLISH", 0, o, Request[o].len, "PublishQos0") \in Frames
    BY <1>3, RequestsTyped DEF FrameTypes, WrittenActions
  <2>2. CASE \E error \in Results : Refuse(o, error)
    BY <1>1, <1>4, <2>2 DEF begin_publish_qos0, ackVars, TypeOK
  <2>3. CASE enqueue(Frame("PUBLISH", 0, o, Request[o].len, "PublishQos0"))
             /\ UNCHANGED <<op, closing>>
    BY <1>4, <2>1, <2>3, EnqueueType DEF begin_publish_qos0, ackVars, TypeOK
  <2>4. "Invalid" \in Results /\ EnqueueError(Request[o].len) \in Results
    BY <1>2, RequestsTyped DEF Results
  <2>. QED  BY <1>4, <2>2, <2>3, <2>4 DEF begin_publish_qos0
<1>5. CASE begin_disconnect(o)
  <2>1. Frame("DISCONNECT", 0, o, ShortLen, "Disconnect") \in Frames
    BY <1>3 DEF FrameTypes, WrittenActions, ShortLen
  <2>2. CASE Refuse(o, EnqueueError(ShortLen))
    BY <1>1, <1>2, <1>5, <2>2 DEF begin_disconnect, ackVars, TypeOK, ShortLen
  <2>3. CASE enqueue(Frame("DISCONNECT", 0, o, ShortLen, "Disconnect")) /\ closing' = TRUE
             /\ UNCHANGED op
    BY <1>5, <2>1, <2>3, EnqueueType DEF begin_disconnect, ackVars, TypeOK
  <2>. QED  BY <1>5, <2>2, <2>3 DEF begin_disconnect
<1>6. CASE begin_acknowledged(o) /\ Request[o].kind \in {"PublishQos1", "Subscribe", "Unsubscribe"}
  <2>. DEFINE class == AckClassOf(Request[o].kind)
  <2>1. class \in AckClasses /\ RequestType(class) \in FrameTypes
    BY <1>6 DEF AckClassOf, AckClasses, RequestType, FrameTypes
  <2>2. CASE \E error \in Results : Refuse(o, error) /\ UNCHANGED next_packet_id
    BY <1>1, <2>2 DEF TypeOK
  <2>3. ASSUME NEW id \in PacketIds, next_packet_id' = NextId(id)
        PROVE  next_packet_id' \in PacketIds
    BY <2>3, ConstantsAssumption DEF NextId, PacketIds
  <2>4. ASSUME NEW id \in PacketIds, next_packet_id' = NextId(id), NEW error \in Results,
               Refuse(o, error)
        PROVE  op' \in [Ops -> OpStates] /\ Kept /\ Queues /\ closing' \in BOOLEAN
    BY <1>1, <2>4
  <2>5. ASSUME NEW id \in PacketIds, pending_acks' = With(id, NewPending(o, class)),
               enqueue(Frame(RequestType(class), id, o, Request[o].len, "None")),
               UNCHANGED <<op, closing>>
        PROVE  op' \in [Ops -> OpStates] /\ Kept /\ Queues /\ closing' \in BOOLEAN
    <3>1. Frame(RequestType(class), id, o, Request[o].len, "None") \in Frames
      BY <1>3, <2>1, RequestsTyped DEF WrittenActions, PacketIds
    <3>2. NewPending(o, class) \in PendingAcks
      BY <2>1, ConstantsAssumption DEF NewPending, PendingAcks, PendingKinds
    <3>3. Kept
      BY <2>5, <3>2 DEF With, TypeOK
    <3>. QED  BY <2>5, <3>1, <3>3, EnqueueType DEF TypeOK
  <2>6. Refusal(o) # "none" => Refusal(o) \in Results
    BY <1>2, RequestsTyped DEF Refusal, Results
  <2>7. {"Invalid", "QueueFull"} \subseteq Results
    BY DEF Results
  <2>. QED  BY <1>6, <2>2, <2>3, <2>4, <2>5, <2>6, <2>7 DEF begin_acknowledged
<1>7. CASE Refuse(o, "ClientClosed") /\ UNCHANGED next_packet_id
  BY <1>1, <1>7 DEF TypeOK, Results
<1>. QED  BY <1>4, <1>5, <1>6, <1>7, RequestsTyped DEF process_command, Begin, RequestKinds

\* The steps of the driver that take commands or only move on keep the types.
LEMMA CommandType ==
    ASSUME TypeOK,
           \/ Start \/ DrainCommand \/ DrainEnd \/ DrainDisconnected
           \/ WaitCommand \/ WaitTimeout \/ WaitDisconnected
    PROVE  TypeOK'
<1>1. ASSUME NEW next, next => (pc' \in PCs /\ pass' \in {1, 2} /\ budget' \in 0..command_capacity),
             begin_abandoned_disconnect(next)
      PROVE  TypeOK'
  <2>1. EnqueueError(ShortLen) \in Exits
    BY DEF EnqueueError, Exits
  <2>2. CASE Return(EnqueueError(ShortLen), << >>, op)
    BY <2>1, <2>2, ReturnType DEF TypeOK
  <2>3. CASE ~Return(EnqueueError(ShortLen), << >>, op)
    <3>1. Frame("DISCONNECT", 0, NoOp, ShortLen, "AbandonedDisconnect") \in Frames
      BY DEF Frame, Frames, FrameTypes, WrittenActions, ShortLen
    <3>2. /\ outbound' \in Seq(Frames) /\ outbound_bytes' \in Nat /\ started' \in BOOLEAN
          /\ flush_actions' \in Seq(Frames) /\ needs_flush' \in BOOLEAN
      BY <1>1, <2>3, <3>1, EnqueueType DEF begin_abandoned_disconnect, queueVars, TypeOK
    <3>. QED  BY <1>1, <2>3, <3>2 DEF begin_abandoned_disconnect, TypeOK, callerVars, endVars,
                   ackVars, pingVars, brokerVars
  <2>. QED  BY <2>2, <2>3
<1>2. ASSUME commands # << >>, process_command(Head(commands)), commands' = Tail(commands),
             pc' \in PCs, pass' \in {1, 2}, budget' \in 0..command_capacity
      PROVE  TypeOK'
  <2>1. Head(commands) \in Ops /\ commands' \in Seq(Ops)
    BY <1>2, HeadTailProperties DEF TypeOK
  <2>2. ProcessUnchanged
    BY <1>2 DEF process_command
  <2>. QED  BY <1>2, <2>1, <2>2, ProcessType DEF ProcessUnchanged, TypeOK, endVars, pingVars,
                 brokerVars
<1>3. ASSUME OnlyPc, pc' \in PCs, pass' \in {1, 2}, budget' \in 0..command_capacity
      PROVE  TypeOK'
  BY <1>3 DEF OnlyPc, TypeOK, callerVars, endVars, ackVars, queueVars, pingVars, brokerVars
<1>4. ToDrain => pc' \in PCs /\ pass' \in {1, 2} /\ budget' \in 0..command_capacity
  BY ConstantsAssumption DEF ToDrain, PCs, TypeOK
<1>5. ToFlush(1) => pc' \in PCs /\ pass' \in {1, 2} /\ budget' \in 0..command_capacity
  BY ConstantsAssumption DEF ToFlush, PCs
<1>6. CASE Start
  BY <1>3, <1>4, <1>6 DEF Start
<1>7. CASE DrainCommand
  <2>1. pc' \in PCs /\ pass' \in {1, 2} /\ budget' \in 0..command_capacity
    BY <1>7, ConstantsAssumption DEF DrainCommand, TypeOK
  <2>. QED  BY <1>2, <1>7, <2>1 DEF DrainCommand
<1>8. CASE DrainEnd
  BY <1>3, <1>5, <1>8 DEF DrainEnd
<1>9. CASE DrainDisconnected
  BY <1>1, <1>5, <1>9 DEF DrainDisconnected
<1>10. CASE WaitCommand
  BY <1>2, <1>4, <1>10 DEF WaitCommand
<1>11. CASE WaitTimeout
  BY <1>3, <1>4, <1>11 DEF WaitTimeout
<1>12. CASE WaitDisconnected
  BY <1>1, <1>4, <1>12 DEF WaitDisconnected
<1>. QED  BY <1>6, <1>7, <1>8, <1>9, <1>10, <1>11, <1>12

\* Writing, flushing and reading keep the types.
LEMMA TransportType ==
    ASSUME TypeOK,
           \/ FlushNotNeeded \/ complete_written \/ FlushEnd \/ WriteEnd \/ Finish \/ Continue
           \/ ReadSome \/ ReadEof \/ TransportAccepts \/ TransportRefuses \/ TransportBreaks
    PROVE  TypeOK'
<1>1. ASSUME OnlyPc, NEW next \in PCs, Goto(next)
      PROVE  TypeOK'
  BY <1>1 DEF OnlyPc, Goto, TypeOK, callerVars, endVars, ackVars, queueVars, pingVars, brokerVars,
     loopVars
<1>2. ASSUME NEW result \in Exits, NEW sent,
             sent = << >> \/ sent = <<Event("TransportClosed", 0)>>, Return(result, sent, op)
      PROVE  TypeOK'
  <2>1. Event("TransportClosed", 0) \in EventSet
    BY DEF Event, EventSet
  <2>. QED  BY <1>2, <2>1, ReturnType DEF TypeOK
<1>3. {"write", "sync", "check", "read", "wait"} \subseteq PCs
  BY DEF PCs
<1>4. {"Io", "Ok", "ConnectionClosed"} \subseteq Exits
  BY DEF Exits
<1>5. CASE FlushNotNeeded \/ FlushEnd \/ WriteEnd \/ Continue \/ FlushBlocked \/ WriteBlocked
  BY <1>1, <1>3, <1>5 DEF FlushNotNeeded, FlushEnd, WriteEnd, Continue, FlushBlocked, WriteBlocked
<1>6. CASE Finish \/ ReadEof \/ TransportBreaks
  BY <1>2, <1>4, <1>6 DEF Finish, ReadEof, TransportBreaks, TransportFails, ReadFails
<1>7. CASE complete_written
  <2>1. Head(flush_actions) \in Frames /\ flush_actions' \in Seq(Frames)
    BY <1>7, HeadTailProperties DEF complete_written, TypeOK
  <2>2. Head(flush_actions).len \in Nat
    BY <2>1 DEF Frames
  <2>3. outbound_bytes' \in Nat
    <3>1. outbound_bytes \in Nat
      BY DEF TypeOK
    <3>2. outbound_bytes' = IF Head(flush_actions).len > outbound_bytes THEN 0
                            ELSE outbound_bytes - Head(flush_actions).len
      BY <1>7 DEF complete_written
    <3>. QED  BY <2>2, <3>1, <3>2
  <2>4. op' \in [Ops -> OpStates]
    <3>1. Send(Head(flush_actions).op, "Ok") \in [Ops -> OpStates]
      BY SendType DEF Results
    <3>. QED  BY <1>7, <3>1 DEF complete_written, TypeOK
  <2>5. events' \in Seq(EventSet)
    <3>1. Event("ClientInitiated", 0) \in EventSet
      BY DEF Event, EventSet
    <3>2. TrySendEvent(Event("ClientInitiated", 0)) \in Seq(EventSet)
      BY <3>1, AppendProperties DEF TrySendEvent, TypeOK
    <3>. QED  BY <1>7, <3>2 DEF complete_written, TypeOK
  <2>6. ping_age' \in NoPing..KeepAlive
    <3>1. ping_age \in NoPing..KeepAlive /\ (ping_age' = 0 \/ ping_age' = ping_age)
      BY <1>7 DEF complete_written, TypeOK
    <3>2. 0 \in NoPing..KeepAlive
      BY ConstantsAssumption DEF NoPing
    <3>. QED  BY <3>1, <3>2
  <2>7. ping_queued' \in BOOLEAN /\ terminal_event_sent' \in BOOLEAN
    BY <1>7 DEF complete_written, TypeOK
  <2>. QED  BY <1>7, <2>1, <2>3, <2>4, <2>5, <2>6, <2>7
            DEF complete_written, TypeOK, loopVars, ackVars, brokerVars
<1>8. CASE FlushAccepted
  BY <1>8 DEF FlushAccepted, Goto, TypeOK, PCs, callerVars, endVars, ackVars, pingVars, brokerVars,
     loopVars
<1>9. CASE WritePart
  BY <1>9 DEF WritePart, WriteUnchanged, TypeOK, callerVars, loopVars, endVars, ackVars, brokerVars
<1>10. CASE WriteFrame
  <2>1. Head(outbound) \in Frames /\ Tail(outbound) \in Seq(Frames)
    BY <1>10, HeadTailProperties DEF WriteFrame, Writes, TypeOK
  <2>2. Append(flush_actions, Head(outbound)) \in Seq(Frames)
    BY <2>1, AppendProperties DEF TypeOK
  <2>3. /\ unacked' \subseteq Requests /\ pings_owed' \in Nat /\ pubacked' \subseteq Nat
        /\ UNCHANGED <<broker, acked, published>>
    <3>1. Deliver(Head(outbound))
      BY <1>10 DEF WriteFrame
    <3>2. Head(outbound).id \in Nat /\ Head(outbound).op \in Ops \cup {NoOp}
      BY <2>1 DEF Frames
    <3>3. unacked' \subseteq Requests
      <4>. DEFINE new == [type |-> Head(outbound).type, id |-> Head(outbound).id,
                          op |-> Head(outbound).op]
      <4>1. Head(outbound).type \in {"PUBLISH", "SUBSCRIBE", "UNSUBSCRIBE"} => new \in Requests
        BY <3>2 DEF Requests
      <4>2. unacked' = unacked \/ (/\ unacked' = unacked \cup {new}
                                   /\ Head(outbound).type \in {"PUBLISH", "SUBSCRIBE", "UNSUBSCRIBE"})
        BY <3>1 DEF Deliver
      <4>. QED  BY <4>1, <4>2 DEF TypeOK
    <3>4. pings_owed' \in Nat
      BY <3>1 DEF Deliver, TypeOK
    <3>5. pubacked' \subseteq Nat
      BY <3>1, <3>2 DEF Deliver, TypeOK
    <3>. QED  BY <3>1, <3>3, <3>4, <3>5 DEF Deliver
  <2>. QED  BY <1>10, <2>1, <2>2, <2>3 DEF WriteFrame, WriteUnchanged, TypeOK, callerVars, loopVars,
                 endVars, ackVars
<1>11. CASE ReadSome
  BY <1>11 DEF ReadSome, Goto, TypeOK, PCs, callerVars, endVars, ackVars, queueVars, pingVars,
     brokerVars, loopVars
<1>. QED  BY <1>5, <1>6, <1>7, <1>8, <1>9, <1>10, <1>11 DEF TransportAccepts, TransportRefuses

\* Dispatching a packet keeps the types.
LEMMA DispatchType ==
    ASSUME TypeOK,
           \/ dispatch_publish \/ (\E class \in AckClasses : dispatch_ack(class))
           \/ dispatch_pingresp \/ dispatch_disconnect \/ dispatch_invalid \/ DispatchEnd
    PROVE  TypeOK'
<1>1. {"QueueFull", "PacketTooLarge", "ClientClosed", "UnexpectedPacket", "MalformedPacket",
       "ServerDisconnected"} \subseteq Exits
  BY DEF Exits
<1>2. ASSUME NEW result \in Exits, NEW known \in [Ops -> OpStates], Return(result, << >>, known)
      PROVE  TypeOK'
  BY <1>2, ReturnType
<1>3. ASSUME DispatchNext, NEW types, Dispatches(types)
      PROVE  /\ inbound' \in Seq(Packets) /\ read' \in 0..Len(inbound')
             /\ Head(inbound) \in Packets
  <2>1. inbound # << >> /\ read \in 1..Len(inbound)
    BY <1>3 DEF Dispatches, TypeOK
  <2>2. /\ inbound' \in Seq(Packets) /\ Len(inbound') = Len(inbound) - 1
        /\ Head(inbound) \in Packets
    BY <1>3, <2>1, HeadTailProperties DEF DispatchNext, TypeOK
  <2>. QED  BY <1>3, <2>1, <2>2 DEF DispatchNext
<1>4. ASSUME DispatchNext, NEW types, Dispatches(types),
             op' \in [Ops -> OpStates], events' \in Seq(EventSet), ping_age' \in NoPing..KeepAlive,
             DOMAIN pending_acks' \subseteq PacketIds,
             \A id \in DOMAIN pending_acks' : pending_acks'[id] \in PendingAcks,
             outbound' \in Seq(Frames), outbound_bytes' \in Nat, started' \in BOOLEAN,
             flush_actions' \in Seq(Frames), needs_flush' \in BOOLEAN
      PROVE  TypeOK'
  BY <1>3, <1>4 DEF DispatchNext, TypeOK, loopVars, endVars, brokerVars
<1>5. CASE dispatch_publish
  <2>. DEFINE id == Head(inbound).id
  <2>1. EnqueueError(PubAckLen) \in Exits
    BY <1>1 DEF EnqueueError
  <2>2. CASE \E result \in Exits : Return(result, << >>, op)
    BY <1>2, <2>2 DEF TypeOK
  <2>3. CASE /\ IF MessageQos[id] = 1 THEN enqueue(Frame("PUBACK", id, NoOp, PubAckLen, "None"))
                ELSE UNCHANGED queueVars
             /\ events' = TrySendEvent(Event("Publish", id))
             /\ UNCHANGED <<op, pending_acks, ping_age>>
             /\ DispatchNext
    <3>1. id \in Nat
      BY <1>3, <1>5, <2>3 DEF dispatch_publish, Packets
    <3>. HIDE DEF id
    <3>2. Frame("PUBACK", id, NoOp, PubAckLen, "None") \in Frames
      BY <3>1 DEF Frame, Frames, FrameTypes, WrittenActions, PubAckLen
    <3>3. /\ outbound' \in Seq(Frames) /\ outbound_bytes' \in Nat /\ started' \in BOOLEAN
          /\ flush_actions' \in Seq(Frames) /\ needs_flush' \in BOOLEAN
      BY <2>3, <3>2, EnqueueType DEF queueVars, TypeOK
    <3>4. Event("Publish", id) \in EventSet
      BY <3>1 DEF Event, EventSet
    <3>5. events' \in Seq(EventSet)
      BY <2>3, <3>4, AppendProperties DEF TrySendEvent, TypeOK
    <3>. QED  BY <1>4, <1>5, <2>3, <3>3, <3>5 DEF dispatch_publish, TypeOK, id
  <2>. QED  BY <1>1, <1>5, <2>1, <2>2, <2>3 DEF dispatch_publish
<1>6. ASSUME NEW class \in AckClasses, dispatch_ack(class)
      PROVE  TypeOK'
  <2>. DEFINE id == Head(inbound).id
              code == Head(inbound).code
              live == Takes(id, class) /\ pending_acks[id].kind # "Tombstone"
              known == IF live THEN Complete(id, code) ELSE op
  <2>1. code \in Codes
    <3>0. Dispatches({AckType(class)})
      BY <1>6 DEF dispatch_ack
    <3>1. inbound # << >>
      BY <3>0 DEF Dispatches, TypeOK
    <3>2. Head(inbound) \in Packets
      BY <3>1, HeadTailProperties DEF TypeOK
    <3>. QED  BY <3>2 DEF Packets
  <2>2. known \in [Ops -> OpStates]
    <3>1. AckResult(code) \in Results
      BY <2>1 DEF AckResult, Codes, Results
    <3>2. Complete(id, code) \in [Ops -> OpStates]
      BY <3>1, SendType DEF Complete
    <3>. QED  BY <3>2 DEF TypeOK
  <2>3. CASE Return("UnexpectedPacket", << >>, op) \/ Return("MalformedPacket", << >>, known)
    BY <1>1, <1>2, <2>2, <2>3 DEF TypeOK
  <2>4. CASE /\ op' = known
             /\ pending_acks' = Without(id)
             /\ UNCHANGED <<events, queueVars, ping_age>>
             /\ DispatchNext
    <3>1. /\ DOMAIN pending_acks' \subseteq PacketIds
          /\ \A other \in DOMAIN pending_acks' : pending_acks'[other] \in PendingAcks
      BY <2>4 DEF Without, Restrict, TypeOK
    <3>. QED  BY <1>4, <1>6, <2>2, <2>4, <3>1 DEF dispatch_ack, queueVars, TypeOK
  <2>. QED  BY <1>6, <2>3, <2>4 DEF dispatch_ack
<1>7. CASE dispatch_pingresp
  <2>1. ping_age' \in NoPing..KeepAlive
    BY <1>7, ConstantsAssumption DEF dispatch_pingresp, AfterPingResp, NoPing
  <2>. QED  BY <1>4, <1>7, <2>1 DEF dispatch_pingresp, queueVars, TypeOK
<1>8. CASE dispatch_disconnect
  <2>1. Event("Server", 0) \in EventSet
    BY DEF Event, EventSet
  <2>. QED  BY <1>1, <1>8, <2>1, ReturnType DEF dispatch_disconnect, TypeOK
<1>9. CASE dispatch_invalid
  BY <1>1, <1>2, <1>9 DEF dispatch_invalid, TypeOK
<1>10. CASE DispatchEnd
  BY <1>10 DEF DispatchEnd, Goto, OnlyPc, TypeOK, PCs, callerVars, endVars, ackVars, queueVars,
     pingVars, brokerVars, loopVars
<1>. QED  BY <1>5, <1>6, <1>7, <1>8, <1>9, <1>10

\* Deadlines, the keep-alive, time and the broker keep the types.
LEMMA EnvironmentType ==
    ASSUME TypeOK, expire_operations \/ maintain_keep_alive \/ Tick \/ Broker \/ BrokerStrays
    PROVE  TypeOK'
<1>1. CASE expire_operations
  <2>1. op' \in [Ops -> OpStates]
    BY <1>1 DEF expire_operations, TypeOK, OpStates, Results
  <2>2. \A id \in DOMAIN pending_acks : Tombstone(pending_acks[id]) \in PendingAcks
    BY DEF TypeOK, Tombstone, PendingAcks, PendingKinds
  <2>3. /\ DOMAIN pending_acks' \subseteq PacketIds
        /\ \A id \in DOMAIN pending_acks' : pending_acks'[id] \in PendingAcks
    BY <1>1, <2>2 DEF expire_operations, AfterExpiry, TypeOK
  <2>. QED  BY <1>1, <2>1, <2>3 DEF expire_operations, Goto, TypeOK, PCs, loopVars, endVars,
                 queueVars, pingVars, brokerVars
<1>2. CASE maintain_keep_alive
  <2>1. "KeepAliveTimeout" \in Exits /\ EnqueueError(ShortLen) \in Exits
    BY DEF EnqueueError, Exits
  <2>2. CASE \E result \in Exits : Return(result, << >>, op)
    BY <2>2, ReturnType DEF TypeOK
  <2>3. CASE /\ enqueue(Frame("PINGREQ", 0, NoOp, ShortLen, "PingReq"))
             /\ ping_queued' = TRUE
             /\ ToFlush(2)
             /\ UNCHANGED <<callerVars, commands, events, endVars, ackVars, closing, ping_age, idle,
                            inbound, read, brokerVars>>
    <3>1. Frame("PINGREQ", 0, NoOp, ShortLen, "PingReq") \in Frames
      BY DEF Frame, Frames, FrameTypes, WrittenActions, ShortLen
    <3>2. /\ outbound' \in Seq(Frames) /\ outbound_bytes' \in Nat /\ started' \in BOOLEAN
          /\ flush_actions' \in Seq(Frames) /\ needs_flush' \in BOOLEAN
      BY <2>3, <3>1, EnqueueType
    <3>3. pc' \in PCs /\ pass' \in {1, 2} /\ budget' \in 0..command_capacity
      BY <2>3, ConstantsAssumption DEF ToFlush, PCs
    <3>. QED  BY <2>3, <3>2, <3>3 DEF TypeOK, callerVars, endVars, ackVars, brokerVars
  <2>4. CASE ToFlush(2) /\ OnlyPc
    <3>1. pc' \in PCs /\ pass' \in {1, 2} /\ budget' \in 0..command_capacity
      BY <2>4, ConstantsAssumption DEF ToFlush, PCs
    <3>. QED  BY <2>4, <3>1 DEF OnlyPc, TypeOK, callerVars, endVars, ackVars, queueVars, pingVars,
                   brokerVars
  <2>. QED  BY <1>2, <2>1, <2>2, <2>3, <2>4 DEF maintain_keep_alive
<1>3. CASE Tick
  <2>1. \A id \in DOMAIN pending_acks' : pending_acks'[id] \in PendingAcks
    <3>. SUFFICES ASSUME NEW id \in DOMAIN pending_acks
                  PROVE  [pending_acks[id] EXCEPT !.ttl = IF @ > 0 THEN @ - 1 ELSE 0] \in PendingAcks
      BY <1>3 DEF Tick
    <3>1. pending_acks[id] \in PendingAcks
      BY DEF TypeOK
    <3>. DEFINE left == IF pending_acks[id].ttl > 0 THEN pending_acks[id].ttl - 1 ELSE 0
    <3>2. pending_acks[id].ttl \in 0..AckTimeout
      BY <3>1 DEF PendingAcks
    <3>0. AckTimeout \in Nat
      BY ConstantsAssumption
    <3>3. left \in 0..AckTimeout
      BY <3>0, <3>2
    <3>. HIDE DEF left
    <3>4. [pending_acks[id] EXCEPT !.ttl = left] \in PendingAcks
      BY <3>1, <3>3 DEF PendingAcks
    <3>. QED  BY <3>4 DEF left
  <2>2. ping_age' \in NoPing..KeepAlive /\ idle' \in Nat
    <3>1. /\ ping_age \in NoPing..KeepAlive /\ KeepAlive \in Nat /\ idle \in Nat
          /\ ping_age' = IF ping_age \in 0..KeepAlive - 1 THEN ping_age + 1 ELSE ping_age
      BY <1>3, ConstantsAssumption DEF Tick, TypeOK
    <3>2. idle' = idle \/ idle' = idle + 1
      BY <1>3 DEF Tick
    <3>. QED  BY <3>1, <3>2 DEF NoPing
  <2>3. DOMAIN pending_acks' = DOMAIN pending_acks
    BY <1>3 DEF Tick
  <2>. QED  BY <1>3, <2>1, <2>2, <2>3 DEF Tick, TypeOK, callerVars, loopVars, endVars, queueVars,
                 brokerVars
<1>4. ASSUME NEW packet \in Packets, BrokerSends(packet), broker' \in {"up", "leaving", "closed"},
             unacked' \subseteq Requests, acked' \subseteq Ops \cup {NoOp}, pings_owed' \in Nat,
             published' \in 0..Len(MessageQos), pubacked' \subseteq Nat
      PROVE  TypeOK'
  <2>1. inbound' \in Seq(Packets) /\ Len(inbound') = Len(inbound) + 1
    BY <1>4, AppendProperties DEF BrokerSends, TypeOK
  <2>2. read' \in 0..Len(inbound')
    BY <1>4, <2>1, LenProperties DEF BrokerSends, TypeOK
  <2>. QED  BY <1>4, <2>1, <2>2 DEF BrokerSends, TypeOK, callerVars, loopVars, endVars, ackVars,
                 queueVars, pingVars
<1>5. \A type \in PacketTypes, id \in Nat, o \in Ops \cup {NoOp}, code \in Codes :
         Packet(type, id, o, code) \in Packets
  BY DEF Packet, Packets
<1>6. {"PINGRESP", "PUBLISH", "DISCONNECT", "EOF", "OTHER", "BAD"} \subseteq PacketTypes
      /\ {"ok", "rejected"} \subseteq Codes
  BY DEF PacketTypes, Codes
<1>7. CASE BrokerAck
  <2>1. PICK request \in unacked, code \in {"ok", "rejected"} :
          /\ BrokerSends(Packet(AckTypeFor(request.type), request.id, request.op, code))
          /\ unacked' = unacked \ {request}
          /\ acked' = IF code = "ok" THEN acked \cup {request.op} ELSE acked
    BY <1>7 DEF BrokerAck
  <2>2. /\ AckTypeFor(request.type) \in PacketTypes /\ request.id \in Nat
        /\ request.op \in Ops \cup {NoOp}
    BY DEF TypeOK, Requests, AckTypeFor, PacketTypes
  <2>3. Packet(AckTypeFor(request.type), request.id, request.op, code) \in Packets
    BY <1>5, <1>6, <2>2
  <2>. QED  BY <1>4, <1>7, <2>1, <2>2, <2>3 DEF BrokerAck, TypeOK
<1>8. CASE BrokerPingResp
  <2>1. Packet("PINGRESP", 0, NoOp, "ok") \in Packets
    BY <1>5, <1>6
  <2>2. pings_owed' \in Nat
    BY <1>8 DEF BrokerPingResp, TypeOK
  <2>. QED  BY <1>4, <1>8, <2>1, <2>2 DEF BrokerPingResp, TypeOK
<1>9. CASE BrokerPublish
  <2>0. MessageQos \in Seq({0, 1}) /\ Len(MessageQos) \in Nat
    BY ConstantsAssumption
  <2>a. published \in 0..Len(MessageQos)
    BY DEF TypeOK
  <2>b. published < Len(MessageQos) /\ published' = published + 1
    BY <1>9 DEF BrokerPublish
  <2>1. published + 1 \in Nat /\ published' \in 0..Len(MessageQos)
    BY <2>0, <2>a, <2>b
  <2>2. Packet("PUBLISH", published + 1, NoOp, "ok") \in Packets
    BY <1>5, <1>6, <2>1
  <2>. QED  BY <1>4, <1>9, <2>1, <2>2 DEF BrokerPublish, TypeOK
<1>10. CASE BrokerDisconnect \/ BrokerClose
  BY <1>4, <1>5, <1>6, <1>10 DEF BrokerDisconnect, BrokerClose, TypeOK
<1>11. CASE BrokerStrays
  <2>1. \A class \in AckClasses, id \in PacketIds, code \in Codes :
          Packet(AckType(class), id, NoOp, code) \in Packets
    BY <1>5 DEF AckClasses, AckType, PacketTypes, PacketIds
  <2>2. \A type \in {"OTHER", "BAD"} : Packet(type, 0, NoOp, "ok") \in Packets
    BY <1>5, <1>6
  <2>3. \E packet \in Packets : BrokerSends(packet)
    BY <1>11, <2>1, <2>2 DEF BrokerStrays
  <2>. QED  BY <1>4, <1>11, <2>3 DEF BrokerStrays, brokerVars, TypeOK
<1>. QED  BY <1>1, <1>2, <1>3, <1>7, <1>8, <1>9, <1>10, <1>11 DEF Broker

\* Every step, of a faulty broker too, keeps the types.
LEMMA StepType ==
    ASSUME TypeOK, [FaultyNext]_vars
    PROVE  TypeOK'
<1>1. CASE UNCHANGED vars
  BY <1>1 DEF vars, TypeOK, callerVars, loopVars, endVars, ackVars, queueVars, pingVars, brokerVars
<1>. QED  BY <1>1, ApplicationType, CommandType, TransportType, DispatchType, EnvironmentType
          DEF FaultyNext, Next, Driver, Ended

\* The initial state has the right type.
LEMMA InitType == Init => TypeOK
<1>. SUFFICES ASSUME Init PROVE TypeOK
  OBVIOUS
<1>1. DOMAIN pending_acks = {}
  BY DEF Init, NoPending
<1>2. << >> \in Seq(Nat) /\ << >> \in Seq(Ops) /\ << >> \in Seq(EventSet) /\ << >> \in Seq(Frames)
      /\ << >> \in Seq(Packets) /\ Len(<< >>) = 0
  BY EmptySeq
<1>3. op \in [Ops -> OpStates] /\ ping_age \in NoPing..KeepAlive /\ budget \in 0..command_capacity
      /\ next_packet_id \in PacketIds
  BY ConstantsAssumption DEF Init, OpStates, NoPing, PacketIds
<1>4. published \in 0..Len(MessageQos)
  BY ConstantsAssumption DEF Init
<1>5. /\ seen \in Seq(Nat) /\ commands \in Seq(Ops) /\ events \in Seq(EventSet)
      /\ outbound \in Seq(Frames) /\ flush_actions \in Seq(Frames) /\ inbound \in Seq(Packets)
      /\ read \in 0..Len(inbound)
  BY <1>2 DEF Init
<1>. QED  BY <1>1, <1>3, <1>4, <1>5 DEF Init, TypeOK, PCs, Exits

\* Type correctness, also against a broker that breaks the protocol: packet
\* identifiers never become 0 and the byte counter never underflows.
THEOREM TypeCorrect == FaultySpec => []TypeOK
BY InitType, StepType, PTL DEF FaultySpec
=============================================================================
