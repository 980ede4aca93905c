----------------------- MODULE AsyncDriverRefinement -----------------------
(* AsyncDriver implements Operations: every step of the driver, the          *)
(* transport and the broker is a step of Operations or leaves op and acked.  *)
EXTENDS AsyncDriverProofs

\* A step that only answers callers who wait is a Settle.
LEMMA SettleStep ==
    ASSUME TypeOK, TypeOK', UNCHANGED acked,
           \A o \in Ops : \/ op'[o] = op[o]
                          \/ op[o] = "waiting" /\ op'[o] \in Api!Errors
                          \/ op[o] = "waiting" /\ op'[o] = "Ok" /\ Api!Succeeds(o)
    PROVE  Api!Settle
BY DEF TypeOK, Api!Settle

\* A driver that returns answers only callers who wait.
LEMMA ReturnSettles ==
    ASSUME TypeOK, TypeOK', NEW result, NEW sent, Return(result, sent, op)
    PROVE  Api!Settle
<1>1. \A o \in Ops : op'[o] = op[o] \/ (op[o] = "waiting" /\ op'[o] \in Api!Errors)
  BY DEF Return, fail_pending, Api!Errors
<1>. QED  BY <1>1, SettleStep DEF Return, Closed

\* The calls of the application.
LEMMA ApplicationCalls ==
    ASSUME SafeInv, TypeOK', Application
    PROVE  Api!Next \/ UNCHANGED <<op, acked>>
<1>. USE DEF callerVars, loopVars, endVars, ackVars, queueVars, pingVars, brokerVars
<1>0. TypeOK /\ op \in [Ops -> OpStates]
  BY DEF SafeInv, TypeOK
<1>1. ASSUME NEW o \in Ops, publish(o) \/ subscribe(o) \/ unsubscribe(o) \/ disconnect(o)
      PROVE  Api!Call(o)
  BY <1>1 DEF publish, subscribe, unsubscribe, disconnect, Calls, send_command, DriverUnchanged,
              Api!Call, Api!Errors
<1>2. ASSUME NEW o \in Ops, Cancel(o)
      PROVE  Api!Abandon(o)
  BY <1>2 DEF Cancel, DriverUnchanged, Api!Abandon
<1>3. ASSUME next_event \/ DropHandle
      PROVE  UNCHANGED <<op, acked>>
  BY <1>3 DEF next_event, DropHandle, DriverUnchanged
<1>4. ASSUME DropDriver
      PROVE  Api!Settle
  <2>1. \A o \in Ops : op'[o] = op[o] \/ (op[o] = "waiting" /\ op'[o] \in Api!Errors)
    BY <1>0, <1>4 DEF DropDriver, Api!Errors
  <2>. QED  BY <1>0, <1>4, <2>1, SettleStep DEF DropDriver, Closed
<1>. QED  BY <1>1, <1>2, <1>3, <1>4 DEF Application, Api!Next

\* The driver answers one caller.
LEMMA SendSettles ==
    ASSUME TypeOK, TypeOK', UNCHANGED acked, NEW o, NEW result,
           op' = Send(o, result), result \in Api!Errors \/ (result = "Ok" /\ Api!Succeeds(o))
    PROVE  Api!Settle
<1>1. \A p \in Ops : \/ op'[p] = op[p]
                     \/ op[p] = "waiting" /\ op'[p] \in Api!Errors
                     \/ op[p] = "waiting" /\ op'[p] = "Ok" /\ Api!Succeeds(p)
  BY DEF TypeOK, Send
<1>. QED  BY <1>1, SettleStep

\* Commands: a refusal answers the caller with an error.
LEMMA ProcessSettles ==
    ASSUME SafeInv, TypeOK', commands # << >>, process_command(Head(commands))
    PROVE  Api!Settle \/ UNCHANGED <<op, acked>>
<1>. USE DEF callerVars, loopVars, endVars, ackVars, queueVars, pingVars, brokerVars
<1>. DEFINE o == Head(commands)
<1>0. TypeOK /\ UNCHANGED acked
  BY DEF SafeInv, process_command, ProcessUnchanged
<1>1. ASSUME NEW error \in Api!Errors, Refuse(o, error)
      PROVE  Api!Settle
  BY <1>0, <1>1, SendSettles DEF Refuse
<1>. HIDE DEF o
<1>2. \A len : EnqueueError(len) \in Api!Errors
  BY DEF EnqueueError, Api!Errors
<1>3. Refusal(o) # "none" => Refusal(o) \in Api!Errors
  BY <1>2 DEF Refusal, Api!Errors
<1>4. {"Invalid", "QueueFull", "ClientClosed"} \subseteq Api!Errors
  BY DEF Api!Errors
<1>5. \/ UNCHANGED op \/ Refuse(o, "ClientClosed") \/ Refuse(o, "Invalid") \/ Refuse(o, "QueueFull")
      \/ Refuse(o, EnqueueError(Request[o].len)) \/ Refuse(o, EnqueueError(ShortLen))
      \/ Refusal(o) # "none" /\ Refuse(o, Refusal(o))
  BY DEF process_command, Begin, begin_publish_qos0, begin_disconnect, begin_acknowledged, o
<1>. QED  BY <1>0, <1>1, <1>2, <1>3, <1>4, <1>5

\* The rest of the loop, towards the transport.
LEMMA OutboundSettles ==
    ASSUME SafeInv, TypeOK',
           \/ Start \/ DrainCommand \/ DrainEnd \/ DrainDisconnected \/ FlushNotNeeded
           \/ complete_written \/ FlushEnd \/ WriteEnd \/ Finish \/ Continue
           \/ WaitCommand \/ WaitTimeout \/ WaitDisconnected \/ TransportAccepts
           \/ TransportRefuses \/ TransportBreaks
    PROVE  Api!Settle \/ UNCHANGED <<op, acked>>
<1>. USE DEF callerVars, loopVars, endVars, ackVars, queueVars, pingVars, brokerVars
<1>0. TypeOK /\ flush_actions \in Seq(Frames)
  BY DEF SafeInv, TypeOK
<1>1. CASE \/ Start \/ DrainEnd \/ FlushNotNeeded \/ FlushEnd \/ WriteEnd \/ Continue \/ WaitTimeout
           \/ TransportRefuses \/ TransportAccepts
  BY <1>1 DEF Start, DrainEnd, FlushNotNeeded, FlushEnd, WriteEnd, Continue, WaitTimeout,
              TransportRefuses, FlushBlocked, WritePart, WriteBlocked, TransportAccepts, FlushAccepted,
              WriteFrame, Deliver, OnlyPc, WriteUnchanged
<1>2. CASE DrainCommand \/ WaitCommand
  BY <1>2, ProcessSettles DEF DrainCommand, WaitCommand
<1>3. CASE DrainDisconnected \/ WaitDisconnected
  BY <1>0, <1>3, ReturnSettles DEF DrainDisconnected, WaitDisconnected, begin_abandoned_disconnect
<1>4. CASE complete_written
  <2>1. AnswersOwn(Head(flush_actions))
    BY <1>0, <1>4, HeadIndex DEF complete_written, SafeInv, FramesAnswer
  <2>2. Head(flush_actions).action \in Answers => Api!Succeeds(Head(flush_actions).op)
    BY <2>1 DEF AnswersOwn, Unacknowledged, Api!Succeeds, Acknowledged
  <2>3. UNCHANGED acked /\ (op' = op \/ (Head(flush_actions).action \in Answers
                                         /\ op' = Send(Head(flush_actions).op, "Ok")))
    BY <1>4 DEF complete_written
  <2>. QED  BY <1>0, <2>2, <2>3, SendSettles
<1>5. CASE Finish \/ TransportBreaks
  BY <1>0, <1>5, ReturnSettles DEF Finish, TransportBreaks, TransportFails, ReadFails
<1>. QED  BY <1>1, <1>2, <1>3, <1>4, <1>5

\* The packets from the broker: a success is sent only for an acknowledgement of
\* the operation itself.
LEMMA InboundSettles ==
    ASSUME SafeInv, TypeOK',
           \/ ReadSome \/ ReadEof \/ dispatch_publish \/ (\E class \in AckClasses : dispatch_ack(class))
           \/ dispatch_pingresp \/ dispatch_disconnect \/ dispatch_invalid \/ DispatchEnd
    PROVE  Api!Settle \/ UNCHANGED <<op, acked>>
<1>. USE DEF callerVars, loopVars, endVars, ackVars, queueVars, pingVars, brokerVars
<1>0. TypeOK /\ inbound \in Seq(Packets) /\ read \in 0..Len(inbound)
  BY DEF SafeInv, TypeOK
<1>1. CASE ReadSome \/ DispatchEnd \/ dispatch_pingresp
  BY <1>1 DEF ReadSome, DispatchEnd, dispatch_pingresp, DispatchNext, OnlyPc
<1>2. CASE ReadEof \/ dispatch_disconnect \/ dispatch_invalid
  BY <1>0, <1>2, ReturnSettles DEF ReadEof, dispatch_disconnect, dispatch_invalid
<1>3. CASE dispatch_publish
  BY <1>0, <1>3, ReturnSettles DEF dispatch_publish, DispatchNext
<1>4. ASSUME NEW class \in AckClasses, dispatch_ack(class)
      PROVE  Api!Settle \/ UNCHANGED <<op, acked>>
  <2>. DEFINE packet == Head(inbound)
  <2>0. read > 0 /\ packet.type = AckType(class)
    BY <1>4 DEF dispatch_ack, Dispatches
  <2>1. 1 \in DOMAIN inbound /\ packet = inbound[1] /\ packet \in Packets
    <3>1. Len(inbound) # 0 /\ inbound # << >>
      BY <1>0, <2>0, EmptySeq
    <3>2. 1 \in DOMAIN inbound /\ packet = inbound[1]
      BY <1>0, <3>1, HeadIndex
    <3>. QED  BY <1>0, <3>2
  <2>2. IsAck(packet) /\ packet.code \in {"ok", "rejected"}
    <3>1. packet.code # "malformed" /\ packet.code \in Codes
      BY <2>1 DEF SafeInv, StreamConforms, Packets
    <3>. QED  BY <2>0, <3>1 DEF AckType, AckClasses, IsAck, Codes
  <2>3. packet.code = "ok" => packet.op \in acked
    BY <2>1, <2>2 DEF SafeInv, StreamConforms
  <2>4. /\ packet.id \in DOMAIN pending_acks => pending_acks[packet.id].op = packet.op
    BY <2>1, <2>2 DEF SafeInv, PacketIdsOwned, Owned
  <2>5. \/ \E result : Return(result, << >>, op)
        \/ /\ UNCHANGED acked
           /\ op' = op \/ (packet.id \in DOMAIN pending_acks /\ op' = Complete(packet.id, packet.code))
    BY <1>4, <2>2 DEF dispatch_ack, DispatchNext, Takes
  <2>6. ASSUME UNCHANGED acked, packet.id \in DOMAIN pending_acks, op' = Complete(packet.id, packet.code)
        PROVE  Api!Settle
    <3>1. op' = Send(packet.op, AckResult(packet.code))
      BY <2>4, <2>6 DEF Complete
    <3>2. AckResult(packet.code) \in Api!Errors \/ (AckResult(packet.code) = "Ok" /\ Api!Succeeds(packet.op))
      BY <2>2, <2>3 DEF AckResult, Api!Errors, Api!Succeeds
    <3>. QED  BY <1>0, <2>6, <3>1, <3>2, SendSettles
  <2>. QED  BY <1>0, <2>5, <2>6, ReturnSettles
<1>. QED  BY <1>1, <1>2, <1>3, <1>4

\* Deadlines answer with an error.
LEMMA TimerSettles ==
    ASSUME SafeInv, TypeOK', expire_operations \/ maintain_keep_alive \/ Tick
    PROVE  Api!Settle \/ UNCHANGED <<op, acked>>
<1>. USE DEF callerVars, loopVars, endVars, ackVars, queueVars, pingVars, brokerVars
<1>0. TypeOK
  BY DEF SafeInv
<1>1. CASE expire_operations
  <2>1. UNCHANGED acked
    BY <1>1 DEF expire_operations
  <2>2. \A o \in Ops : op'[o] = op[o] \/ (op[o] = "waiting" /\ op'[o] \in Api!Errors)
    BY <1>1 DEF expire_operations, Api!Errors
  <2>. QED  BY <1>0, <2>1, <2>2, SettleStep
<1>2. CASE Tick
  BY <1>2 DEF Tick
<1>3. CASE maintain_keep_alive
  BY <1>0, <1>3, ReturnSettles DEF maintain_keep_alive, OnlyPc
<1>. QED  BY <1>1, <1>2, <1>3

\* The broker acknowledges only operations that were called.
LEMMA BrokerAcknowledges ==
    ASSUME SafeInv, Broker
    PROVE  Api!Next \/ UNCHANGED <<op, acked>>
<1>. USE DEF callerVars, loopVars, endVars, ackVars, queueVars, pingVars, brokerVars
<1>1. CASE BrokerAck
  <2>. PICK request \in unacked, code \in {"ok", "rejected"} :
           /\ BrokerSends(Packet(AckTypeFor(request.type), request.id, request.op, code))
           /\ acked' = IF code = "ok" THEN acked \cup {request.op} ELSE acked
    BY <1>1 DEF BrokerAck
  <2>1. UNCHANGED op
    BY DEF BrokerSends
  <2>2. request.id \in DOMAIN pending_acks /\ pending_acks[request.id].op = request.op
    BY DEF SafeInv, PacketIdsOwned, Owned
  <2>3. op[request.op] # "idle" /\ request.op \in Ops
    BY <2>2 DEF SafeInv, Begun, TypeOK, PendingAcks
  <2>. QED  BY <2>1, <2>3 DEF Api!Next, Api!Acknowledge
<1>2. CASE BrokerPingResp \/ BrokerPublish \/ BrokerDisconnect \/ BrokerClose
  BY <1>2 DEF BrokerPingResp, BrokerPublish, BrokerDisconnect, BrokerClose, BrokerSends
<1>. QED  BY <1>1, <1>2 DEF Broker

\* For every value of the constants the driver with a broker that keeps to the
\* protocol implements Operations: every call is answered at most once, for good,
\* and with success only when the broker acknowledged it.
THEOREM DriverImplementsOperations == Spec => CallsAnsweredOnce
<1>1. Init => Api!Init
  BY DEF Init, Api!Init
<1>2. SafeInv /\ SafeInv' /\ [Next]_vars => [Api!Next]_(Api!vars)
  <2>. SUFFICES ASSUME SafeInv, SafeInv', [Next]_vars
                PROVE  Api!Next \/ UNCHANGED <<op, acked>>
    BY DEF Api!vars
  <2>1. TypeOK'
    BY DEF SafeInv
  <2>2. CASE UNCHANGED vars
    BY <2>2 DEF vars, callerVars, brokerVars
  <2>. QED  BY <2>1, <2>2, ApplicationCalls, OutboundSettles, InboundSettles, TimerSettles,
               BrokerAcknowledges DEF Next, Driver, Ended, Api!Next
<1>. QED  BY <1>1, <1>2, Safe, PTL DEF Spec, CallsAnsweredOnce, Api!Spec
=============================================================================
