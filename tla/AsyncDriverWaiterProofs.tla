---------------------- MODULE AsyncDriverWaiterProofs ----------------------
(* No caller is left waiting for ever by a driver that has forgotten it:     *)
(* NoLeakedWaiter for every value of the constants, and whatever the broker   *)
(* sends.  With the types it is inductive: a sender leaves one place only for *)
(* another, or to be used.                                                    *)
EXTENDS AsyncDriverProofs

\* A frame that carries the sender of its operation.
Carries(frame) == frame.action \in {"PublishQos0", "Disconnect"}

----------------------------------------------------------------------------
(* How the queues that hold senders change.                                 *)

\* Queueing a frame loses no sender, and keeps its own.
LEMMA SendersAppend ==
    ASSUME NEW frames \in Seq(Frames), NEW frame \in Frames
    PROVE  /\ Senders(frames) \subseteq Senders(Append(frames, frame))
           /\ Carries(frame) => frame.op \in Senders(Append(frames, frame))
<1>1. /\ DOMAIN frames \subseteq DOMAIN Append(frames, frame)
      /\ \A i \in DOMAIN frames : Append(frames, frame)[i] = frames[i]
      /\ Len(frames) + 1 \in DOMAIN Append(frames, frame)
      /\ Append(frames, frame)[Len(frames) + 1] = frame
  <2>1. Append(frames, frame) \in Seq(Frames) /\ Len(Append(frames, frame)) = Len(frames) + 1
    BY AppendProperties
  <2>2. /\ DOMAIN frames = 1..Len(frames) /\ DOMAIN Append(frames, frame) = 1..Len(frames) + 1
        /\ Len(frames) \in Nat
    BY <2>1, LenProperties
  <2>. QED  BY <2>2, AppendProperties
<1>. QED  BY <1>1 DEF Senders, Carries

\* Taking the first frame loses no sender but its own.
LEMMA SendersTail ==
    ASSUME NEW frames \in Seq(Frames), frames # << >>, NEW o \in Senders(frames)
    PROVE  o \in Senders(Tail(frames)) \/ (Carries(Head(frames)) /\ o = Head(frames).op)
<1>1. PICK i \in DOMAIN frames : frames[i].op = o /\ Carries(frames[i])
  BY DEF Senders, Carries
<1>2. CASE i = 1
  BY <1>1, <1>2, HeadIndex
<1>3. CASE i # 1
  <2>1. Len(Tail(frames)) = Len(frames) - 1 /\ Tail(frames) \in Seq(Frames)
    BY HeadTailProperties
  <2>2. /\ DOMAIN frames = 1..Len(frames) /\ DOMAIN Tail(frames) = 1..Len(frames) - 1
        /\ Len(frames) \in Nat
    BY <2>1, LenProperties
  <2>3. i - 1 \in DOMAIN Tail(frames) /\ Tail(frames)[i - 1] = frames[i]
    BY <1>3, <2>2, HeadTailProperties
  <2>. QED  BY <1>1, <2>3 DEF Senders, Carries
<1>. QED  BY <1>2, <1>3

\* Taking the first command loses no other.
LEMMA QueuedTail ==
    ASSUME commands \in Seq(Ops), commands # << >>, commands' = Tail(commands), NEW o \in Queued
    PROVE  o \in Queued' \/ o = Head(commands)
<1>1. PICK i \in DOMAIN commands : commands[i] = o
  BY DEF Queued
<1>2. CASE i = 1
  BY <1>1, <1>2, HeadIndex
<1>3. CASE i # 1
  <2>1. Len(Tail(commands)) = Len(commands) - 1 /\ Tail(commands) \in Seq(Ops)
    BY HeadTailProperties
  <2>2. /\ DOMAIN commands = 1..Len(commands) /\ DOMAIN Tail(commands) = 1..Len(commands) - 1
        /\ Len(commands) \in Nat
    BY <2>1, LenProperties
  <2>3. i - 1 \in DOMAIN Tail(commands) /\ Tail(commands)[i - 1] = commands[i]
    BY <1>3, <2>2, HeadTailProperties
  <2>. QED  BY <1>1, <2>3 DEF Queued
<1>. QED  BY <1>2, <1>3

\* Queueing a command adds it and loses none.
LEMMA QueuedAppend ==
    ASSUME commands \in Seq(Ops), NEW o \in Ops, commands' = Append(commands, o)
    PROVE  Queued \cup {o} \subseteq Queued'
<1>1. Append(commands, o) \in Seq(Ops) /\ Len(Append(commands, o)) = Len(commands) + 1
  BY AppendProperties
<1>2. /\ DOMAIN commands = 1..Len(commands) /\ DOMAIN Append(commands, o) = 1..Len(commands) + 1
      /\ Len(commands) \in Nat
  BY <1>1, LenProperties
<1>. QED  BY <1>2, AppendProperties DEF Queued

----------------------------------------------------------------------------
(* The steps.                                                               *)

\* A step that leaves the senders where they are, and whom it answers aside.
LEMMA SameWaiters ==
    ASSUME NoLeakedWaiter, pc # "done" => pc' # "done", pc = "done" => pc' = "done",
           \A o \in Ops : op'[o] = "waiting" => op[o] = "waiting",
           \A o \in Ops : op'[o] = "waiting" /\ o \in Queued \cup Held => o \in Queued' \cup Held'
    PROVE  NoLeakedWaiter'
BY DEF NoLeakedWaiter

\* A driver that returns answers everyone whose sender it still has.
LEMMA ReturnWaiters ==
    ASSUME NoLeakedWaiter, NEW result, NEW sent, NEW known, Return(result, sent, known),
           \A o \in Ops : known[o] = "waiting" => op[o] = "waiting"
    PROVE  NoLeakedWaiter'
BY DEF NoLeakedWaiter, Return, fail_pending

\* A step that touches no queue and starts no operation.
LEMMA IdleWaiters ==
    ASSUME NoLeakedWaiter, UNCHANGED <<pending_acks, outbound, flush_actions, commands>>,
           pc # "done" => pc' # "done", pc = "done" => pc' = "done",
           \A o \in Ops : op'[o] = "waiting" => op[o] = "waiting"
    PROVE  NoLeakedWaiter'
<1>1. Queued' = Queued /\ Held' = Held
  BY DEF Queued, Held, PendingSenders, Senders
<1>. QED  BY <1>1, SameWaiters

\* A step that only queues a frame.
LEMMA EnqueueWaiters ==
    ASSUME NoLeakedWaiter, outbound \in Seq(Frames), NEW frame \in Frames, enqueue(frame),
           UNCHANGED <<op, pending_acks, commands>>, pc # "done", pc' # "done"
    PROVE  NoLeakedWaiter'
<1>1. Senders(outbound) \subseteq Senders(outbound')
  BY SendersAppend DEF enqueue
<1>2. Queued' = Queued /\ Held \subseteq Held'
  BY <1>1 DEF Queued, Held, PendingSenders, Senders, enqueue
<1>. QED  BY <1>2, SameWaiters

\* The calls of the application.
LEMMA ApplicationWaiters ==
    ASSUME TypeOK, NoLeakedWaiter, Application
    PROVE  NoLeakedWaiter'
<1>. USE DEF callerVars, loopVars, endVars, ackVars, queueVars, pingVars, brokerVars
<1>0. op \in [Ops -> OpStates] /\ commands \in Seq(Ops)
  BY DEF TypeOK
<1>1. ASSUME NEW o \in Ops, DriverUnchanged, UNCHANGED commands,
             NEW result \in OpStates \ {"waiting"}, op' = [op EXCEPT ![o] = result]
      PROVE  NoLeakedWaiter'
  BY <1>0, <1>1, IdleWaiters DEF DriverUnchanged
<1>2. ASSUME NEW o \in Ops, send_command(o)
      PROVE  NoLeakedWaiter'
  <2>1. CASE pc # "done" /\ op' = [op EXCEPT ![o] = "waiting"] /\ commands' = Append(commands, o)
    <3>1. Queued \cup {o} \subseteq Queued'
      BY <1>0, <2>1, QueuedAppend
    <3>2. Held' = Held /\ pc' = pc
      BY <1>2 DEF send_command, DriverUnchanged, Held, PendingSenders, Senders
    <3>. QED  BY <1>0, <2>1, <3>1, <3>2 DEF NoLeakedWaiter
  <2>. QED  BY <1>1, <1>2, <2>1 DEF send_command, OpStates, Results
<1>3. ASSUME UNCHANGED <<op, commands>>, DriverUnchanged
      PROVE  NoLeakedWaiter'
  BY <1>3, IdleWaiters DEF DriverUnchanged
<1>4. ASSUME DropDriver  PROVE NoLeakedWaiter'
  BY <1>4 DEF DropDriver, NoLeakedWaiter
<1>5. ASSUME NEW o \in Ops, publish(o) \/ Cancel(o)
      PROVE  NoLeakedWaiter'
  BY <1>1, <1>2, <1>5 DEF publish, Cancel, OpStates, Results
<1>. QED  BY <1>2, <1>3, <1>4, <1>5 DEF Application, subscribe, unsubscribe, disconnect, next_event,
                                        DropHandle

\* A command taken from the channel is answered, or its sender is kept.
LEMMA ProcessWaiters ==
    ASSUME TypeOK, NoLeakedWaiter, pc \in {"drain", "wait"}, pc' # "done", commands # << >>,
           commands' = Tail(commands), process_command(Head(commands))
    PROVE  NoLeakedWaiter'
<1>. USE DEF callerVars, loopVars, endVars, ackVars, queueVars, pingVars, brokerVars
<1>. DEFINE o == Head(commands)
<1>0. op \in [Ops -> OpStates] /\ commands \in Seq(Ops) /\ outbound \in Seq(Frames)
  BY DEF TypeOK
<1>1. o \in Ops /\ \A other \in Queued : other \in Queued' \/ other = o
  BY <1>0, HeadIndex, QueuedTail
<1>. HIDE DEF o
<1>2. Request[o].kind \in RequestKinds /\ Request[o].len \in Nat \ {0}
  BY <1>1, ConstantsAssumption
<1>3. ASSUME Held \subseteq Held', o \in Held' \/ op'[o] # "waiting",
             \A other \in Ops : op'[other] = "waiting" => op[other] = "waiting"
      PROVE  NoLeakedWaiter'
  BY <1>1, <1>3, SameWaiters
<1>4. ASSUME NEW error \in OpStates \ {"waiting"}, Refuse(o, error)
      PROVE  NoLeakedWaiter'
  <2>1. Held' = Held
    BY <1>4 DEF Refuse, Held, PendingSenders, Senders
  <2>2. op'[o] # "waiting" /\ \A other \in Ops : op'[other] = "waiting" => op[other] = "waiting"
    BY <1>0, <1>1, <1>4 DEF Refuse, Send
  <2>. QED  BY <1>3, <2>1, <2>2
<1>5. ASSUME NEW frame \in Frames, Carries(frame), frame.op = o, enqueue(frame),
             UNCHANGED <<op, pending_acks>>
      PROVE  NoLeakedWaiter'
  <2>1. Senders(outbound) \cup {o} \subseteq Senders(outbound')
    BY <1>0, <1>5, SendersAppend DEF enqueue
  <2>2. Held \cup {o} \subseteq Held'
    BY <1>5, <2>1 DEF enqueue, Held, PendingSenders, Senders
  <2>. QED  BY <1>3, <1>5, <2>2
<1>6. \A len : EnqueueError(len) \in OpStates \ {"waiting"}
  BY DEF EnqueueError, OpStates, Results
<1>7. CASE closing /\ Refuse(o, "ClientClosed")
  BY <1>4, <1>7 DEF OpStates, Results
<1>8. CASE begin_publish_qos0(o)
  <2>. DEFINE frame == Frame("PUBLISH", 0, o, Request[o].len, "PublishQos0")
  <2>1. frame \in Frames /\ Carries(frame) /\ frame.op = o
    BY <1>1, <1>2 DEF Frame, Frames, FrameTypes, WrittenActions, Carries
  <2>. HIDE DEF frame
  <2>2. \/ Refuse(o, "Invalid") \/ Refuse(o, EnqueueError(Request[o].len))
        \/ enqueue(frame) /\ UNCHANGED <<op, pending_acks>>
    BY <1>8 DEF begin_publish_qos0, frame
  <2>. QED  BY <1>4, <1>5, <1>6, <2>1, <2>2 DEF OpStates, Results
<1>9. CASE begin_disconnect(o)
  <2>. DEFINE frame == Frame("DISCONNECT", 0, o, ShortLen, "Disconnect")
  <2>1. frame \in Frames /\ Carries(frame) /\ frame.op = o
    BY <1>1 DEF Frame, Frames, FrameTypes, WrittenActions, Carries, ShortLen
  <2>. HIDE DEF frame
  <2>2. \/ Refuse(o, EnqueueError(ShortLen))
        \/ enqueue(frame) /\ UNCHANGED <<op, pending_acks>>
    BY <1>9 DEF begin_disconnect, frame
  <2>. QED  BY <1>4, <1>5, <1>6, <2>1, <2>2
<1>10. CASE Request[o].kind \notin {"PublishQos0", "Disconnect"} /\ begin_acknowledged(o)
  <2>1. Refusal(o) # "none" => Refusal(o) \in OpStates \ {"waiting"}
    BY <1>6 DEF Refusal, OpStates, Results
  <2>2. AckClassOf(Request[o].kind) \in AckClasses
    BY <1>2, <1>10 DEF RequestKinds, AckClassOf, AckClasses
  <2>3. ASSUME NEW id \in PacketIds, reserve_packet_id(id), UNCHANGED op,
               pending_acks' = With(id, NewPending(o, AckClassOf(Request[o].kind))),
               enqueue(Frame(RequestType(AckClassOf(Request[o].kind)), id, o, Request[o].len, "None"))
        PROVE  NoLeakedWaiter'
    <3>. DEFINE class == AckClassOf(Request[o].kind)
    <3>. DEFINE frame == Frame(RequestType(class), id, o, Request[o].len, "None")
    <3>1. frame \in Frames
      BY <1>1, <1>2, <2>2, ConstantsAssumption
         DEF Frame, Frames, FrameTypes, WrittenActions, RequestType, AckClasses, PacketIds
    <3>2. id \notin DOMAIN pending_acks /\ class # "Tombstone"
      BY <2>2, <2>3 DEF reserve_packet_id, Free, AckClasses
    <3>3. PendingSenders \cup {o} \subseteq PendingSenders'
      BY <2>3, <3>2 DEF PendingSenders, With, NewPending
    <3>4. Senders(outbound) \subseteq Senders(outbound') /\ UNCHANGED flush_actions
      BY <1>0, <2>3, <3>1, SendersAppend DEF enqueue
    <3>5. Held \cup {o} \subseteq Held'
      BY <3>3, <3>4 DEF Held, Senders
    <3>. QED  BY <1>3, <2>3, <3>5
  <2>4. CASE Refusal(o) # "none" /\ Refuse(o, Refusal(o))
    BY <1>4, <2>1, <2>4
  <2>5. CASE Refuse(o, IF Request[o].defect = "validate" THEN "Invalid" ELSE "QueueFull")
    BY <1>4, <2>5 DEF OpStates, Results
  <2>. QED  BY <1>10, <2>3, <2>4, <2>5 DEF begin_acknowledged
<1>11. \/ closing /\ Refuse(o, "ClientClosed")
       \/ begin_publish_qos0(o)
       \/ begin_disconnect(o)
       \/ Request[o].kind \notin {"PublishQos0", "Disconnect"} /\ begin_acknowledged(o)
  BY DEF process_command, Begin, o
<1>. QED  BY <1>7, <1>8, <1>9, <1>10, <1>11

\* The commands, the flushes and the writes.
LEMMA OutboundWaiters ==
    ASSUME TypeOK, NoLeakedWaiter,
           \/ Start \/ DrainCommand \/ DrainEnd \/ DrainDisconnected \/ FlushNotNeeded
           \/ complete_written \/ FlushEnd \/ WriteEnd \/ Finish \/ Continue
           \/ WaitCommand \/ WaitTimeout \/ WaitDisconnected \/ TransportAccepts
           \/ TransportRefuses \/ TransportBreaks
    PROVE  NoLeakedWaiter'
<1>. USE DEF callerVars, loopVars, endVars, ackVars, queueVars, pingVars, brokerVars
<1>0. /\ op \in [Ops -> OpStates] /\ outbound \in Seq(Frames) /\ flush_actions \in Seq(Frames)
  BY DEF TypeOK
<1>1. CASE \/ Start \/ DrainEnd \/ FlushNotNeeded \/ FlushEnd \/ WriteEnd \/ Continue \/ WaitTimeout
           \/ TransportRefuses \/ FlushAccepted
  <2>1. UNCHANGED <<op, pending_acks, outbound, flush_actions, commands>> /\ pc # "done" /\ pc' # "done"
    BY <1>1 DEF Start, DrainEnd, FlushNotNeeded, FlushEnd, WriteEnd, Continue, WaitTimeout, Writes,
                TransportRefuses, FlushBlocked, WritePart, WriteBlocked, FlushAccepted, OnlyPc,
                WriteUnchanged, ToDrain, ToFlush, Goto
  <2>. QED  BY <2>1, IdleWaiters
<1>2. CASE DrainCommand \/ WaitCommand
  BY <1>2, ProcessWaiters DEF DrainCommand, WaitCommand, ToDrain
<1>3. CASE DrainDisconnected \/ WaitDisconnected
  <2>. DEFINE frame == Frame("DISCONNECT", 0, NoOp, ShortLen, "AbandonedDisconnect")
  <2>1. frame \in Frames
    BY DEF Frame, Frames, FrameTypes, WrittenActions, ShortLen
  <2>. HIDE DEF frame
  <2>2. \/ Return(EnqueueError(ShortLen), << >>, op)
        \/ /\ UNCHANGED <<op, pending_acks, commands>> /\ pc # "done" /\ pc' # "done"
           /\ UNCHANGED <<outbound, flush_actions>> \/ enqueue(frame)
    BY <1>3 DEF DrainDisconnected, WaitDisconnected, begin_abandoned_disconnect, ToFlush, ToDrain, frame
  <2>3. CASE /\ UNCHANGED <<op, pending_acks, commands, outbound, flush_actions>>
             /\ pc # "done" /\ pc' # "done"
    BY <2>3, IdleWaiters
  <2>. QED  BY <1>0, <2>1, <2>2, <2>3, EnqueueWaiters, ReturnWaiters
<1>4. CASE complete_written
  <2>1. /\ flush_actions # << >> /\ flush_actions' = Tail(flush_actions)
        /\ UNCHANGED <<pending_acks, outbound, commands, pc>> /\ pc # "done"
        /\ op' = IF Head(flush_actions).action \in Answers THEN Send(Head(flush_actions).op, "Ok") ELSE op
    BY <1>4 DEF complete_written
  <2>2. \A o \in Ops : /\ op'[o] = "waiting" => op[o] = "waiting"
                       /\ Carries(Head(flush_actions)) /\ o = Head(flush_actions).op => op'[o] # "waiting"
    BY <1>0, <2>1 DEF Send, Answers, Carries
  <2>3. \A o \in Ops : op'[o] = "waiting" /\ o \in Senders(flush_actions) => o \in Senders(flush_actions')
    BY <1>0, <2>1, <2>2, SendersTail
  <2>4. /\ Queued' = Queued
        /\ \A o \in Ops : op'[o] = "waiting" /\ o \in Held => o \in Held'
    BY <2>1, <2>3 DEF Queued, Held, PendingSenders, Senders
  <2>. QED  BY <2>1, <2>2, <2>4, SameWaiters
<1>5. CASE WriteFrame
  <2>1. /\ outbound # << >> /\ outbound' = Tail(outbound)
        /\ flush_actions' = Append(flush_actions, Head(outbound))
        /\ UNCHANGED <<op, pending_acks, commands, pc>> /\ pc # "done"
    BY <1>5 DEF WriteFrame, Writes, WriteUnchanged
  <2>2. Head(outbound) \in Frames
    BY <1>0, <2>1, HeadIndex
  <2>3. /\ Senders(flush_actions) \subseteq Senders(flush_actions')
        /\ Carries(Head(outbound)) => Head(outbound).op \in Senders(flush_actions')
    BY <1>0, <2>1, <2>2, SendersAppend
  <2>4. \A o \in Senders(outbound) : o \in Senders(outbound') \/ o \in Senders(flush_actions')
    BY <1>0, <2>1, <2>3, SendersTail
  <2>5. Queued' = Queued /\ Held \subseteq Held'
    BY <2>1, <2>3, <2>4 DEF Queued, Held, PendingSenders, Senders
  <2>. QED  BY <2>1, <2>5, SameWaiters
<1>6. CASE Finish \/ TransportBreaks
  BY <1>6, ReturnWaiters DEF Finish, TransportBreaks, TransportFails, ReadFails
<1>. QED  BY <1>1, <1>2, <1>3, <1>4, <1>5, <1>6 DEF TransportAccepts

\* The packets from the broker, whatever they are.
LEMMA InboundWaiters ==
    ASSUME TypeOK, NoLeakedWaiter,
           \/ ReadSome \/ ReadEof \/ dispatch_publish \/ (\E class \in AckClasses : dispatch_ack(class))
           \/ dispatch_pingresp \/ dispatch_disconnect \/ dispatch_invalid \/ DispatchEnd
    PROVE  NoLeakedWaiter'
<1>. USE DEF callerVars, loopVars, endVars, ackVars, queueVars, pingVars, brokerVars
<1>0. /\ op \in [Ops -> OpStates] /\ outbound \in Seq(Frames) /\ inbound \in Seq(Packets)
      /\ read \in 0..Len(inbound)
      /\ \A id \in DOMAIN pending_acks : pending_acks[id] \in PendingAcks
  BY DEF TypeOK
<1>1. CASE ReadSome \/ DispatchEnd \/ dispatch_pingresp
  <2>1. UNCHANGED <<op, pending_acks, outbound, flush_actions, commands>> /\ pc # "done" /\ pc' # "done"
    BY <1>1 DEF ReadSome, DispatchEnd, OnlyPc, dispatch_pingresp, Dispatches, DispatchNext, Goto
  <2>. QED  BY <2>1, IdleWaiters
<1>2. CASE ReadEof \/ dispatch_disconnect \/ dispatch_invalid
  BY <1>2, ReturnWaiters DEF ReadEof, dispatch_disconnect, dispatch_invalid
<1>3. ASSUME read > 0  PROVE Head(inbound) \in Packets
  <2>1. Len(inbound) # 0 /\ inbound # << >>
    BY <1>0, <1>3, EmptySeq
  <2>. QED  BY <1>0, <2>1, HeadIndex
<1>4. CASE dispatch_publish
  <2>. DEFINE frame == Frame("PUBACK", Head(inbound).id, NoOp, PubAckLen, "None")
  <2>0. pc = "dispatch" /\ read > 0
    BY <1>4 DEF dispatch_publish, Dispatches
  <2>a. Head(inbound).id \in Nat
    BY <1>3, <2>0 DEF Packets
  <2>1. frame \in Frames
    BY <2>a DEF Frame, Frames, FrameTypes, WrittenActions, PubAckLen
  <2>. HIDE DEF frame
  <2>2. \/ \E result \in {"PacketTooLarge", "QueueFull", "ClientClosed"} : Return(result, << >>, op)
        \/ /\ UNCHANGED <<op, pending_acks, commands, pc>>
           /\ UNCHANGED <<outbound, flush_actions>> \/ enqueue(frame)
    BY <1>4 DEF dispatch_publish, EnqueueError, DispatchNext, frame
  <2>3. CASE UNCHANGED <<op, pending_acks, commands, pc, outbound, flush_actions>>
    BY <2>0, <2>3, IdleWaiters
  <2>. QED  BY <1>0, <2>0, <2>1, <2>2, <2>3, EnqueueWaiters, ReturnWaiters
<1>5. ASSUME NEW class \in AckClasses, dispatch_ack(class)
      PROVE  NoLeakedWaiter'
  <2>. DEFINE id == Head(inbound).id
  <2>. DEFINE code == Head(inbound).code
  <2>. DEFINE live == Takes(id, class) /\ pending_acks[id].kind # "Tombstone"
  <2>. DEFINE known == IF live THEN Complete(id, code) ELSE op
  <2>0. code \in Codes /\ pc = "dispatch"
    BY <1>3, <1>5 DEF dispatch_ack, Dispatches, Packets
  <2>1. AckResult(code) # "waiting"
    BY <2>0 DEF AckResult, Codes
  <2>2. \A o \in Ops : /\ known[o] = "waiting" => op[o] = "waiting"
                       /\ live /\ o = pending_acks[id].op => known[o] # "waiting"
    BY <1>0, <2>1 DEF Complete, Send
  <2>3. CASE Return("UnexpectedPacket", << >>, op) \/ Return("MalformedPacket", << >>, known)
    BY <2>2, <2>3, ReturnWaiters
  <2>4. CASE /\ id \in DOMAIN pending_acks => Takes(id, class)
             /\ op' = known /\ pending_acks' = Without(id)
             /\ UNCHANGED <<commands, outbound, flush_actions, pc>>
    <3>1. \A o \in PendingSenders :
            o \in PendingSenders' \/ (id \in DOMAIN pending_acks /\ o = pending_acks[id].op /\ live)
      BY <2>4 DEF PendingSenders, Without, Restrict
    <3>2. \A o \in Ops : op'[o] = "waiting" /\ o \in PendingSenders => o \in PendingSenders'
      BY <2>2, <2>4, <3>1
    <3>3. /\ Queued' = Queued
          /\ \A o \in Ops : op'[o] = "waiting" /\ o \in Held => o \in Held'
      BY <2>4, <3>2 DEF Queued, Held, Senders
    <3>. QED  BY <2>0, <2>2, <2>4, <3>3, SameWaiters
  <2>. QED  BY <1>5, <2>3, <2>4 DEF dispatch_ack, DispatchNext
<1>. QED  BY <1>1, <1>2, <1>4, <1>5

\* Deadlines, the keep-alive and time.
LEMMA TimerWaiters ==
    ASSUME TypeOK, NoLeakedWaiter, expire_operations \/ maintain_keep_alive \/ Tick
    PROVE  NoLeakedWaiter'
<1>. USE DEF callerVars, loopVars, endVars, ackVars, queueVars, pingVars, brokerVars
<1>0. /\ op \in [Ops -> OpStates] /\ outbound \in Seq(Frames)
      /\ \A id \in DOMAIN pending_acks : pending_acks[id] \in PendingAcks
  BY DEF TypeOK
<1>1. CASE expire_operations
  <2>1. /\ UNCHANGED <<commands, outbound, flush_actions>> /\ pc # "done" /\ pc' # "done"
        /\ pending_acks' = AfterExpiry
    BY <1>1 DEF expire_operations, Goto
  <2>2. \A id \in DOMAIN pending_acks :
          \/ id \in DOMAIN pending_acks' /\ pending_acks'[id] = pending_acks[id]
          \/ Expires(id)
    BY <2>1 DEF AfterExpiry
  <2>3. \A o \in Ops : op'[o] = "waiting" => op[o] = "waiting"
    BY <1>1 DEF expire_operations
  <2>4. \A id \in DOMAIN pending_acks : Expires(id) => op'[pending_acks[id].op] # "waiting"
    BY <1>0, <1>1 DEF expire_operations, Expires, Expired, Live, is_closed, PendingAcks
  <2>5. \A o \in Ops : op'[o] = "waiting" /\ o \in PendingSenders => o \in PendingSenders'
    BY <2>2, <2>4 DEF PendingSenders
  <2>6. /\ Queued' = Queued
        /\ \A o \in Ops : op'[o] = "waiting" /\ o \in Held => o \in Held'
    BY <2>1, <2>5 DEF Queued, Held, Senders
  <2>. QED  BY <2>1, <2>3, <2>6, SameWaiters
<1>2. CASE Tick
  <2>1. UNCHANGED <<op, commands, outbound, flush_actions, pc>>
    BY <1>2 DEF Tick
  <2>2. /\ DOMAIN pending_acks' = DOMAIN pending_acks
        /\ \A id \in DOMAIN pending_acks : /\ pending_acks'[id].op = pending_acks[id].op
                                           /\ pending_acks'[id].kind = pending_acks[id].kind
    BY <1>0, <1>2 DEF Tick, PendingAcks
  <2>3. Queued' = Queued /\ Held \subseteq Held'
    BY <2>1, <2>2 DEF Queued, Held, PendingSenders, Senders
  <2>. QED  BY <2>1, <2>3, SameWaiters
<1>3. CASE maintain_keep_alive
  <2>. DEFINE frame == Frame("PINGREQ", 0, NoOp, ShortLen, "PingReq")
  <2>1. frame \in Frames
    BY DEF Frame, Frames, FrameTypes, WrittenActions, ShortLen
  <2>. HIDE DEF frame
  <2>2. \/ \E result \in {"KeepAliveTimeout", "PacketTooLarge", "QueueFull"} : Return(result, << >>, op)
        \/ /\ UNCHANGED <<op, pending_acks, commands>> /\ pc # "done" /\ pc' # "done"
           /\ UNCHANGED <<outbound, flush_actions>> \/ enqueue(frame)
    BY <1>3 DEF maintain_keep_alive, EnqueueError, OnlyPc, ToFlush, frame
  <2>3. CASE /\ UNCHANGED <<op, pending_acks, commands, outbound, flush_actions>>
             /\ pc # "done" /\ pc' # "done"
    BY <2>3, IdleWaiters
  <2>. QED  BY <1>0, <2>1, <2>2, <2>3, EnqueueWaiters, ReturnWaiters
<1>. QED  BY <1>1, <1>2, <1>3

\* Every step preserves the invariant, those of a faulty broker included.
LEMMA StepWaiters ==
    ASSUME TypeOK, NoLeakedWaiter, [FaultyNext]_vars
    PROVE  NoLeakedWaiter'
<1>. USE DEF callerVars, loopVars, endVars, ackVars, queueVars, pingVars, brokerVars
<1>1. CASE Broker \/ BrokerStrays \/ UNCHANGED vars
  <2>1. UNCHANGED <<op, pending_acks, outbound, flush_actions, commands, pc>>
    BY <1>1 DEF Broker, BrokerAck, BrokerPingResp, BrokerPublish, BrokerDisconnect, BrokerClose,
                BrokerStrays, BrokerSends, vars
  <2>. QED  BY <2>1, IdleWaiters
<1>. QED  BY <1>1, ApplicationWaiters, OutboundWaiters, InboundWaiters, TimerWaiters
          DEF FaultyNext, Next, Driver, Ended

\* For every value of the constants and whatever the broker sends: a future that
\* waits has its sender in the driver, and none waits once the driver has ended
\* (process_command, complete_written, take_pending_ack, fail_pending).
THEOREM NobodyForgotten == FaultySpec => []NoLeakedWaiter
<1>1. Init => NoLeakedWaiter
  BY DEF Init, NoLeakedWaiter
<1>2. TypeOK /\ NoLeakedWaiter /\ [FaultyNext]_vars => NoLeakedWaiter'
  BY StepWaiters
<1>. QED  BY <1>1, <1>2, TypeCorrect, PTL DEF FaultySpec
=============================================================================
