-------------------- MODULE AsyncDriverDisconnectProofs --------------------
(* A graceful disconnect is the last thing the application says: the proof of *)
(* DisconnectIsLast for every value of the constants, and whatever the broker *)
(* sends.  What makes it inductive is that closing is set as long as there is *)
(* a DISCONNECT in a queue, and that what is queued while it is set answers   *)
(* nobody.                                                                    *)
EXTENDS AsyncDriverWaiterProofs

Elements(frames) == {frames[i] : i \in DOMAIN frames}

\* A frame of the driver itself, which nobody waits for.
OfDriver(frame) == frame.type \in {"PUBACK", "PINGREQ"} /\ ~Carries(frame)
HasDisconnect(frames) == \E frame \in Elements(frames) : frame.type = "DISCONNECT"
OnlyOfDriver(frames) == \A frame \in Elements(frames) : OfDriver(frame)

\* Only frames of the driver are behind a DISCONNECT.
Last(frames) == \A i, j \in DOMAIN frames :
                  i < j /\ frames[i].type = "DISCONNECT" => OfDriver(frames[j])

IsDisconnect(o) == Request[o].kind = "Disconnect"
\* An answer to a call of disconnect comes from a DISCONNECT only.
FrameOK(frame) == /\ frame.action = "Disconnect" => frame.type = "DISCONNECT"
                  /\ frame.action = "PublishQos0" => frame.op \in Ops /\ ~IsDisconnect(frame.op)

Queues == /\ \A frame \in Elements(outbound) \cup Elements(flush_actions) : FrameOK(frame)
          /\ Last(outbound) /\ Last(flush_actions)
          /\ HasDisconnect(flush_actions) => OnlyOfDriver(outbound)
          /\ HasDisconnect(outbound) \/ HasDisconnect(flush_actions) => closing
Table == \A id \in DOMAIN pending_acks : ~IsDisconnect(pending_acks[id].op)
Succeeded == \E o \in Ops : IsDisconnect(o) /\ op[o] = "Ok"
Answered == Succeeded => /\ closing
                         /\ Senders(outbound) = {} /\ Senders(flush_actions) = {}
LastInv == Queues /\ Table /\ Answered

----------------------------------------------------------------------------
(* Queues.                                                                  *)

\* The frames of a queue that grows.
LEMMA ElementsAppend ==
    ASSUME NEW frames \in Seq(Frames), NEW frame \in Frames
    PROVE  /\ Elements(Append(frames, frame)) = Elements(frames) \cup {frame}
           /\ Last(frames) /\ (HasDisconnect(frames) => OfDriver(frame)) => Last(Append(frames, frame))
<1>. DEFINE more == Append(frames, frame)
<1>1. /\ DOMAIN more = DOMAIN frames \cup {Len(frames) + 1}
      /\ \A i \in DOMAIN frames : more[i] = frames[i] /\ i \in Nat /\ i < Len(frames) + 1
      /\ more[Len(frames) + 1] = frame /\ Len(frames) \in Nat
  <2>1. more \in Seq(Frames) /\ Len(more) = Len(frames) + 1
    BY AppendProperties
  <2>2. DOMAIN frames = 1..Len(frames) /\ DOMAIN more = 1..Len(frames) + 1 /\ Len(frames) \in Nat
    BY <2>1, LenProperties
  <2>. QED  BY <2>2, AppendProperties
<1>. HIDE DEF more
<1>2. Elements(more) = Elements(frames) \cup {frame}
  BY <1>1 DEF Elements
<1>3. ASSUME Last(frames), HasDisconnect(frames) => OfDriver(frame)  PROVE Last(more)
  <2>. SUFFICES ASSUME NEW i \in DOMAIN more, NEW j \in DOMAIN more, i < j,
                       more[i].type = "DISCONNECT"
                PROVE  OfDriver(more[j])
    BY DEF Last
  <2>1. i \in DOMAIN frames
    BY <1>1
  <2>2. CASE j \in DOMAIN frames
    BY <1>1, <1>3, <2>1, <2>2 DEF Last
  <2>3. CASE j = Len(frames) + 1
    BY <1>1, <1>3, <2>1, <2>3 DEF HasDisconnect, Elements
  <2>. QED  BY <1>1, <2>2, <2>3
<1>. QED  BY <1>2, <1>3 DEF more

\* The frames of a queue that loses its first.
LEMMA ElementsTail ==
    ASSUME NEW frames \in Seq(Frames), frames # << >>
    PROVE  /\ Elements(frames) = Elements(Tail(frames)) \cup {Head(frames)}
           /\ Last(frames) => /\ Last(Tail(frames))
                              /\ Head(frames).type = "DISCONNECT" => OnlyOfDriver(Tail(frames))
<1>. DEFINE rest == Tail(frames)
<1>1. /\ 1 \in DOMAIN frames /\ Head(frames) = frames[1]
      /\ \A i \in DOMAIN rest : i \in Nat /\ i + 1 \in DOMAIN frames /\ rest[i] = frames[i + 1]
                               /\ 1 < i + 1
      /\ \A i \in DOMAIN frames : i \in Nat /\ (i = 1 \/ (i - 1 \in DOMAIN rest /\ rest[i - 1] = frames[i]))
  <2>1. rest \in Seq(Frames) /\ Len(rest) = Len(frames) - 1
    BY HeadTailProperties
  <2>2. /\ DOMAIN frames = 1..Len(frames) /\ DOMAIN rest = 1..Len(frames) - 1
        /\ Len(frames) \in Nat /\ Len(frames) # 0
    BY <2>1, LenProperties, EmptySeq
  <2>3. \A i \in 1..Len(rest) : rest[i] = frames[i + 1]
    BY HeadTailProperties
  <2>. QED  BY <2>1, <2>2, <2>3, HeadIndex
<1>. HIDE DEF rest
<1>2. Elements(frames) = Elements(rest) \cup {Head(frames)}
  <2>1. Elements(frames) \subseteq Elements(rest) \cup {Head(frames)}
    BY <1>1 DEF Elements
  <2>2. Elements(rest) \cup {Head(frames)} \subseteq Elements(frames)
    BY <1>1 DEF Elements
  <2>. QED  BY <2>1, <2>2
<1>3. ASSUME Last(frames)  PROVE Last(rest)
  <2>. SUFFICES ASSUME NEW i \in DOMAIN rest, NEW j \in DOMAIN rest, i < j,
                       rest[i].type = "DISCONNECT"
                PROVE  OfDriver(rest[j])
    BY DEF Last
  <2>1. i + 1 \in DOMAIN frames /\ j + 1 \in DOMAIN frames /\ i + 1 < j + 1
    BY <1>1
  <2>. QED  BY <1>1, <1>3, <2>1 DEF Last
<1>4. ASSUME Last(frames), Head(frames).type = "DISCONNECT"  PROVE OnlyOfDriver(rest)
  BY <1>1, <1>4 DEF Last, OnlyOfDriver, Elements
<1>. QED  BY <1>2, <1>3, <1>4 DEF rest

\* Who is answered when a queue is flushed.
LEMMA SendersOf ==
    ASSUME NEW frames
    PROVE  /\ Senders(frames) = {frame.op : frame \in {f \in Elements(frames) : Carries(f)}}
           /\ OnlyOfDriver(frames) => Senders(frames) = {}
<1>1. Senders(frames) = {frame.op : frame \in {f \in Elements(frames) : Carries(f)}}
  BY DEF Senders, Elements, Carries
<1>. QED  BY <1>1 DEF OnlyOfDriver, OfDriver

----------------------------------------------------------------------------
(* The steps.                                                               *)

\* No call of disconnect succeeds in the step.
NoSuccess == \A o \in Ops : IsDisconnect(o) /\ op'[o] = "Ok" => op[o] = "Ok"

\* A step that leaves the queues alone.
LEMMA SameQueues ==
    ASSUME LastInv, UNCHANGED <<outbound, flush_actions, closing>>, NoSuccess, Table'
    PROVE  LastInv'
<1>1. Queues'
  BY DEF LastInv, Queues, Last, HasDisconnect, OnlyOfDriver, Elements
<1>2. Answered'
  BY DEF LastInv, Answered, Succeeded, NoSuccess, Senders
<1>. QED  BY <1>1, <1>2 DEF LastInv

\* A frame is queued.
LEMMA EnqueueLast ==
    ASSUME TypeOK, LastInv, NEW frame \in Frames, enqueue(frame), NoSuccess, Table', FrameOK(frame),
           closing => closing' /\ OfDriver(frame), frame.type = "DISCONNECT" => closing'
    PROVE  LastInv'
<1>0. outbound \in Seq(Frames)
  BY DEF TypeOK
<1>1. outbound' = Append(outbound, frame) /\ flush_actions' = flush_actions
  BY DEF enqueue
<1>2. Elements(outbound') = Elements(outbound) \cup {frame}
  BY <1>0, <1>1, ElementsAppend
<1>3. Last(outbound')
  BY <1>0, <1>1, ElementsAppend DEF LastInv, Queues
<1>4. Queues'
  <2>1. HasDisconnect(outbound') => HasDisconnect(outbound) \/ frame.type = "DISCONNECT"
    BY <1>2 DEF HasDisconnect
  <2>2. HasDisconnect(flush_actions) => OnlyOfDriver(outbound')
    BY <1>2 DEF LastInv, Queues, OnlyOfDriver
  <2>3. \A f \in Elements(outbound') : FrameOK(f)
    BY <1>2 DEF LastInv, Queues
  <2>. QED  BY <1>1, <1>3, <2>1, <2>2, <2>3 DEF LastInv, Queues, Last, HasDisconnect, OnlyOfDriver,
                                                Elements
<1>5. Answered'
  <2>. SUFFICES ASSUME Succeeded'  PROVE closing' /\ Senders(outbound') = {} /\ Senders(flush_actions') = {}
    BY DEF Answered
  <2>1. Succeeded
    BY DEF Succeeded, NoSuccess
  <2>2. closing /\ Senders(outbound) = {} /\ Senders(flush_actions) = {}
    BY <2>1 DEF LastInv, Answered
  <2>3. ~Carries(frame)
    BY <2>2 DEF OfDriver
  <2>4. Senders(outbound') = {}
    BY <1>2, <2>2, <2>3, SendersOf
  <2>. QED  BY <1>1, <2>2, <2>4
<1>. QED  BY <1>4, <1>5 DEF LastInv

\* The driver ends, and its queues with it.
LEMMA ClosedLast ==
    ASSUME LastInv, Closed, NoSuccess
    PROVE  LastInv'
<1>1. outbound' = << >> /\ flush_actions' = << >> /\ closing' = closing /\ DOMAIN pending_acks' = {}
  BY DEF Closed, NoPending
<1>2. Elements(outbound') = {} /\ Elements(flush_actions') = {}
      /\ DOMAIN outbound' = {} /\ DOMAIN flush_actions' = {}
  BY <1>1 DEF Elements
<1>3. Senders(outbound') = {} /\ Senders(flush_actions') = {}
  BY <1>2, SendersOf
<1>4. Queues' /\ Table'
  BY <1>1, <1>2 DEF Queues, Table, Last, HasDisconnect, OnlyOfDriver
<1>5. Answered'
  BY <1>1, <1>3 DEF LastInv, Answered, Succeeded, NoSuccess
<1>. QED  BY <1>4, <1>5 DEF LastInv

\* run returns; the failing handler may have answered its own operation.
LEMMA ReturnLast ==
    ASSUME LastInv, NEW result, NEW sent, NEW known, Return(result, sent, known),
           \A o \in Ops : IsDisconnect(o) /\ known[o] = "Ok" => op[o] = "Ok"
    PROVE  LastInv'
<1>1. NoSuccess
  BY DEF NoSuccess, Return, fail_pending
<1>. QED  BY <1>1, ClosedLast DEF Return

\* A command taken from the channel.
LEMMA ProcessLast ==
    ASSUME TypeOK, LastInv, NEW o \in Ops, process_command(o)
    PROVE  LastInv'
<1>. USE DEF callerVars, loopVars, endVars, ackVars, queueVars, pingVars, brokerVars
<1>0. op \in [Ops -> OpStates] /\ Request[o].kind \in RequestKinds /\ Request[o].len \in Nat \ {0}
  BY ConstantsAssumption DEF TypeOK
<1>1. ASSUME NEW error, error # "Ok", Refuse(o, error)
      PROVE  LastInv'
  <2>1. NoSuccess
    BY <1>0, <1>1 DEF NoSuccess, Refuse, Send
  <2>2. Table'
    BY <1>1 DEF Refuse, LastInv, Table
  <2>. QED  BY <1>1, <2>1, <2>2, SameQueues DEF Refuse
<1>2. \A len : EnqueueError(len) # "Ok"
  BY DEF EnqueueError
<1>3. UNCHANGED op => NoSuccess
  BY DEF NoSuccess
<1>4. UNCHANGED pending_acks => Table'
  BY DEF LastInv, Table
<1>5. CASE closing /\ Refuse(o, "ClientClosed")
  BY <1>1, <1>5
<1>6. CASE ~closing /\ Request[o].kind = "PublishQos0" /\ begin_publish_qos0(o)
  <2>. DEFINE frame == Frame("PUBLISH", 0, o, Request[o].len, "PublishQos0")
  <2>1. frame \in Frames /\ FrameOK(frame) /\ frame.type # "DISCONNECT"
    BY <1>0, <1>6 DEF Frame, Frames, FrameTypes, WrittenActions, FrameOK, IsDisconnect
  <2>. HIDE DEF frame
  <2>2. \/ Refuse(o, "Invalid") \/ Refuse(o, EnqueueError(Request[o].len))
        \/ enqueue(frame) /\ UNCHANGED <<op, pending_acks>>
    BY <1>6 DEF begin_publish_qos0, frame
  <2>. QED  BY <1>1, <1>2, <1>3, <1>4, <1>6, <2>1, <2>2, EnqueueLast
<1>7. CASE ~closing /\ begin_disconnect(o)
  <2>. DEFINE frame == Frame("DISCONNECT", 0, o, ShortLen, "Disconnect")
  <2>1. frame \in Frames /\ FrameOK(frame)
    BY DEF Frame, Frames, FrameTypes, WrittenActions, ShortLen, FrameOK
  <2>. HIDE DEF frame
  <2>2. \/ Refuse(o, EnqueueError(ShortLen))
        \/ enqueue(frame) /\ closing' /\ UNCHANGED <<op, pending_acks>>
    BY <1>7 DEF begin_disconnect, frame
  <2>. QED  BY <1>1, <1>2, <1>3, <1>4, <1>7, <2>1, <2>2, EnqueueLast
<1>8. CASE ~closing /\ Request[o].kind \notin {"PublishQos0", "Disconnect"} /\ begin_acknowledged(o)
  <2>1. Refusal(o) # "Ok"
    BY <1>2 DEF Refusal
  <2>2. AckClassOf(Request[o].kind) \in AckClasses
    BY <1>0, <1>8 DEF RequestKinds, AckClassOf, AckClasses
  <2>3. ASSUME NEW id \in PacketIds, UNCHANGED op,
               pending_acks' = With(id, NewPending(o, AckClassOf(Request[o].kind))),
               enqueue(Frame(RequestType(AckClassOf(Request[o].kind)), id, o, Request[o].len, "None"))
        PROVE  LastInv'
    <3>. DEFINE frame == Frame(RequestType(AckClassOf(Request[o].kind)), id, o, Request[o].len, "None")
    <3>1. frame \in Frames /\ FrameOK(frame) /\ frame.type # "DISCONNECT"
      BY <1>0, <2>2, ConstantsAssumption
         DEF Frame, Frames, FrameTypes, WrittenActions, RequestType, AckClasses, PacketIds, FrameOK
    <3>. HIDE DEF frame
    <3>2. Table'
      BY <1>8, <2>3 DEF LastInv, Table, With, NewPending, IsDisconnect
    <3>. QED  BY <1>3, <1>8, <2>3, <3>1, <3>2, EnqueueLast DEF frame
  <2>4. CASE Refuse(o, Refusal(o))
    BY <1>1, <2>1, <2>4
  <2>5. CASE Refuse(o, IF Request[o].defect = "validate" THEN "Invalid" ELSE "QueueFull")
    BY <1>1, <2>5
  <2>. QED  BY <1>8, <2>3, <2>4, <2>5 DEF begin_acknowledged
<1>9. \/ closing /\ Refuse(o, "ClientClosed")
      \/ ~closing /\ Request[o].kind = "PublishQos0" /\ begin_publish_qos0(o)
      \/ ~closing /\ begin_disconnect(o)
      \/ ~closing /\ Request[o].kind \notin {"PublishQos0", "Disconnect"} /\ begin_acknowledged(o)
  BY DEF process_command, Begin
<1>. QED  BY <1>5, <1>6, <1>7, <1>8, <1>9

\* A frame is written, or a written one is flushed and answered.
LEMMA FlushLast ==
    ASSUME TypeOK, LastInv, WriteFrame \/ complete_written
    PROVE  LastInv'
<1>. USE DEF callerVars, loopVars, endVars, ackVars, queueVars, pingVars, brokerVars
<1>0. op \in [Ops -> OpStates] /\ outbound \in Seq(Frames) /\ flush_actions \in Seq(Frames)
  BY DEF TypeOK
<1>1. CASE WriteFrame
  <2>. DEFINE frame == Head(outbound)
  <2>1. /\ outbound # << >> /\ outbound' = Tail(outbound)
        /\ flush_actions' = Append(flush_actions, frame) /\ UNCHANGED <<op, pending_acks, closing>>
    BY <1>1 DEF WriteFrame, Writes, WriteUnchanged
  <2>2. frame \in Frames
    BY <1>0, <2>1, HeadIndex
  <2>. HIDE DEF frame
  <2>3. /\ Elements(outbound) = Elements(outbound') \cup {frame} /\ Last(outbound')
        /\ frame.type = "DISCONNECT" => OnlyOfDriver(outbound')
    BY <1>0, <2>1, ElementsTail DEF frame, LastInv, Queues
  <2>4. HasDisconnect(flush_actions) => OfDriver(frame) /\ OnlyOfDriver(outbound')
    BY <2>3 DEF LastInv, Queues, OnlyOfDriver
  <2>5. Elements(flush_actions') = Elements(flush_actions) \cup {frame} /\ Last(flush_actions')
    BY <1>0, <2>1, <2>2, <2>4, ElementsAppend DEF LastInv, Queues
  <2>6. HasDisconnect(flush_actions') => OnlyOfDriver(outbound')
    BY <2>3, <2>4, <2>5 DEF HasDisconnect
  <2>7. HasDisconnect(outbound') \/ HasDisconnect(flush_actions') => closing'
    BY <2>1, <2>3, <2>5 DEF HasDisconnect, LastInv, Queues
  <2>8. Queues'
    BY <2>3, <2>5, <2>6, <2>7 DEF LastInv, Queues
  <2>9. Answered'
    <3>1. Senders(outbound) = {} => ~Carries(frame) /\ Senders(outbound') = {}
      BY <2>3, SendersOf
    <3>2. Senders(flush_actions) = {} /\ ~Carries(frame) => Senders(flush_actions') = {}
      BY <2>5, SendersOf
    <3>. QED  BY <2>1, <3>1, <3>2 DEF LastInv, Answered, Succeeded
  <2>. QED  BY <2>1, <2>8, <2>9 DEF LastInv, Table
<1>2. CASE complete_written
  <2>. DEFINE frame == Head(flush_actions)
  <2>1. /\ flush_actions # << >> /\ flush_actions' = Tail(flush_actions)
        /\ UNCHANGED <<pending_acks, outbound, closing>>
        /\ op' = IF frame.action \in Answers THEN Send(frame.op, "Ok") ELSE op
    BY <1>2 DEF complete_written
  <2>. HIDE DEF frame
  <2>2. /\ Elements(flush_actions) = Elements(flush_actions') \cup {frame} /\ Last(flush_actions')
        /\ frame.type = "DISCONNECT" => OnlyOfDriver(flush_actions')
    BY <1>0, <2>1, ElementsTail DEF frame, LastInv, Queues
  <2>3. HasDisconnect(flush_actions') => HasDisconnect(flush_actions)
    BY <2>2 DEF HasDisconnect
  <2>4. Queues'
    BY <2>1, <2>2, <2>3 DEF LastInv, Queues, Last, HasDisconnect, OnlyOfDriver, Elements
  <2>5. CASE frame.type = "DISCONNECT"
    <3>1. HasDisconnect(flush_actions) /\ closing'
      BY <2>1, <2>2, <2>5 DEF HasDisconnect, LastInv, Queues
    <3>2. OnlyOfDriver(outbound) /\ OnlyOfDriver(flush_actions')
      BY <2>2, <2>5, <3>1 DEF LastInv, Queues
    <3>3. Senders(outbound') = {} /\ Senders(flush_actions') = {}
      BY <2>1, <3>2, SendersOf
    <3>. QED  BY <2>1, <2>4, <3>1, <3>3 DEF LastInv, Table, Answered
  <2>6. CASE frame.type # "DISCONNECT"
    <3>1. FrameOK(frame)
      BY <2>2 DEF LastInv, Queues
    <3>2. frame.action \in Answers => frame.op \in Ops /\ ~IsDisconnect(frame.op)
      BY <2>6, <3>1 DEF Answers, FrameOK
    <3>3. NoSuccess
      BY <1>0, <2>1, <3>2 DEF NoSuccess, Send
    <3>4. Senders(flush_actions) = {} => Senders(flush_actions') = {}
      BY <2>2, SendersOf
    <3>5. Answered'
      BY <2>1, <3>3, <3>4 DEF LastInv, Answered, Succeeded, NoSuccess, Senders
    <3>. QED  BY <2>1, <2>4, <3>5 DEF LastInv, Table
  <2>. QED  BY <2>5, <2>6
<1>. QED  BY <1>1, <1>2

\* The other steps of the driver, of its transport and of its callers.
LEMMA StepLast ==
    ASSUME TypeOK, LastInv, [FaultyNext]_vars
    PROVE  LastInv'
<1>. USE DEF callerVars, loopVars, endVars, ackVars, queueVars, pingVars, brokerVars
<1>0. /\ op \in [Ops -> OpStates] /\ commands \in Seq(Ops) /\ inbound \in Seq(Packets)
      /\ read \in 0..Len(inbound)
      /\ \A id \in DOMAIN pending_acks : pending_acks[id] \in PendingAcks
  BY DEF TypeOK
<1>1. ASSUME UNCHANGED <<outbound, flush_actions, closing, pending_acks>>, NoSuccess
      PROVE  LastInv'
  BY <1>1, SameQueues DEF LastInv, Table
<1>2. UNCHANGED op => NoSuccess
  BY DEF NoSuccess
<1>3. ASSUME NEW result, NEW sent, Return(result, sent, op)  PROVE LastInv'
  BY <1>3, ReturnLast
<1>4. ASSUME NEW frame \in Frames, OfDriver(frame), FrameOK(frame), enqueue(frame),
             UNCHANGED <<op, pending_acks, closing>>
      PROVE  LastInv'
  BY <1>2, <1>4, EnqueueLast DEF LastInv, Table, OfDriver
<1>5. CASE Application
  <2>1. ASSUME NEW o \in Ops, NEW result, result # "Ok", op' = [op EXCEPT ![o] = result], DriverUnchanged
        PROVE  LastInv'
    <3>1. NoSuccess
      BY <1>0, <2>1 DEF NoSuccess
    <3>. QED  BY <1>1, <2>1, <3>1 DEF DriverUnchanged
  <2>2. ASSUME NEW o \in Ops, send_command(o)  PROVE LastInv'
    BY <2>1, <2>2 DEF send_command
  <2>3. ASSUME NEW o \in Ops, publish(o) \/ Cancel(o)  PROVE LastInv'
    BY <2>1, <2>2, <2>3 DEF publish, Cancel
  <2>4. CASE next_event \/ DropHandle
    BY <1>1, <1>2, <2>4 DEF next_event, DropHandle, DriverUnchanged
  <2>5. CASE DropDriver
    <3>1. NoSuccess
      BY <2>5 DEF NoSuccess, DropDriver
    <3>. QED  BY <2>5, <3>1, ClosedLast DEF DropDriver
  <2>. QED  BY <1>5, <2>2, <2>3, <2>4, <2>5 DEF Application, subscribe, unsubscribe, disconnect
<1>6. CASE DrainCommand \/ WaitCommand
  <2>1. Head(commands) \in Ops /\ process_command(Head(commands))
    BY <1>0, <1>6, HeadIndex DEF DrainCommand, WaitCommand
  <2>. QED  BY <2>1, ProcessLast
<1>7. CASE \/ Start \/ DrainEnd \/ FlushNotNeeded \/ FlushEnd \/ WriteEnd \/ Continue \/ WaitTimeout
           \/ TransportRefuses \/ FlushAccepted \/ ReadSome \/ DispatchEnd \/ dispatch_pingresp
  <2>1. UNCHANGED <<op, pending_acks, outbound, flush_actions, closing>>
    BY <1>7 DEF Start, DrainEnd, FlushNotNeeded, FlushEnd, WriteEnd, Continue, WaitTimeout,
                TransportRefuses, FlushBlocked, WritePart, WriteBlocked, FlushAccepted, OnlyPc,
                WriteUnchanged, ReadSome, DispatchEnd, dispatch_pingresp, DispatchNext
  <2>. QED  BY <1>1, <1>2, <2>1
<1>8. CASE DrainDisconnected \/ WaitDisconnected
  <2>. DEFINE frame == Frame("DISCONNECT", 0, NoOp, ShortLen, "AbandonedDisconnect")
  <2>1. frame \in Frames /\ FrameOK(frame)
    BY DEF Frame, Frames, FrameTypes, WrittenActions, ShortLen, FrameOK
  <2>. HIDE DEF frame
  <2>2. \/ Return(EnqueueError(ShortLen), << >>, op)
        \/ /\ UNCHANGED <<op, pending_acks>> /\ closing' = TRUE
           /\ \/ closing /\ UNCHANGED <<outbound, flush_actions>>
              \/ ~closing /\ enqueue(frame)
    BY <1>8 DEF DrainDisconnected, WaitDisconnected, begin_abandoned_disconnect, frame
  <2>3. CASE closing /\ closing' = TRUE /\ UNCHANGED <<op, pending_acks, outbound, flush_actions>>
    <3>1. closing' = closing
      BY <2>3 DEF TypeOK
    <3>. QED  BY <1>1, <1>2, <2>3, <3>1
  <2>4. CASE ~closing /\ closing' /\ enqueue(frame) /\ UNCHANGED <<op, pending_acks>>
    BY <1>2, <2>1, <2>4, EnqueueLast DEF LastInv, Table
  <2>. QED  BY <1>3, <2>2, <2>3, <2>4
<1>9. CASE \/ Finish \/ TransportBreaks \/ ReadEof \/ dispatch_disconnect \/ dispatch_invalid
  BY <1>3, <1>9 DEF Finish, TransportBreaks, TransportFails, ReadFails, ReadEof, dispatch_disconnect,
                    dispatch_invalid
<1>10. CASE dispatch_publish
  <2>. DEFINE frame == Frame("PUBACK", Head(inbound).id, NoOp, PubAckLen, "None")
  <2>1. Head(inbound).id \in Nat
    <3>1. inbound # << >>
      BY <1>0, <1>10, EmptySeq DEF dispatch_publish, Dispatches
    <3>2. Head(inbound) \in Packets
      BY <1>0, <3>1, HeadTailProperties
    <3>. QED  BY <3>2 DEF Packets
  <2>2. frame \in Frames /\ FrameOK(frame) /\ OfDriver(frame)
    BY <2>1 DEF Frame, Frames, FrameTypes, WrittenActions, PubAckLen, FrameOK, OfDriver, Carries
  <2>. HIDE DEF frame
  <2>3. \/ \E result : Return(result, << >>, op)
        \/ /\ UNCHANGED <<op, pending_acks, closing>>
           /\ UNCHANGED <<outbound, flush_actions>> \/ enqueue(frame)
    BY <1>10 DEF dispatch_publish, DispatchNext, frame
  <2>. QED  BY <1>1, <1>2, <1>3, <1>4, <2>2, <2>3
<1>11. ASSUME NEW class \in AckClasses, dispatch_ack(class)  PROVE LastInv'
  <2>. DEFINE id == Head(inbound).id
  <2>. DEFINE code == Head(inbound).code
  <2>. DEFINE live == Takes(id, class) /\ pending_acks[id].kind # "Tombstone"
  <2>. DEFINE known == IF live THEN Complete(id, code) ELSE op
  <2>1. \A o \in Ops : IsDisconnect(o) => known[o] = op[o]
    <3>1. live => pending_acks[id].op \in Ops /\ ~IsDisconnect(pending_acks[id].op)
      BY <1>0 DEF Takes, PendingAcks, LastInv, Table
    <3>. QED  BY <1>0, <3>1 DEF Complete, Send
  <2>. HIDE DEF known
  <2>2. \/ Return("UnexpectedPacket", << >>, op)
        \/ Return("MalformedPacket", << >>, known)
        \/ /\ op' = known /\ pending_acks' = Without(id)
           /\ UNCHANGED <<outbound, flush_actions, closing>>
    BY <1>11 DEF dispatch_ack, DispatchNext, known
  <2>3. CASE Return("MalformedPacket", << >>, known)
    BY <2>1, <2>3, ReturnLast
  <2>4. CASE /\ op' = known /\ pending_acks' = Without(id)
             /\ UNCHANGED <<outbound, flush_actions, closing>>
    <3>1. NoSuccess
      BY <2>1, <2>4 DEF NoSuccess
    <3>2. Table'
      BY <2>4 DEF LastInv, Table, Without, Restrict
    <3>. QED  BY <2>4, <3>1, <3>2, SameQueues
  <2>. QED  BY <1>3, <2>2, <2>3, <2>4
<1>12. CASE expire_operations
  <2>1. NoSuccess
    BY <1>12 DEF expire_operations, NoSuccess
  <2>2. Table'
    BY <1>0, <1>12 DEF expire_operations, AfterExpiry, Tombstone, LastInv, Table, PendingAcks
  <2>. QED  BY <1>12, <2>1, <2>2, SameQueues DEF expire_operations
<1>13. CASE maintain_keep_alive
  <2>. DEFINE frame == Frame("PINGREQ", 0, NoOp, ShortLen, "PingReq")
  <2>1. frame \in Frames /\ FrameOK(frame) /\ OfDriver(frame)
    BY DEF Frame, Frames, FrameTypes, WrittenActions, ShortLen, FrameOK, OfDriver, Carries
  <2>. HIDE DEF frame
  <2>2. \/ \E result : Return(result, << >>, op)
        \/ /\ UNCHANGED <<op, pending_acks, closing>>
           /\ UNCHANGED <<outbound, flush_actions>> \/ enqueue(frame)
    BY <1>13 DEF maintain_keep_alive, OnlyPc, frame
  <2>. QED  BY <1>1, <1>2, <1>3, <1>4, <2>1, <2>2
<1>14. CASE Tick
  <2>1. Table'
    BY <1>0, <1>14 DEF Tick, LastInv, Table, PendingAcks
  <2>. QED  BY <1>2, <1>14, <2>1, SameQueues DEF Tick
<1>15. CASE Broker \/ BrokerStrays \/ UNCHANGED vars
  <2>1. UNCHANGED <<op, pending_acks, outbound, flush_actions, closing>>
    BY <1>15 DEF Broker, BrokerAck, BrokerPingResp, BrokerPublish, BrokerDisconnect, BrokerClose,
                 BrokerStrays, BrokerSends, vars
  <2>. QED  BY <1>1, <1>2, <2>1
<1>. QED  BY <1>5, <1>6, <1>7, <1>8, <1>9, <1>10, <1>11, <1>12, <1>13, <1>14, <1>15, FlushLast
          DEF FaultyNext, Next, Driver, TransportAccepts, Ended

\* For every value of the constants and whatever the broker sends: behind a DISCONNECT the
\* driver queues only its own PUBACKs and PINGREQs, and a call of disconnect that succeeded
\* left no publication of QoS 0 unflushed (process_command, begin_disconnect, complete_written).
THEOREM NothingAfterDisconnect == FaultySpec => []DisconnectIsLast
<1>1. Init => LastInv
  <2>. SUFFICES ASSUME Init  PROVE LastInv
    OBVIOUS
  <2>1. DOMAIN outbound = {} /\ DOMAIN flush_actions = {} /\ DOMAIN pending_acks = {}
    BY DEF Init, NoPending
  <2>2. Queues /\ Table
    BY <2>1 DEF Queues, Table, Last, HasDisconnect, OnlyOfDriver, Elements
  <2>3. ~Succeeded
    BY DEF Init, Succeeded
  <2>. QED  BY <2>2, <2>3 DEF LastInv, Answered
<1>2. TypeOK /\ LastInv /\ [FaultyNext]_vars => LastInv'
  BY StepLast
<1>3. LastInv => DisconnectIsLast
  <2>. SUFFICES ASSUME LastInv  PROVE DisconnectIsLast
    OBVIOUS
  <2>1. Last(outbound)
    BY DEF LastInv, Queues
  <2>2. Succeeded => Senders(outbound) \cup Senders(flush_actions) = {}
    BY DEF LastInv, Answered
  <2>. QED  BY <2>1, <2>2 DEF DisconnectIsLast, Last, OfDriver, Succeeded, IsDisconnect
<1>. QED  BY <1>1, <1>2, <1>3, TypeCorrect, PTL DEF FaultySpec
=============================================================================
