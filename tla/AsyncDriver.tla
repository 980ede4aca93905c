---------------------------- MODULE AsyncDriver ----------------------------
(***************************************************************************)
(* The async client of mqtt-wasi: AsyncMqttClient (the cloneable command   *)
(* handle), MqttConnection (the one task that owns the transport), the     *)
(* transport and the broker, in the build without the request-response     *)
(* feature (src/src/async_client.rs).                                      *)
(*                                                                         *)
(* An operation is one call of publish, subscribe, unsubscribe or          *)
(* disconnect with its oneshot channel.  op[o] is what its future sees:    *)
(* "idle" (not called), "waiting", "dropped" (the future was dropped) or   *)
(* the result it resolved to.  The sender half of the channel travels with *)
(* the operation: in commands, then in pending_acks (QoS 1, SUBSCRIBE,     *)
(* UNSUBSCRIBE) or in the written action of a frame (QoS 0, DISCONNECT).   *)
(*                                                                         *)
(* Instants are replaced by the number of ticks that remain until a        *)
(* deadline, or that have passed since an instant, saturating at the bound *)
(* the code compares with.  The poll interval is shorter than one tick.    *)
(***************************************************************************)
EXTENDS Integers, Sequences, FiniteSets, Functions

CONSTANTS
    Ops,                       \* operations the application may start
    Request,                   \* what each operation asks for
    NoOp,                      \* not an operation
    MaxPacketId,               \* 65535 in the code (u16::MAX)
    command_capacity,          \* also max_pending_operations
    event_capacity,            \* also the Receive Maximum sent in CONNECT
    peer_receive_maximum,
    peer_max_packet_size,
    max_outbound_queue_bytes,
    AckTimeout,                \* ack_timeout in ticks
    KeepAlive,                 \* keep_alive_secs in ticks, 0 when disabled
    MessageQos,                \* QoS of the messages the broker may publish
    StrayBound,                \* inbound packets a faulty broker has in transit
    Hazards                    \* what may go wrong in this instance

AllHazards == {"cancel",   \* the application drops the future of an operation,
               "drop",     \* the handle, or the driver
               "block",    \* the transport would block or takes part of a frame
               "break",    \* the transport fails
               "reject",   \* the broker rejects a request
               "leave"}    \* the broker says DISCONNECT or closes the stream

RequestKinds == {"PublishQos0", "PublishQos1", "Subscribe", "Unsubscribe", "Disconnect"}
Defects == {"none", "validate", "encode"}
AckClasses == {"Publish", "Subscribe", "Unsubscribe"}

ASSUME ConstantsAssumption ==
    /\ Request \in [Ops -> [kind : RequestKinds, len : Nat \ {0}, payload : Nat,
                            defect : Defects]]
    /\ NoOp \notin Ops
    /\ MaxPacketId \in Nat \ {0}
    /\ command_capacity \in Nat \ {0}
    /\ event_capacity \in Nat \ {0}
    /\ peer_receive_maximum \in Nat \ {0}
    /\ peer_max_packet_size \in Nat \ {0}
    /\ max_outbound_queue_bytes \in Nat \ {0}
    /\ AckTimeout \in Nat \ {0}
    /\ KeepAlive \in Nat
    /\ MessageQos \in Seq({0, 1})
    /\ StrayBound \in Nat
    /\ Hazards \subseteq AllHazards

VARIABLES
    op,               \* what the future of each operation sees
    handle,           \* some AsyncMqttClient clone is alive
    seen,             \* messages next_event has returned
    commands,         \* the bounded command channel
    events,           \* the bounded event channel
    pc,               \* where run_inner is
    pass,             \* which of the two flush_outbound calls of the loop
    budget,           \* try_recv calls left in drain_commands
    exit,             \* what run returned
    next_packet_id,
    pending_acks,
    outbound,
    started,          \* a proper prefix of the front frame is written (offset > 0)
    outbound_bytes,
    flush_actions,    \* frames written and not yet flushed
    needs_flush,
    closing,
    ping_queued,
    ping_age,         \* ticks since ping_outstanding_since
    idle,             \* ticks since last_write_at
    terminal_event_sent,
    inbound,          \* packets the broker sent and the driver has not dispatched
    read,             \* how many of them are in the frame reader
    broker,           \* "up", "leaving" after its DISCONNECT, or "closed"
    unacked,          \* client packets the broker has to acknowledge
    acked,            \* operations the broker acknowledged with success
    pings_owed,       \* PINGREQs the broker has not answered
    published,        \* messages the broker has published
    pubacked          \* messages whose PUBACK reached the broker

callerVars == <<op, handle, seen>>
queueVars == <<outbound, started, outbound_bytes, flush_actions, needs_flush>>
ackVars == <<next_packet_id, pending_acks>>
pingVars == <<ping_queued, ping_age, idle>>
brokerVars == <<broker, unacked, acked, pings_owed, published, pubacked>>
loopVars == <<pass, budget>>
endVars == <<exit, terminal_event_sent>>
vars == <<callerVars, commands, events, pc, loopVars, endVars, ackVars, queueVars,
          closing, pingVars, inbound, read, brokerVars>>

----------------------------------------------------------------------------
(* Packets.  `op` is the identity of the operation a packet belongs to: on  *)
(* the wire it is the content, which the driver never looks at.             *)

NoPing == -1
PacketIds == 1..MaxPacketId

Results == {"Ok", "AckRejected", "Timeout", "QueueFull", "PacketTooLarge", "Invalid",
            "Malformed", "ClientClosed", "ConnectionClosed"}
OpStates == {"idle", "waiting", "dropped"} \cup Results
PCs == {"start", "drain", "flush", "flushed", "write", "sync", "synced", "check", "read",
        "dispatch", "expire", "keepalive", "wait", "done"}
Exits == {"running", "Ok", "Io", "ConnectionClosed", "ServerDisconnected", "QueueFull",
          "PacketTooLarge", "ClientClosed", "UnexpectedPacket", "MalformedPacket",
          "KeepAliveTimeout", "Dropped"}

FrameTypes == {"PUBLISH", "SUBSCRIBE", "UNSUBSCRIBE", "PUBACK", "PINGREQ", "DISCONNECT"}
WrittenActions == {"None", "PublishQos0", "PingReq", "Disconnect", "AbandonedDisconnect"}
Frame(type, id, o, len, action) ==
    [type |-> type, id |-> id, op |-> o, len |-> len, action |-> action]
Frames == [type : FrameTypes, id : Nat, op : Ops \cup {NoOp}, len : Nat \ {0},
           action : WrittenActions]

PacketTypes == {"PUBACK", "SUBACK", "UNSUBACK", "PUBLISH", "PINGRESP", "DISCONNECT",
                "OTHER", "BAD", "EOF"}
Codes == {"ok", "rejected", "malformed"}
Packet(type, id, o, code) == [type |-> type, id |-> id, op |-> o, code |-> code]
Packets == [type : PacketTypes, id : Nat, op : Ops \cup {NoOp}, code : Codes]

PendingKinds == AckClasses \cup {"Tombstone"}
PendingAcks == [kind : PendingKinds, ack : AckClasses, op : Ops, ttl : 0..AckTimeout]

EventSet == [type : {"Publish", "ClientInitiated", "Server", "TransportClosed"}, id : Nat]
Event(type, id) == [type |-> type, id |-> id]

\* The acknowledgement a request waits for (PendingAckKind::ack_class).
AckClassOf(kind) == IF kind = "PublishQos1" THEN "Publish" ELSE kind
RequestType(class) ==
    CASE class = "Publish" -> "PUBLISH" [] class = "Subscribe" -> "SUBSCRIBE"
      [] class = "Unsubscribe" -> "UNSUBSCRIBE"
AckType(class) ==
    CASE class = "Publish" -> "PUBACK" [] class = "Subscribe" -> "SUBACK"
      [] class = "Unsubscribe" -> "UNSUBACK"

ShortLen == 2        \* PINGREQ and DISCONNECT with reason code 0
PubAckLen == 4       \* PUBACK without properties

----------------------------------------------------------------------------
(* Result channels, queues and deadlines.                                   *)

\* Mutant: an answer replaces what is there.
Send_again(o, result) == [op EXCEPT ![o] = result]
\* oneshot::Sender::send: a dropped receiver ignores the value.
Send(o, result) == [op EXCEPT ![o] = IF @ = "waiting" THEN result ELSE @]
is_closed(o) == op[o] = "dropped"

\* Whether mpsc::Sender::try_send on the event channel succeeds, and what it does.
\* Mutant: a full event queue drops the message.
Overflow_ignored == FALSE
EventRoom == handle /\ Len(events) < event_capacity
TrySendEvent(e) == IF EventRoom THEN Append(events, e) ELSE events
EventOverflow == ~EventRoom

\* enqueue_with_action: the two bounds a frame has to respect.
\* Mutant: the byte bound of the queue is not checked.
Fits_packet_only(len) == len <= peer_max_packet_size
Fits(len) == /\ len <= peer_max_packet_size
             /\ outbound_bytes + len <= max_outbound_queue_bytes
EnqueueError(len) == IF len > peer_max_packet_size THEN "PacketTooLarge" ELSE "QueueFull"
enqueue(frame) == /\ outbound' = Append(outbound, frame)
                  /\ outbound_bytes' = outbound_bytes + frame.len
                  /\ UNCHANGED <<started, flush_actions, needs_flush>>

keep_alive_interval == IF KeepAlive \div 2 > 1 THEN KeepAlive \div 2 ELSE 1

\* reserve_packet_id tries the identifiers in order from next_packet_id, wrapping past 0.
Distance(id) ==
    IF id >= next_packet_id THEN id - next_packet_id ELSE id - next_packet_id + MaxPacketId
Free == PacketIds \ DOMAIN pending_acks
\* Mutant: the identifier is not looked up in the table.
reserve_packet_id_unchecked(id) == id = next_packet_id
reserve_packet_id(id) == /\ id \in Free
                         /\ \A other \in Free : Distance(id) <= Distance(other)
NextId(id) == IF id = MaxPacketId THEN 1 ELSE id + 1

outgoing_qos1_count == Cardinality({id \in DOMAIN pending_acks : pending_acks[id].ack = "Publish"})
PendingRoom == Cardinality(DOMAIN pending_acks) < command_capacity
NoPending == [id \in {} |-> NoOp]
NewPending(o, class) == [kind |-> class, ack |-> class, op |-> o, ttl |-> AckTimeout]
Tombstone(pending) == [pending EXCEPT !.kind = "Tombstone"]
Without(id) == Restrict(pending_acks, DOMAIN pending_acks \ {id})
With(id, pending) == [other \in DOMAIN pending_acks \cup {id} |->
                        IF other = id THEN pending ELSE pending_acks[other]]

\* The operations whose sender is in a queue.
Senders(frames) == {frames[i].op : i \in {j \in DOMAIN frames :
                        frames[j].action \in {"PublishQos0", "Disconnect"}}}
PendingSenders == {pending_acks[id].op : id \in {j \in DOMAIN pending_acks :
                        pending_acks[j].kind # "Tombstone"}}
Queued == {commands[i] : i \in DOMAIN commands}
Held == PendingSenders \cup Senders(outbound) \cup Senders(flush_actions)

----------------------------------------------------------------------------
(* The end of the driver.                                                   *)

\* What a dropped or returned MqttConnection leaves behind: its queues are gone
\* and the transport is shut down.
Closed == /\ pc' = "done"
          /\ pending_acks' = NoPending
          /\ outbound' = << >>
          /\ flush_actions' = << >>
          /\ outbound_bytes' = 0
          /\ started' = FALSE
          /\ needs_flush' = FALSE
          /\ commands' = << >>
          /\ inbound' = << >>
          /\ read' = 0
          /\ unacked' = {}
          /\ pings_owed' = 0
          /\ UNCHANGED <<handle, seen, loopVars, next_packet_id, closing, pingVars, broker,
                         acked, published, pubacked>>

\* Mutant: frames written and not flushed are forgotten.
fail_pending_unflushed(known) ==
    [o \in Ops |-> IF known[o] # "waiting" THEN known[o]
                   ELSE IF o \in PendingSenders \cup Senders(outbound) THEN "ConnectionClosed"
                   ELSE IF o \in Queued THEN "ClientClosed" ELSE known[o]]
\* fail_pending, then the drop of the command receiver with what it still holds.
\* known: the results once the failing handler itself has sent its own.
fail_pending(known) ==
    [o \in Ops |-> IF known[o] # "waiting" THEN known[o]
                   ELSE IF o \in Held THEN "ConnectionClosed"
                   ELSE IF o \in Queued THEN "ClientClosed" ELSE known[o]]

\* run after run_inner returned: an error without a terminal event emits one.
\* sent: the terminal event the failing handler itself tried to send.
Return(result, sent, known) ==
    /\ Closed
    /\ op' = fail_pending(known)
    /\ exit' = result
    /\ terminal_event_sent' = (terminal_event_sent \/ sent # << >>)
    /\ events' = IF sent # << >> THEN TrySendEvent(sent[1])
                 ELSE IF result = "Ok" \/ terminal_event_sent THEN events
                 ELSE TrySendEvent(Event("TransportClosed", 0))

----------------------------------------------------------------------------
(* The handle.  Tokio's current-thread runtime runs the application only     *)
(* while the driver awaits, has not been polled yet, or has ended.           *)

ApplicationRuns == pc \in {"start", "wait", "done"}
DriverUnchanged == UNCHANGED <<pc, loopVars, endVars, ackVars, queueVars, closing, pingVars,
                               inbound, read, brokerVars>>

\* send_command and the await of receive_result.
send_command(o) ==
    /\ IF pc = "done" THEN op' = [op EXCEPT ![o] = "ClientClosed"] /\ UNCHANGED commands
       ELSE IF Len(commands) >= command_capacity
       THEN op' = [op EXCEPT ![o] = "QueueFull"] /\ UNCHANGED commands
       ELSE op' = [op EXCEPT ![o] = "waiting"] /\ commands' = Append(commands, o)
    /\ DriverUnchanged
    /\ UNCHANGED <<handle, seen, events>>

Calls(o, kinds) == /\ ApplicationRuns
                   /\ handle
                   /\ op[o] = "idle"
                   /\ Request[o].kind \in kinds

publish(o) ==
    /\ Calls(o, {"PublishQos0", "PublishQos1"})
    /\ \/ /\ Request[o].payload > peer_max_packet_size
          /\ op' = [op EXCEPT ![o] = "PacketTooLarge"]
          /\ DriverUnchanged
          /\ UNCHANGED <<handle, seen, commands, events>>
       \/ /\ Request[o].payload <= peer_max_packet_size
          /\ send_command(o)

subscribe(o) == Calls(o, {"Subscribe"}) /\ send_command(o)
unsubscribe(o) == Calls(o, {"Unsubscribe"}) /\ send_command(o)
disconnect(o) == Calls(o, {"Disconnect"}) /\ send_command(o)

\* The application drops the future of an operation.
Cancel(o) == /\ "cancel" \in Hazards
             /\ ApplicationRuns
             /\ op[o] = "waiting"
             /\ op' = [op EXCEPT ![o] = "dropped"]
             /\ DriverUnchanged
             /\ UNCHANGED <<handle, seen, commands, events>>

next_event == /\ ApplicationRuns
              /\ handle
              /\ events # << >>
              /\ events' = Tail(events)
              /\ seen' = IF Head(events).type = "Publish" THEN Append(seen, Head(events).id)
                         ELSE seen
              /\ DriverUnchanged
              /\ UNCHANGED <<op, handle, commands>>

\* The last clone goes away; the futures of waiting operations borrow a clone.
DropHandle == /\ "drop" \in Hazards
              /\ ApplicationRuns
              /\ handle
              /\ \A o \in Ops : op[o] # "waiting"
              /\ handle' = FALSE
              /\ events' = << >>
              /\ DriverUnchanged
              /\ UNCHANGED <<op, seen, commands>>

\* The application drops the future of run instead of polling it to the end.
DropDriver == /\ "drop" \in Hazards
              /\ pc \in {"start", "wait"}
              /\ Closed
              /\ op' = [o \in Ops |-> IF op[o] = "waiting" /\ o \in Held \cup Queued
                                      THEN "ClientClosed" ELSE op[o]]
              /\ exit' = "Dropped"
              /\ UNCHANGED <<events, terminal_event_sent>>

----------------------------------------------------------------------------
(* process_command.                                                         *)

Refuse(o, error) == /\ op' = Send(o, error)
                    /\ UNCHANGED <<pending_acks, queueVars, closing>>

\* begin_publish with QoS 0.
begin_publish_qos0(o) ==
    LET len == Request[o].len IN
    /\ UNCHANGED ackVars
    /\ \/ Request[o].defect # "none" /\ Refuse(o, "Invalid")
       \/ /\ Request[o].defect = "none" /\ ~Fits(len)
          /\ Refuse(o, EnqueueError(len))
       \/ /\ Request[o].defect = "none" /\ Fits(len)
          /\ enqueue(Frame("PUBLISH", 0, o, len, "PublishQos0"))
          /\ UNCHANGED <<op, closing>>

\* The checks after the identifier is reserved, in the order of the code.
Refusal(o) ==
    IF Request[o].defect = "encode" THEN "Invalid"
    ELSE IF Request[o].kind = "PublishQos1" /\ outgoing_qos1_count >= peer_receive_maximum
    THEN "QueueFull"
    ELSE IF ~PendingRoom THEN "QueueFull"
    ELSE IF ~Fits(Request[o].len) THEN EnqueueError(Request[o].len) ELSE "none"

\* begin_publish with QoS 1, begin_subscribe and begin_unsubscribe.
begin_acknowledged(o) ==
    \/ /\ Request[o].defect = "validate" \/ Free = {}
       /\ Refuse(o, IF Request[o].defect = "validate" THEN "Invalid" ELSE "QueueFull")
       /\ UNCHANGED next_packet_id
    \/ /\ Request[o].defect # "validate"
       /\ \E id \in PacketIds :
            /\ reserve_packet_id(id)
            /\ next_packet_id' = NextId(id)
            /\ \/ Refusal(o) # "none" /\ Refuse(o, Refusal(o))
               \/ LET class == AckClassOf(Request[o].kind) IN
                  /\ Refusal(o) = "none"
                  /\ pending_acks' = With(id, NewPending(o, class))
                  /\ enqueue(Frame(RequestType(class), id, o, Request[o].len, "None"))
                  /\ UNCHANGED <<op, closing>>

begin_disconnect(o) ==
    /\ UNCHANGED ackVars
    /\ \/ ~Fits(ShortLen) /\ Refuse(o, EnqueueError(ShortLen))
       \/ /\ Fits(ShortLen)
          /\ closing' = TRUE
          /\ enqueue(Frame("DISCONNECT", 0, o, ShortLen, "Disconnect"))
          /\ UNCHANGED op

Begin(o) == CASE Request[o].kind = "PublishQos0" -> begin_publish_qos0(o)
              [] Request[o].kind = "Disconnect" -> begin_disconnect(o)
              [] OTHER -> begin_acknowledged(o)
ProcessUnchanged ==
    UNCHANGED <<handle, seen, events, endVars, pingVars, inbound, read, brokerVars>>
\* Mutant: commands are accepted behind a DISCONNECT.
process_command_closing(o) == Begin(o) /\ ProcessUnchanged
process_command(o) ==
    /\ \/ closing /\ Refuse(o, "ClientClosed") /\ UNCHANGED next_packet_id
       \/ ~closing /\ Begin(o)
    /\ ProcessUnchanged

\* Every handle is gone: the driver says DISCONNECT by itself, and goes on.
begin_abandoned_disconnect(next) ==
    \/ /\ ~closing /\ ~Fits(ShortLen)
       /\ Return(EnqueueError(ShortLen), << >>, op)
    \/ /\ closing \/ Fits(ShortLen)
       /\ next
       /\ closing' = TRUE
       /\ IF closing THEN UNCHANGED queueVars
          ELSE enqueue(Frame("DISCONNECT", 0, NoOp, ShortLen, "AbandonedDisconnect"))
       /\ UNCHANGED <<callerVars, commands, events, endVars, ackVars, pingVars, inbound,
                      read, brokerVars>>

----------------------------------------------------------------------------
(* drain_commands.                                                          *)

OnlyPc == UNCHANGED <<callerVars, commands, events, endVars, ackVars, queueVars, closing,
                      pingVars, inbound, read, brokerVars>>
ToDrain == pc' = "drain" /\ budget' = command_capacity /\ UNCHANGED pass
ToFlush(p) == pc' = "flush" /\ pass' = p /\ budget' = 0
Goto(next) == pc' = next /\ UNCHANGED loopVars

Start == pc = "start" /\ ToDrain /\ OnlyPc

DrainCommand == /\ pc = "drain" /\ budget > 0 /\ commands # << >>
                /\ process_command(Head(commands))
                /\ commands' = Tail(commands)
                /\ budget' = budget - 1
                /\ UNCHANGED <<pc, pass>>

DrainEnd == /\ pc = "drain"
            /\ budget = 0 \/ (commands = << >> /\ handle)
            /\ ToFlush(1)
            /\ OnlyPc

DrainDisconnected == /\ pc = "drain" /\ budget > 0 /\ commands = << >> /\ ~handle
                     /\ begin_abandoned_disconnect(ToFlush(1))

----------------------------------------------------------------------------
(* flush_outbound: flush what the transport accepted before, write, flush.   *)

\* What the broker makes of a frame whose last byte was written; a broker that
\* said DISCONNECT or closed ignores it.
Deliver(frame) ==
    /\ unacked' = IF broker = "up" /\ frame.type \in {"PUBLISH", "SUBSCRIBE", "UNSUBSCRIBE"}
                                   /\ frame.id # 0
                  THEN unacked \cup {[type |-> frame.type, id |-> frame.id, op |-> frame.op]}
                  ELSE unacked
    /\ pings_owed' = IF broker = "up" /\ frame.type = "PINGREQ" THEN pings_owed + 1
                     ELSE pings_owed
    /\ pubacked' = IF broker = "up" /\ frame.type = "PUBACK" THEN pubacked \cup {frame.id}
                   ELSE pubacked
    /\ UNCHANGED <<broker, acked, published>>

FlushAccepted == /\ pc \in {"flush", "sync"} /\ needs_flush
                 /\ needs_flush' = FALSE
                 /\ Goto(IF pc = "flush" THEN "flushed" ELSE "synced")
                 /\ UNCHANGED <<callerVars, commands, events, endVars, ackVars, outbound, started,
                                outbound_bytes, flush_actions, closing, pingVars, inbound,
                                read, brokerVars>>

\* WouldBlock or Interrupted: flush_outbound returns without writing more.
FlushBlocked == /\ "block" \in Hazards
                /\ pc \in {"flush", "sync"} /\ needs_flush
                /\ Goto("check")
                /\ OnlyPc

FlushNotNeeded == /\ pc \in {"flush", "sync"} /\ ~needs_flush
                  /\ Goto(IF pc = "flush" THEN "write" ELSE "check")
                  /\ OnlyPc

\* The actions that answer their operation once the frame is flushed.
\* Mutant: a publication with QoS 0 is not answered.
Answers_disconnect == {"Disconnect"}
Answers == {"PublishQos0", "Disconnect"}

\* One turn of the loop over flush_actions.
complete_written ==
    /\ pc \in {"flushed", "synced"} /\ flush_actions # << >>
    /\ LET frame == Head(flush_actions) IN
       /\ flush_actions' = Tail(flush_actions)
       /\ outbound_bytes' = IF frame.len > outbound_bytes THEN 0 ELSE outbound_bytes - frame.len
       /\ op' = IF frame.action \in Answers THEN Send(frame.op, "Ok") ELSE op
       /\ ping_queued' = (ping_queued /\ frame.action # "PingReq")
       /\ ping_age' = IF frame.action = "PingReq" THEN 0 ELSE ping_age
       /\ events' = IF frame.action = "Disconnect" THEN TrySendEvent(Event("ClientInitiated", 0))
                    ELSE events
       /\ terminal_event_sent' = (terminal_event_sent \/ frame.action = "Disconnect")
    /\ UNCHANGED <<handle, seen, commands, pc, loopVars, exit, ackVars, outbound, started,
                   needs_flush, closing, idle, inbound, read, brokerVars>>

FlushEnd == /\ pc \in {"flushed", "synced"} /\ flush_actions = << >>
            /\ Goto(IF pc = "flushed" THEN "write" ELSE "check")
            /\ OnlyPc

Writes == pc = "write" /\ outbound # << >>
WriteUnchanged == UNCHANGED <<callerVars, commands, events, pc, loopVars, endVars, ackVars,
                              outbound_bytes, closing, ping_queued, ping_age, inbound, read>>

\* The transport takes a proper prefix of what is left of the front frame.
WritePart == /\ "block" \in Hazards
             /\ Writes /\ Head(outbound).len > 1
             /\ started' = TRUE
             /\ needs_flush' = TRUE
             /\ idle' = 0
             /\ WriteUnchanged
             /\ UNCHANGED <<outbound, flush_actions, brokerVars>>

\* The transport takes the rest of the front frame.
WriteFrame == /\ Writes
              /\ outbound' = Tail(outbound)
              /\ flush_actions' = Append(flush_actions, Head(outbound))
              /\ started' = FALSE
              /\ needs_flush' = TRUE
              /\ idle' = 0
              /\ Deliver(Head(outbound))
              /\ WriteUnchanged

WriteEnd == pc = "write" /\ outbound = << >> /\ Goto("sync") /\ OnlyPc
WriteBlocked == "block" \in Hazards /\ Writes /\ Goto("sync") /\ OnlyPc

\* A write that fails, takes nothing or claims too much, or a flush that fails.
TransportFails == /\ "break" \in Hazards
                  /\ Writes \/ (pc \in {"flush", "sync"} /\ needs_flush)
                  /\ Return("Io", << >>, op)

----------------------------------------------------------------------------
(* The two tests for the end of a graceful disconnect.                      *)

Finished == closing /\ outbound = << >> /\ ~needs_flush
Finish == pc = "check" /\ Finished /\ Return("Ok", << >>, op)
Continue == /\ pc = "check" /\ ~Finished
            /\ Goto(IF pass = 1 THEN "read" ELSE "wait")
            /\ OnlyPc

----------------------------------------------------------------------------
(* read_available: some prefix of what the broker sent is in the transport.  *)

\* The first n packets can be read: the end of the stream comes last.
Readable(n) == \A i \in 1..n : inbound[i].type # "EOF"

ReadSome == /\ pc = "read"
            /\ \E n \in 0..Len(inbound) : Readable(n) /\ read' = n
            /\ Goto("dispatch")
            /\ UNCHANGED <<callerVars, commands, events, endVars, ackVars, queueVars, closing,
                           pingVars, inbound, brokerVars>>

\* Ok(0): the driver returns before it decodes what it has just read.
ReadEof == /\ pc = "read" /\ ~Readable(Len(inbound))
           /\ Return("ConnectionClosed", <<Event("TransportClosed", 0)>>, op)

ReadFails == "break" \in Hazards /\ pc = "read" /\ Return("Io", << >>, op)

----------------------------------------------------------------------------
(* decode_and_dispatch, one packet at a time.                               *)

Dispatches(types) == /\ pc = "dispatch"
                     /\ read > 0
                     /\ Head(inbound).type \in types
DispatchNext == /\ inbound' = Tail(inbound)
                /\ read' = read - 1
                /\ UNCHANGED <<handle, seen, commands, pc, loopVars, endVars, next_packet_id,
                               closing, ping_queued, idle, brokerVars>>

\* The acknowledgement is queued before the message is handed to the application.
dispatch_publish ==
    /\ Dispatches({"PUBLISH"})
    /\ LET id == Head(inbound).id
           qos1 == MessageQos[id] = 1 IN
       \/ /\ qos1 /\ ~Fits(PubAckLen)
          /\ Return(EnqueueError(PubAckLen), << >>, op)
       \/ /\ ~qos1 \/ Fits(PubAckLen)
          /\ EventOverflow
          /\ Return(IF handle THEN "QueueFull" ELSE "ClientClosed", << >>, op)
       \/ /\ ~qos1 \/ Fits(PubAckLen)
          /\ ~EventOverflow
          /\ IF qos1 THEN enqueue(Frame("PUBACK", id, NoOp, PubAckLen, "None"))
             ELSE UNCHANGED queueVars
          /\ events' = TrySendEvent(Event("Publish", id))
          /\ UNCHANGED <<op, pending_acks, ping_age>>
          /\ DispatchNext

\* The result an acknowledgement completes its operation with.
AckResult(code) == CASE code = "ok" -> "Ok" [] code = "rejected" -> "AckRejected"
                     [] code = "malformed" -> "Malformed"

Complete(id, code) == Send(pending_acks[id].op, AckResult(code))
Takes(id, class) == id \in DOMAIN pending_acks /\ pending_acks[id].ack = class

\* dispatch_puback, dispatch_suback and dispatch_unsuback over take_pending_ack.
dispatch_ack(class) ==
    /\ Dispatches({AckType(class)})
    /\ LET id == Head(inbound).id
           code == Head(inbound).code
           live == Takes(id, class) /\ pending_acks[id].kind # "Tombstone"
           known == IF live THEN Complete(id, code) ELSE op IN
       \/ /\ id \in DOMAIN pending_acks /\ ~Takes(id, class)
          /\ Return("UnexpectedPacket", << >>, op)
       \/ /\ live /\ class = "Subscribe" /\ code = "malformed"
          /\ Return("MalformedPacket", << >>, known)
       \/ /\ id \in DOMAIN pending_acks => Takes(id, class)
          /\ ~(live /\ class = "Subscribe" /\ code = "malformed")
          /\ op' = known
          /\ pending_acks' = Without(id)
          /\ UNCHANGED <<events, queueVars, ping_age>>
          /\ DispatchNext

\* Mutant: the answer is ignored.
AfterPingResp_ignored == ping_age
AfterPingResp == NoPing
dispatch_pingresp == /\ Dispatches({"PINGRESP"})
                     /\ ping_age' = AfterPingResp
                     /\ UNCHANGED <<op, pending_acks, events, queueVars>>
                     /\ DispatchNext

dispatch_disconnect == /\ Dispatches({"DISCONNECT"})
                       /\ Return("ServerDisconnected", <<Event("Server", 0)>>, op)

\* A packet type only clients send, or one that does not decode.
dispatch_invalid == /\ Dispatches({"OTHER", "BAD"})
                    /\ Return(IF Head(inbound).type = "OTHER" THEN "UnexpectedPacket"
                              ELSE "MalformedPacket", << >>, op)

DispatchEnd == pc = "dispatch" /\ read = 0 /\ Goto("expire") /\ OnlyPc

----------------------------------------------------------------------------
(* expire_operations, maintain_keep_alive and the wait for a command.        *)

\* A cancelled or expired waiter leaves a tombstone that keeps the identifier.
Live(id) == pending_acks[id].kind # "Tombstone"
\* Mutant: a deadline that is reached makes a tombstone and answers nobody.
Expired_silently(id) == FALSE
Expired(id) == Live(id) /\ pending_acks[id].ttl = 0
Expires(id) == Live(id) /\ (is_closed(pending_acks[id].op) \/ pending_acks[id].ttl = 0)

\* Mutant: the entry is removed instead.
AfterExpiry_removed == Restrict(pending_acks, {id \in DOMAIN pending_acks : ~Expires(id)})
AfterExpiry == [id \in DOMAIN pending_acks |->
                  IF Expires(id) THEN Tombstone(pending_acks[id]) ELSE pending_acks[id]]

expire_operations ==
    /\ pc = "expire"
    /\ pending_acks' = AfterExpiry
    /\ op' = [o \in Ops |->
                IF op[o] = "waiting" /\ \E id \in DOMAIN pending_acks :
                                          Expired(id) /\ pending_acks[id].op = o
                THEN "Timeout" ELSE op[o]]
    /\ Goto("keepalive")
    /\ UNCHANGED <<handle, seen, commands, events, endVars, next_packet_id, queueVars, closing,
                   pingVars, inbound, read, brokerVars>>

PingDue == KeepAlive > 0 /\ ping_age = NoPing /\ ~ping_queued /\ idle >= keep_alive_interval
PingUnanswered == KeepAlive > 0 /\ ping_age >= KeepAlive

maintain_keep_alive ==
    /\ pc = "keepalive"
    /\ \/ /\ PingUnanswered
          /\ Return("KeepAliveTimeout", << >>, op)
       \/ /\ PingDue /\ ~Fits(ShortLen)
          /\ Return(EnqueueError(ShortLen), << >>, op)
       \/ /\ PingDue /\ Fits(ShortLen)
          /\ enqueue(Frame("PINGREQ", 0, NoOp, ShortLen, "PingReq"))
          /\ ping_queued' = TRUE
          /\ ToFlush(2)
          /\ UNCHANGED <<callerVars, commands, events, endVars, ackVars, closing, ping_age, idle,
                         inbound, read, brokerVars>>
       \/ ~PingUnanswered /\ ~PingDue /\ ToFlush(2) /\ OnlyPc

\* next_wait_duration is zero.
NoWait == \/ \E id \in DOMAIN pending_acks : pending_acks[id].ttl = 0
          \/ PingUnanswered
          \/ PingDue

WaitCommand == /\ pc = "wait" /\ commands # << >>
               /\ process_command(Head(commands))
               /\ commands' = Tail(commands)
               /\ ToDrain

WaitTimeout == pc = "wait" /\ commands = << >> /\ handle /\ ToDrain /\ OnlyPc

WaitDisconnected == /\ pc = "wait" /\ commands = << >> /\ ~handle
                    /\ begin_abandoned_disconnect(ToDrain)

----------------------------------------------------------------------------
(* Time.  A pass of the loop takes less than a tick: it never blocks.        *)

Tick == /\ pc \in {"start", "wait"}
        /\ pending_acks' = [id \in DOMAIN pending_acks |->
                              [pending_acks[id] EXCEPT !.ttl = IF @ > 0 THEN @ - 1 ELSE 0]]
        /\ ping_age' = IF ping_age \in 0..KeepAlive - 1 THEN ping_age + 1 ELSE ping_age
        /\ idle' = IF KeepAlive > 0 /\ idle < keep_alive_interval THEN idle + 1 ELSE idle
        /\ UNCHANGED <<callerVars, commands, events, pc, loopVars, endVars, next_packet_id,
                       queueVars, closing, ping_queued, inbound, read, brokerVars>>

----------------------------------------------------------------------------
(* The broker and the stream from it.  The driver learns of the broker only   *)
(* when it reads, so a step of the broker anywhere else in the loop is the    *)
(* same as that step at the next read or wait.                                *)

BrokerRuns == pc \in {"read", "wait"}
BrokerUp == broker = "up" /\ BrokerRuns
BrokerSends(packet) ==
    /\ inbound' = Append(inbound, packet)
    /\ UNCHANGED <<callerVars, commands, events, pc, loopVars, endVars, ackVars, queueVars, closing,
                   pingVars, read>>

AckTypeFor(type) == CASE type = "PUBLISH" -> "PUBACK" [] type = "SUBSCRIBE" -> "SUBACK"
                      [] type = "UNSUBSCRIBE" -> "UNSUBACK"

BrokerAck == /\ BrokerUp
             /\ \E request \in unacked, code \in {"ok", "rejected"} :
                  /\ code = "ok" \/ "reject" \in Hazards
                  /\ BrokerSends(Packet(AckTypeFor(request.type), request.id, request.op, code))
                  /\ unacked' = unacked \ {request}
                  /\ acked' = IF code = "ok" THEN acked \cup {request.op} ELSE acked
             /\ UNCHANGED <<broker, pings_owed, published, pubacked>>

BrokerPingResp == /\ BrokerUp /\ pings_owed > 0
                  /\ BrokerSends(Packet("PINGRESP", 0, NoOp, "ok"))
                  /\ pings_owed' = pings_owed - 1
                  /\ UNCHANGED <<broker, unacked, acked, published, pubacked>>

\* The broker keeps to the Receive Maximum of the CONNECT packet.
UnackedMessages == {m \in 1..published : MessageQos[m] = 1} \ pubacked
BrokerPublish == /\ BrokerUp /\ published < Len(MessageQos)
                 /\ \/ MessageQos[published + 1] = 0
                    \/ Cardinality(UnackedMessages) < event_capacity
                 /\ BrokerSends(Packet("PUBLISH", published + 1, NoOp, "ok"))
                 /\ published' = published + 1
                 /\ UNCHANGED <<broker, unacked, acked, pings_owed, pubacked>>

BrokerDisconnect == /\ "leave" \in Hazards
                    /\ BrokerUp
                    /\ BrokerSends(Packet("DISCONNECT", 0, NoOp, "ok"))
                    /\ broker' = "leaving"
                    /\ UNCHANGED <<unacked, acked, pings_owed, published, pubacked>>

BrokerClose == /\ "leave" \in Hazards
               /\ BrokerRuns /\ broker # "closed"
               /\ BrokerSends(Packet("EOF", 0, NoOp, "ok"))
               /\ broker' = "closed"
               /\ UNCHANGED <<unacked, acked, pings_owed, published, pubacked>>

\* A broker that breaks the protocol: acknowledgements nobody waits for, reason
\* codes that do not fit the request, packets a client must not receive.
BrokerStrays ==
    /\ BrokerUp /\ Len(inbound) < StrayBound
    /\ \/ \E class \in AckClasses, id \in PacketIds, code \in Codes :
            /\ class = "Publish" => code # "malformed"
            /\ BrokerSends(Packet(AckType(class), id, NoOp, code))
       \/ \E type \in {"OTHER", "BAD"} : BrokerSends(Packet(type, 0, NoOp, "ok"))
    /\ UNCHANGED brokerVars

----------------------------------------------------------------------------
Init == /\ op = [o \in Ops |-> "idle"] /\ handle = TRUE /\ seen = << >>
        /\ commands = << >> /\ events = << >>
        /\ pc = "start" /\ pass = 1 /\ budget = 0
        /\ exit = "running" /\ terminal_event_sent = FALSE
        /\ next_packet_id = 1 /\ pending_acks = NoPending
        /\ outbound = << >> /\ started = FALSE /\ outbound_bytes = 0
        /\ flush_actions = << >> /\ needs_flush = FALSE /\ closing = FALSE
        /\ ping_queued = FALSE /\ ping_age = NoPing /\ idle = 0
        /\ inbound = << >> /\ read = 0
        /\ broker = "up" /\ unacked = {} /\ acked = {} /\ pings_owed = 0
        /\ published = 0 /\ pubacked = {}

Application == \/ \E o \in Ops : \/ publish(o) \/ subscribe(o) \/ unsubscribe(o)
                                 \/ disconnect(o) \/ Cancel(o)
               \/ next_event \/ DropHandle \/ DropDriver

\* What the driver does by itself; the other steps of its task are the transport's.
Driver == \/ Start \/ DrainCommand \/ DrainEnd \/ DrainDisconnected
          \/ FlushNotNeeded \/ complete_written \/ FlushEnd \/ WriteEnd
          \/ Finish \/ Continue \/ ReadSome \/ ReadEof
          \/ dispatch_publish \/ (\E class \in AckClasses : dispatch_ack(class))
          \/ dispatch_pingresp \/ dispatch_disconnect \/ dispatch_invalid \/ DispatchEnd
          \/ expire_operations \/ maintain_keep_alive
          \/ WaitCommand \/ WaitTimeout \/ WaitDisconnected
TransportAccepts == FlushAccepted \/ WriteFrame
TransportRefuses == FlushBlocked \/ WritePart \/ WriteBlocked
TransportBreaks == TransportFails \/ ReadFails

Broker == BrokerAck \/ BrokerPingResp \/ BrokerPublish \/ BrokerDisconnect \/ BrokerClose

\* Everything has ended; the handle may be kept for ever.
Ended == pc = "done" /\ UNCHANGED vars

Next == \/ Application \/ Driver \/ TransportAccepts \/ TransportRefuses \/ TransportBreaks
        \/ Broker \/ Tick \/ Ended
FaultyNext == Next \/ BrokerStrays

Spec == Init /\ [][Next]_vars
FaultySpec == Init /\ [][FaultyNext]_vars

\* The executor polls the driver whenever it is ready (a transport that refuses
\* lets the loop go on), and time passes.
Task == Driver \/ TransportAccepts \/ TransportRefuses \/ TransportBreaks
DeadlineSpec == Spec /\ WF_vars(Task) /\ SF_vars(Tick)

\* A transport that is offered bytes for ever takes some, and flushes.
TransportFlows == SF_vars(FlushAccepted) /\ SF_vars(WriteFrame)

----------------------------------------------------------------------------
(* Properties.                                                              *)

Requests == [type : {"PUBLISH", "SUBSCRIBE", "UNSUBSCRIBE"}, id : Nat, op : Ops \cup {NoOp}]

\* Every variable has its type: identifiers stay in 1..MaxPacketId (0 is never
\* handed out), the byte counter never underflows, timers stay within their bounds.
TypeOK ==
    /\ op \in [Ops -> OpStates] /\ handle \in BOOLEAN /\ seen \in Seq(Nat)
    /\ commands \in Seq(Ops) /\ events \in Seq(EventSet)
    /\ pc \in PCs /\ pass \in {1, 2} /\ budget \in 0..command_capacity
    /\ exit \in Exits /\ terminal_event_sent \in BOOLEAN
    /\ next_packet_id \in PacketIds
    /\ DOMAIN pending_acks \subseteq PacketIds
    /\ \A id \in DOMAIN pending_acks : pending_acks[id] \in PendingAcks
    /\ outbound \in Seq(Frames) /\ started \in BOOLEAN /\ outbound_bytes \in Nat
    /\ flush_actions \in Seq(Frames) /\ needs_flush \in BOOLEAN /\ closing \in BOOLEAN
    /\ ping_queued \in BOOLEAN /\ ping_age \in NoPing..KeepAlive /\ idle \in Nat
    /\ inbound \in Seq(Packets) /\ read \in 0..Len(inbound)
    /\ broker \in {"up", "leaving", "closed"} /\ unacked \subseteq Requests
    /\ acked \subseteq Ops \cup {NoOp} /\ pings_owed \in Nat /\ published \in 0..Len(MessageQos)
    /\ pubacked \subseteq Nat

\* The acknowledged request a frame, or an acknowledgement, belongs to.
IsRequest(frame) == frame.type \in {"PUBLISH", "SUBSCRIBE", "UNSUBSCRIBE"} /\ frame.id # 0
IsAck(packet) == packet.type \in {"PUBACK", "SUBACK", "UNSUBACK"}
Owned(id, type, o) == /\ id \in DOMAIN pending_acks
                      /\ pending_acks[id].op = o
                      /\ \/ RequestType(pending_acks[id].ack) = type
                         \/ AckType(pending_acks[id].ack) = type

\* A packet identifier on its way (in a queued frame, at the broker, or in an
\* acknowledgement that is not yet dispatched) belongs to the operation its table
\* entry was made for, also when that operation has timed out or was cancelled
\* (DESIGN.md: identifiers are not reused while their operation is in flight).
PacketIdsOwned ==
    /\ \A i \in DOMAIN outbound :
         IsRequest(outbound[i]) => Owned(outbound[i].id, outbound[i].type, outbound[i].op)
    /\ \A request \in unacked : Owned(request.id, request.type, request.op)
    /\ \A i \in DOMAIN inbound :
         IsAck(inbound[i]) => Owned(inbound[i].id, inbound[i].type, inbound[i].op)

\* An operation that waits for an acknowledgement succeeds only if the broker
\* acknowledged that very operation with success: no late acknowledgement
\* completes another operation (dispatch_ack, tombstones).
OkMeansAcked == \A o \in Ops : op[o] = "Ok" /\ Request[o].kind \in
                    {"PublishQos1", "Subscribe", "Unsubscribe"} => o \in acked

\* A waiting future has its sender in the command channel, the table or a frame,
\* and none waits once the driver has ended: nobody is left without an answer.
NoLeakedWaiter == \A o \in Ops : op[o] = "waiting" =>
                    pc # "done" /\ o \in Queued \cup Held

Bytes(frames) == SumFunction([i \in DOMAIN frames |-> frames[i].len])

\* outbound_bytes is the size of the frames queued or written and not flushed, and
\* respects max_outbound_queue_bytes: the saturating subtraction never saturates.
OutboundBytesExact == /\ outbound_bytes = Bytes(outbound) + Bytes(flush_actions)
                      /\ outbound_bytes <= max_outbound_queue_bytes

\* A broker that keeps to the protocol is never accused of breaking it.
ConformingBrokerAccepted == exit \notin {"UnexpectedPacket", "MalformedPacket"}

PublishedIn(packets) == SelectSeq(packets, LAMBDA packet : packet.type \in {"PUBLISH", "Publish"})
Ids(packets) == [i \in DOMAIN packets |-> packets[i].id]

\* Messages reach the application in the order the broker sent them, none lost or
\* repeated, whatever else the driver waits for (DESIGN.md: preserve every inbound
\* packet while another operation awaits an acknowledgement); and also when the driver
\* has ended, a message the broker got a PUBACK for was handed to the application: the
\* driver ends with an error rather than acknowledge a message it has no room for.
NoMessageLost ==
    LET got == seen \o Ids(PublishedIn(events)) IN
    handle => /\ pc # "done" => got \o Ids(PublishedIn(inbound)) = [m \in 1..published |-> m]
              /\ \A m \in pubacked : \E i \in DOMAIN got : got[i] = m

\* The driver gives up on the keep-alive only while a PINGREQ of its own is
\* unanswered, or the answer has not been read (error.rs: "broker did not answer
\* PINGREQ").
KeepAliveJustified ==
    [][exit' = "KeepAliveTimeout" /\ exit # exit' =>
         \/ pings_owed > 0
         \/ \E i \in DOMAIN inbound : inbound[i].type = "PINGRESP"]_vars

\* Nothing the application asked for is queued behind a DISCONNECT, and once
\* disconnect has succeeded every message of QoS 0 queued before it was flushed.
DisconnectIsLast ==
    /\ \A i, j \in DOMAIN outbound : i < j /\ outbound[i].type = "DISCONNECT" =>
         outbound[j].type \in {"PUBACK", "PINGREQ"}
    /\ (\E o \in Ops : Request[o].kind = "Disconnect" /\ op[o] = "Ok") =>
         Senders(outbound) \cup Senders(flush_actions) = {}

\* A message read from the transport while an operation awaited its acknowledgement
\* was dispatched, also when the stream then ended (read_available; DESIGN.md:
\* preserve every inbound packet while another operation awaits an acknowledgement).
ReadMessagesDispatched ==
    [][exit' = "ConnectionClosed" /\ exit # exit'
         /\ (\E o \in Ops : op[o] = "waiting" /\ op'[o] = "ConnectionClosed") =>
           PublishedIn(inbound) = << >>]_vars

\* Without a command the driver waits before it polls the transport again
\* (options.rs: poll_interval is how often it polls when there is no command).
PollsAtInterval == [][pc # "wait" /\ pc' = "wait" => ~NoWait']_vars

\* An operation that waits for an acknowledgement resolves within its deadline
\* even if the transport never takes a byte again and the broker is silent.
AcknowledgedResolve ==
    \A o \in Ops : Request[o].kind \in {"PublishQos1", "Subscribe", "Unsubscribe"} =>
        (op[o] = "waiting" ~> op[o] # "waiting")

\* Every operation resolves if the transport makes progress, QoS 0 publications
\* and disconnect included, which have no deadline; and when every handle is gone the
\* driver says DISCONNECT and ends.
OperationsResolve ==
    TransportFlows => /\ \A o \in Ops : op[o] = "waiting" ~> op[o] # "waiting"
                      /\ ~handle ~> pc = "done"

----------------------------------------------------------------------------
(* The driver implements the calls of its handle.                           *)

Acknowledged == {o \in Ops : Request[o].kind \in {"PublishQos1", "Subscribe", "Unsubscribe"}}
Api == INSTANCE Operations WITH Ops <- Ops, Acknowledged <- Acknowledged, op <- op, acked <- acked

\* Whatever happens inside the driver, callers see no more than Operations allows:
\* every answer is the first and the last of its call, no dropped future is answered
\* and no acknowledged operation succeeds without its own acknowledgement.
CallsAnsweredOnce == Api!Spec
=============================================================================
