-------------------------- MODULE RequestResponse --------------------------
(***************************************************************************)
(* The request/response layer of mqtt-wasi: AsyncMqttClient::request with   *)
(* its lifecycle registration (src/src/request_response.rs), the part of    *)
(* MqttConnection behind the request-response feature                       *)
(* (src/src/async_client.rs), and the other operations of the handle that   *)
(* share the packet identifiers, the queue and the subscriptions with it.   *)
(*                                                                          *)
(* The driver is the record self, with the fields of MqttConnection that    *)
(* the layer reads or changes; a method is an operator from one value of    *)
(* self to the next, and a method that returns a Result is an operator to   *)
(* such a value with an error.  The loop of run_inner keeps the order of    *)
(* its calls; AsyncDriver has it in finer steps, with keep-alive, the end   *)
(* of the handle and cancellation of the operations that are not requests.  *)
(* A queue is bounded by its frames here; AsyncDriver counts bytes.         *)
(***************************************************************************)
EXTENDS Integers, Sequences, FiniteSets, Functions, SequencesExt

CONSTANTS
    Requests,               \* calls of request
    Ask,                    \* their correlation data, response topic, QoS and defect
    Ops,                    \* calls of publish (QoS 1), unsubscribe and disconnect
    OpKind,                 \* which of the three each is
    OpTopic,                \* the filter an unsubscribe names
    None,                   \* no identifier, no correlation data
    MaxPacketId,            \* 65535 in the code (u16::MAX)
    max_pending_operations, \* also the capacity of the command channel and of active
    event_capacity,
    peer_receive_maximum,
    QueueBound,             \* frames max_outbound_queue_bytes has room for
    AckTimeout,             \* ack_timeout in ticks
    ReplyQos,               \* the QoS the responder publishes replies with
    ReplyLimit,             \* replies the responder sends to one request
    Hazards                 \* what may go wrong in this instance

AllHazards == {"drop",      \* the application drops the future of a request
               "block",     \* the transport would block a write or takes part of a frame
               "stall",     \* the transport would block a flush
               "reject",    \* the broker rejects, or grants what was not asked for
               "misroute",  \* a reply comes on another topic
               "leave"}     \* the broker closes the stream

OpKinds == {"Publish", "Unsubscribe", "Disconnect"}
Defects == {"none", "options", "payload", "validate", "encode", "large"}
Correlations == {Ask[r].correlation_data : r \in Requests}
Topics == {Ask[r].response_topic : r \in Requests}
PacketIds == 1..MaxPacketId

ASSUME ConstantsAssumption ==
    /\ \A r \in Requests : Ask[r].qos \in {0, 1} /\ Ask[r].timeout \in Nat \ {0}
                           /\ Ask[r].defect \in Defects
    /\ \A o \in Ops : OpKind[o] \in OpKinds
    /\ Requests \cap Ops = {} /\ None \notin Correlations
    /\ {MaxPacketId, max_pending_operations, event_capacity, peer_receive_maximum, QueueBound,
        AckTimeout, ReplyLimit} \subseteq Nat \ {0}
    /\ ReplyQos \in {0, 1} /\ Hazards \subseteq AllHazards

VARIABLES
    future,      \* of every call: "idle", "waiting", "dropped" or "done"
    commands,    \* the bounded command channel
    pc,          \* where run_inner is
    self,        \* MqttConnection
    inbound,     \* packets the broker sent and the driver has not dispatched
    subscribed,  \* the filters the broker has subscriptions for
    unacked,     \* client packets the broker has to acknowledge
    replies,     \* replies sent to each request the responder has
    open         \* the stream from the broker has not ended

brokerVars == <<inbound, subscribed, unacked, replies, open>>
vars == <<future, commands, pc, self, brokerVars>>

Empty == [x \in {} |-> None]
With(f, x, y) == [z \in DOMAIN f \cup {x} |-> IF z = x THEN y ELSE f[z]]
Without(f, xs) == Restrict(f, DOMAIN f \ xs)

\* A method that returns Result<()>, with the state it leaves.
Ok(s) == [self |-> s, error |-> "none"]
Err(s, error) == [self |-> s, error |-> error]

----------------------------------------------------------------------------
(* RequestLifecycle: the registrations the handles and the driver share.    *)

\* Mutant: a finished request keeps its registration.
finish_marker(s, c) == [s EXCEPT !.cancelled = @ \ {c}]
finish(s, c) == [s EXCEPT !.active = @ \ {c}, !.cancelled = @ \ {c}]

register_error(s, c) == IF Cardinality(s.active) >= max_pending_operations THEN "QueueFull"
                        ELSE IF c \in s.active THEN "InvalidOptions" ELSE "none"
\* Mutant: the drop of a future is not recorded.
cancel_ignored(s, c) == s
cancel(s, c) == IF c \in s.active THEN [s EXCEPT !.cancelled = @ \cup {c}] ELSE s

\* oneshot::Sender::send, and the drop of a sender that sent nothing.
Send(s, call, value) ==
    [s EXCEPT !.result[call] = IF future[call] = "waiting" /\ @ = "none" THEN value ELSE @]
DropSender(s, call) == Send(s, call, "ClientClosed")
is_closed(call) == future[call] = "dropped"

----------------------------------------------------------------------------
(* The packet identifiers, pending_acks and the queue, as in AsyncDriver.   *)

AckClass(kind) == CASE kind \in {"Publish", "RequestPublish"} -> "Publish"
                    [] kind = "ResponseSubscribe" -> "Subscribe"
                    [] kind = "Unsubscribe" -> "Unsubscribe"

Distance(s, id) == IF id >= s.next_packet_id THEN id - s.next_packet_id
                   ELSE id - s.next_packet_id + MaxPacketId
Free(s) == PacketIds \ DOMAIN s.pending_acks
reserve_packet_id(s) == CHOOSE id \in Free(s) :
                          \A other \in Free(s) : Distance(s, id) <= Distance(s, other)
\* Mutant: the search starts at the same place every time.
Reserved_again(s) == s
Reserved(s) == [s EXCEPT !.next_packet_id =
                  IF reserve_packet_id(s) = MaxPacketId THEN 1 ELSE reserve_packet_id(s) + 1]

outgoing_qos1_count(s) ==
    Cardinality({id \in DOMAIN s.pending_acks : s.pending_acks[id].ack = "Publish"})
PendingRoom(s) == Cardinality(DOMAIN s.pending_acks) < max_pending_operations
insert_pending_ack(s, id, kind, who) ==
    [s EXCEPT !.pending_acks = With(@, id, [kind |-> kind, ack |-> AckClass(kind), who |-> who,
                                            ttl |-> AckTimeout])]
Tombstone(s, id) == [s EXCEPT !.pending_acks[id].kind = "Tombstone"]

\* A frame of a request carries its correlation data while it is in the queue; what
\* is the content on the wire.
Frame(type, id, what, correlation) ==
    [type |-> type, id |-> id, what |-> what, request_correlation |-> correlation]
QueueRoom(s) == Len(s.outbound) + Len(s.flush_actions) < QueueBound
enqueue(s, frame) == [s EXCEPT !.outbound = Append(@, frame)]

----------------------------------------------------------------------------
(* Requests in the driver.                                                  *)

\* A frame of the request is in the queue and no byte of it was written.
Unsent(s, c) == \E i \in DOMAIN s.outbound : /\ s.outbound[i].request_correlation = c
                                             /\ i > 1 \/ ~s.started
WithoutUnsent(s, c) ==
    LET other(frame) == frame.request_correlation # c IN
    IF ~Unsent(s, c) THEN s.outbound
    ELSE IF s.started THEN <<Head(s.outbound)>> \o SelectSeq(Tail(s.outbound), other)
    ELSE SelectSeq(s.outbound, other)

\* Mutant: the identifier is free again.
Bury_freed(s, id) == [s EXCEPT !.pending_acks = Without(@, {id})]
\* Whatever waits under the identifier is replaced, and its sender dropped.
Bury(s, id) ==
    LET ack == s.pending_acks[id]
        buried == [s EXCEPT !.pending_acks[id].kind = "Tombstone",
                            !.pending_acks[id].ack = "Publish"] IN
    IF ack.kind \in {"Publish", "Unsubscribe"} THEN DropSender(buried, ack.who) ELSE buried

\* A frame that has not been begun is taken out of the queue with its identifier; the
\* identifier of one that was stays in the table as a tombstone.
remove_request(s, c) ==
    LET id == s.pending_requests[c].publish_packet_id
        rest == [finish(s, c) EXCEPT !.pending_requests = Without(@, {c}),
                                     !.outbound = WithoutUnsent(s, c)] IN
    IF id = None \/ id \notin DOMAIN s.pending_acks THEN rest
    ELSE IF Unsent(s, c) THEN [rest EXCEPT !.pending_acks = Without(@, {id})]
    ELSE Bury(rest, id)

fail_request(s, c, error) ==
    IF c \in DOMAIN s.pending_requests
    THEN Send(remove_request(s, c), s.pending_requests[c].request, error) ELSE s

\* Mutant: only the requests that were published fail.
RequestsFor_published(s, topic) ==
    {c \in DOMAIN s.pending_requests : /\ s.pending_requests[c].response_topic = topic
                                       /\ s.pending_requests[c].published}
RequestsFor(s, topic) ==
    {c \in DOMAIN s.pending_requests : s.pending_requests[c].response_topic = topic}
fail_requests_for_topic(s, topic, error) ==
    FoldSet(LAMBDA c, acc : fail_request(acc, c, error), s, RequestsFor(s, topic))

publish_request(s, c) ==
    LET pending == s.pending_requests[c]
        ask == Ask[pending.request]
        acked == ask.qos = 1
        id == IF acked THEN reserve_packet_id(s) ELSE None
        reserved == IF acked THEN Reserved(s) ELSE s
        listed == IF acked THEN insert_pending_ack(reserved, id, "RequestPublish", c)
                  ELSE reserved IN
    IF c \notin DOMAIN s.pending_requests \/ pending.published THEN Ok(s)
    ELSE IF acked /\ outgoing_qos1_count(s) >= peer_receive_maximum THEN Err(s, "QueueFull")
    ELSE IF acked /\ Free(s) = {} THEN Err(s, "QueueFull")
    ELSE IF ask.defect = "encode" THEN Err(reserved, "Invalid")
    ELSE IF acked /\ ~PendingRoom(s) THEN Err(reserved, "QueueFull")
    ELSE IF ask.defect = "large" THEN Err(reserved, "PacketTooLarge")
    ELSE IF ~QueueRoom(s) THEN Err(reserved, "QueueFull")
    ELSE Ok([enqueue(listed, Frame("PUBLISH", id, pending.request, c))
               EXCEPT !.pending_requests[c].published = TRUE,
                      !.pending_requests[c].publish_packet_id = id])

subscribe_for_responses(s, topic) ==
    LET id == reserve_packet_id(s)
        listed == insert_pending_ack(Reserved(s), id, "ResponseSubscribe", topic) IN
    IF Free(s) = {} THEN Err(s, "QueueFull")
    ELSE IF ~PendingRoom(s) \/ ~QueueRoom(s) THEN Err(Reserved(s), "QueueFull")
    ELSE Ok([enqueue(listed, Frame("SUBSCRIBE", id, topic, None))
               EXCEPT !.response_subscriptions = With(@, topic, "Subscribing")])

\* The waiting requests of a topic, in the order a HashMap happens to have them.
Waiting(s, topic) == {c \in RequestsFor(s, topic) : ~s.pending_requests[c].published}
publish_waiting_requests(s, order) ==
    FoldLeft(LAMBDA acc, c : LET out == publish_request(acc, c) IN
                             IF out.error = "none" THEN out.self
                             ELSE fail_request(out.self, c, out.error), s, order)

NewRequest(r) == [request |-> r, response_topic |-> Ask[r].response_topic, ttl |-> Ask[r].timeout,
                  publish_packet_id |-> None, published |-> FALSE]

begin_request(s, r) ==
    LET c == Ask[r].correlation_data
        topic == Ask[r].response_topic
        refuse(error) == Ok(Send(finish(s, c), r, error))
        added == [s EXCEPT !.pending_requests = With(@, c, NewRequest(r))] IN
    IF c \in s.cancelled THEN Ok(DropSender(finish(s, c), r))
    ELSE IF Ask[r].defect = "validate" THEN refuse("Invalid")
    ELSE IF Cardinality(DOMAIN s.pending_requests) >= max_pending_operations
    THEN refuse("QueueFull")
    ELSE IF c \in DOMAIN s.pending_requests THEN refuse("Malformed")
    ELSE IF topic \in DOMAIN s.response_subscriptions
    THEN IF s.response_subscriptions[topic] = "Ready" THEN publish_request(added, c) ELSE Ok(added)
    ELSE IF Cardinality(DOMAIN s.response_subscriptions) >= max_pending_operations
    THEN Err(added, "QueueFull")
    ELSE subscribe_for_responses(added, topic)

----------------------------------------------------------------------------
(* The other commands (AsyncDriver has the checks left out here).           *)

\* begin_publish with QoS 1 and begin_unsubscribe.
begin_acknowledged(s, o) ==
    LET kind == OpKind[o]
        id == reserve_packet_id(s) IN
    IF Free(s) = {} THEN Send(s, o, "QueueFull")
    ELSE IF \/ kind = "Publish" /\ outgoing_qos1_count(s) >= peer_receive_maximum
            \/ ~PendingRoom(s) \/ ~QueueRoom(s)
    THEN Send(Reserved(s), o, "QueueFull")
    ELSE enqueue(insert_pending_ack(Reserved(s), id, kind, o),
                 Frame(IF kind = "Publish" THEN "PUBLISH" ELSE "UNSUBSCRIBE", id, o, None))

begin_disconnect(s, o) ==
    IF ~QueueRoom(s) THEN Send(s, o, "QueueFull")
    ELSE [enqueue(s, Frame("DISCONNECT", None, o, None)) EXCEPT !.closing = TRUE]

process_command(s, call) ==
    IF s.closing THEN Send(s, call, "ClientClosed")
    ELSE IF call \in Requests
    THEN LET out == begin_request(s, call) IN
         IF out.error = "none" THEN out.self
         ELSE fail_request(out.self, Ask[call].correlation_data, out.error)
    ELSE IF OpKind[call] = "Disconnect" THEN begin_disconnect(s, call)
    ELSE begin_acknowledged(s, call)

----------------------------------------------------------------------------
(* The application.  Its tasks and the driver share a thread: they run where  *)
(* the driver awaits a command, and after it has ended.                       *)

ApplicationRuns == pc \in {"start", "wait", "done"}

\* What start_request and send_command refuse a call with.
SendError == IF pc = "done" THEN "ClientClosed"
             ELSE IF Len(commands) >= max_pending_operations THEN "QueueFull" ELSE "none"
RequestError(r) ==
    IF Ask[r].defect = "options" THEN "InvalidOptions"
    ELSE IF Ask[r].defect = "payload" THEN "PacketTooLarge"
    ELSE IF register_error(self, Ask[r].correlation_data) # "none"
    THEN register_error(self, Ask[r].correlation_data) ELSE SendError

Refused(call, error) == /\ error # "none"
                        /\ future' = [future EXCEPT ![call] = "done"]
                        /\ self' = [self EXCEPT !.result[call] = error]
                        /\ UNCHANGED commands
Accepted(call) == /\ future' = [future EXCEPT ![call] = "waiting"]
                  /\ commands' = Append(commands, call)

\* A registration is kept while the command, or the request, is with the driver.
request(r) ==
    /\ ApplicationRuns /\ future[r] = "idle"
    /\ \/ Refused(r, RequestError(r))
       \/ /\ RequestError(r) = "none"
          /\ Accepted(r)
          /\ self' = [self EXCEPT !.active = @ \cup {Ask[r].correlation_data}]
    /\ UNCHANGED <<pc, brokerVars>>

\* publish with QoS 1, unsubscribe and disconnect.
call(o) == /\ ApplicationRuns /\ future[o] = "idle"
           /\ \/ Refused(o, SendError)
              \/ SendError = "none" /\ Accepted(o) /\ UNCHANGED self
           /\ UNCHANGED <<pc, brokerVars>>

\* The future of a call is polled, and of a request the registration is finished.
receive_result(c) ==
    /\ ApplicationRuns /\ future[c] = "waiting" /\ self.result[c] # "none"
    /\ future' = [future EXCEPT ![c] = "done"]
    /\ self' = IF c \in Requests THEN finish(self, Ask[c].correlation_data) ELSE self
    /\ UNCHANGED <<commands, pc, brokerVars>>

\* The future of a call is dropped, answered or not (Drop of RequestCancellation).
DropFuture(c) ==
    /\ "drop" \in Hazards
    /\ ApplicationRuns /\ future[c] = "waiting"
    /\ future' = [future EXCEPT ![c] = "dropped"]
    /\ self' = IF c \in Requests THEN cancel(self, Ask[c].correlation_data) ELSE self
    /\ UNCHANGED <<commands, pc, brokerVars>>

next_event == /\ ApplicationRuns /\ self.events > 0
              /\ self' = [self EXCEPT !.events = @ - 1]
              /\ UNCHANGED <<future, commands, pc, brokerVars>>

----------------------------------------------------------------------------
(* The driver.                                                              *)

Senders(frames) == {frames[i].what : i \in {j \in DOMAIN frames : frames[j].type = "DISCONNECT"}}
Held(s) == {s.pending_acks[id].who : id \in {i \in DOMAIN s.pending_acks :
                                              s.pending_acks[i].kind \in {"Publish", "Unsubscribe"}}}

\* Mutant: the requests that wait for a response are forgotten.
FailedBy_acks(s) == Held(s) \cup Senders(s.outbound) \cup Senders(s.flush_actions)
FailedBy(s) == Held(s) \cup Senders(s.outbound) \cup Senders(s.flush_actions)
                 \cup {s.pending_requests[c].request : c \in DOMAIN s.pending_requests}
fail_pending(s) ==
    LET failed == FoldSet(LAMBDA c, acc : Send(acc, c, "ConnectionClosed"), s, FailedBy(s)) IN
    [FoldSet(LAMBDA c, acc : finish(acc, c), failed, DOMAIN s.pending_requests) EXCEPT
       !.pending_acks = Empty, !.outbound = << >>, !.started = FALSE,
       !.flush_actions = << >>, !.pending_requests = Empty]

\* run after run_inner has returned: the commands in the channel are dropped with it.
Return(s, exit) ==
    /\ pc' = "done"
    /\ self' = [FoldLeft(DropSender, fail_pending(s), commands) EXCEPT !.exit = exit]
    /\ commands' = << >>
    /\ UNCHANGED future

\* drain_cancellations, with the cancellations in the order a HashSet has them.
Cancellations(s) == s.cancelled \cap DOMAIN s.pending_requests
drain_cancellations(s, order) ==
    FoldLeft(LAMBDA acc, c : DropSender(remove_request(acc, c), acc.pending_requests[c].request),
             s, order)

\* The channel holds no more commands than drain_commands takes.
drain_commands(s, queue) == FoldLeft(process_command, s, queue)

\* From the top of the loop, or from a wait that a command or the timer ends.
Wake ==
    /\ pc \in {"start", "wait"}
    /\ LET taken == IF pc = "wait" /\ commands # << >> THEN 1 ELSE 0
           woken == drain_commands(self, SubSeq(commands, 1, taken)) IN
       \E order \in SetToSeqs(Cancellations(woken)) :
         self' = drain_commands(drain_cancellations(woken, order),
                                SubSeq(commands, taken + 1, Len(commands)))
    /\ commands' = << >>
    /\ pc' = "flush1"
    /\ UNCHANGED <<future, brokerVars>>

\* The broker gets a frame with its last byte, and the responder a request with it.
Acked(frames) == {[type |-> frames[i].type, id |-> frames[i].id, what |-> frames[i].what] :
                    i \in {j \in DOMAIN frames : frames[j].id # None}}
Asked(frames) == {frames[i].what : i \in {j \in DOMAIN frames :
                    frames[j].type = "PUBLISH" /\ frames[j].what \in Requests}}
Written(frames) ==
    /\ unacked' = unacked \cup Acked(frames)
    /\ replies' = [r \in DOMAIN replies \cup Asked(frames) |->
                     IF r \in DOMAIN replies THEN replies[r] ELSE 0]
    /\ UNCHANGED <<inbound, subscribed, open>>

complete_written(s, frame) ==
    IF frame.type # "DISCONNECT" THEN s
    ELSE [Send(s, frame.what, "Ok") EXCEPT !.events = IF @ < event_capacity THEN @ + 1 ELSE @]
flush_accepted(s) ==
    [FoldLeft(complete_written, s, s.flush_actions) EXCEPT !.flush_actions = << >>,
                                                           !.needs_flush = FALSE]
\* k frames are written, the next one is begun if part, and flush succeeds if ok.
WriteFrames(s, k, part, ok) ==
    LET wrote == [s EXCEPT !.outbound = SubSeq(@, k + 1, Len(@)),
                           !.flush_actions = @ \o SubSeq(s.outbound, 1, k),
                           !.started = part \/ (k = 0 /\ @),
                           !.needs_flush = @ \/ k > 0 \/ part] IN
    IF wrote.needs_flush /\ ok THEN flush_accepted(wrote) ELSE wrote

\* The check that follows flush_outbound in both places.  After the first one
\* read_available may meet the end of the stream, before what it read is dispatched.
Check(s) ==
    LET finished == s.closing /\ s.outbound = << >> /\ ~s.needs_flush IN
    \/ finished /\ Return(s, "Ok")
    \/ ~finished /\ pc = "flush1" /\ ~open /\ Return(s, "ConnectionClosed")
    \/ /\ ~finished
       /\ self' = s
       /\ pc' = IF pc = "flush1" THEN "dispatch" ELSE "wait"
       /\ UNCHANGED <<future, commands>>

flush_outbound ==
    /\ pc \in {"flush1", "flush2"}
    /\ \/ /\ self.needs_flush /\ "stall" \in Hazards
          /\ Check(self) /\ UNCHANGED brokerVars
       \/ LET s == IF self.needs_flush THEN flush_accepted(self) ELSE self IN
          \E k \in 0..Len(s.outbound), part \in BOOLEAN, ok \in BOOLEAN :
            /\ part => k < Len(s.outbound)
            /\ k = Len(s.outbound) \/ "block" \in Hazards
            /\ ok \/ "stall" \in Hazards
            /\ Check(WriteFrames(s, k, part, ok))
            /\ Written(SubSeq(s.outbound, 1, k))

Dispatches(types) == /\ pc = "dispatch" /\ inbound # << >> /\ Head(inbound).type \in types
                     /\ inbound' = Tail(inbound)
                     /\ UNCHANGED <<subscribed, unacked, replies, open>>
Dispatched(s) == self' = s /\ UNCHANGED <<future, commands, pc>>

\* Mutant: the topic of a reply is not compared.
Matches_anywhere(s, packet) == packet.correlation \in DOMAIN s.pending_requests
\* A reply completes the request its correlation data and its topic name.
Matches(s, packet) == /\ packet.correlation \in DOMAIN s.pending_requests
                      /\ s.pending_requests[packet.correlation].response_topic = packet.topic
try_complete_request(s, packet) ==
    LET r == s.pending_requests[packet.correlation].request
        answered == Send(remove_request(s, packet.correlation), r, "Ok") IN
    IF future[r] = "waiting" THEN [answered EXCEPT !.reply[r] = packet] ELSE answered

dispatch_publish ==
    /\ Dispatches({"PUBLISH"})
    /\ LET packet == Head(inbound)
           acked == IF ReplyQos = 1 THEN enqueue(self, Frame("PUBACK", None, None, None))
                    ELSE self IN
       \/ /\ ReplyQos = 1 /\ ~QueueRoom(self)
          /\ Return(self, "QueueFull")
       \/ /\ ReplyQos = 1 => QueueRoom(self)
          /\ Matches(acked, packet)
          /\ Dispatched(try_complete_request(acked, packet))
       \/ /\ ReplyQos = 1 => QueueRoom(self)
          /\ ~Matches(acked, packet)
          /\ IF acked.events >= event_capacity THEN Return(acked, "QueueFull")
             ELSE Dispatched([acked EXCEPT !.events = @ + 1])

\* take_pending_ack: an identifier nobody waits for is ignored, one that waits for
\* another packet ends the connection.
Mistaken(packet, class) == /\ packet.id \in DOMAIN self.pending_acks
                           /\ self.pending_acks[packet.id].ack # class
Taken(packet) == [self EXCEPT !.pending_acks = Without(@, {packet.id})]
Kind(packet) == IF packet.id \in DOMAIN self.pending_acks
                THEN self.pending_acks[packet.id].kind ELSE "Tombstone"

dispatch_puback ==
    /\ Dispatches({"PUBACK"})
    /\ LET packet == Head(inbound)
           who == self.pending_acks[packet.id].who IN
       \/ Mistaken(packet, "Publish") /\ Return(self, "UnexpectedPacket")
       \/ /\ ~Mistaken(packet, "Publish")
          /\ Dispatched(
               IF Kind(packet) = "Publish"
               THEN Send(Taken(packet), who, IF packet.code = "ok" THEN "Ok" ELSE "AckRejected")
               ELSE IF Kind(packet) = "RequestPublish" /\ packet.code # "ok"
               THEN fail_request(Taken(packet), who, "AckRejected")
               ELSE Taken(packet))

\* Mutant: the cache is not told.
Forget_not(s, topic) == s
Forget(s, topic) == [s EXCEPT !.response_subscriptions = Without(@, {topic})]

\* A grant that does not fit the one filter asked for ends the connection.
dispatch_suback ==
    /\ Dispatches({"SUBACK"})
    /\ LET packet == Head(inbound)
           topic == self.pending_acks[packet.id].who
           live == Kind(packet) = "ResponseSubscribe"
           ready == [Taken(packet) EXCEPT
                       !.response_subscriptions = With(@, topic, "Ready")]
           failed(error) == fail_requests_for_topic(Forget(Taken(packet), topic), topic, error) IN
       \/ Mistaken(packet, "Subscribe") /\ Return(self, "UnexpectedPacket")
       \/ ~Mistaken(packet, "Subscribe") /\ ~live /\ Dispatched(Taken(packet))
       \/ /\ ~Mistaken(packet, "Subscribe") /\ live /\ packet.code = "ok"
          /\ \E order \in SetToSeqs(Waiting(ready, topic)) :
               Dispatched(publish_waiting_requests(ready, order))
       \/ /\ ~Mistaken(packet, "Subscribe") /\ live /\ packet.code = "rejected"
          /\ Dispatched(failed("AckRejected"))
       \/ /\ ~Mistaken(packet, "Subscribe") /\ live /\ packet.code = "malformed"
          /\ Return(failed("Malformed"), "MalformedPacket")

\* An unsubscribe of the application takes its filter out of the cache; one whose
\* future was dropped or timed out has forgotten the filter.
dispatch_unsuback ==
    /\ Dispatches({"UNSUBACK"})
    /\ LET packet == Head(inbound)
           o == self.pending_acks[packet.id].who IN
       \/ Mistaken(packet, "Unsubscribe") /\ Return(self, "UnexpectedPacket")
       \/ /\ ~Mistaken(packet, "Unsubscribe")
          /\ Dispatched(
               IF Kind(packet) # "Unsubscribe" THEN Taken(packet)
               ELSE IF packet.code # "ok" THEN Send(Taken(packet), o, "AckRejected")
               ELSE Send(Forget(Taken(packet), OpTopic[o]), o, "Ok"))

----------------------------------------------------------------------------
(* expire_operations: first the acknowledgements, then the responses.  What   *)
(* has not been dispatched by then arrives for the next pass.                 *)

\* An operation that was dropped leaves a tombstone; a request is no such operation.
Buried(s) ==
    [s EXCEPT !.pending_acks =
       [id \in DOMAIN @ |-> IF @[id].kind \in {"Publish", "Unsubscribe"} /\ is_closed(@[id].who)
                            THEN [@[id] EXCEPT !.kind = "Tombstone"] ELSE @[id]]]
ExpiredAcks(s) == {id \in DOMAIN s.pending_acks :
                     s.pending_acks[id].ttl = 0 /\ s.pending_acks[id].kind # "Tombstone"}
ExpireAck(s, id) ==
    LET ack == s.pending_acks[id]
        topic == ack.who IN
    IF id \notin DOMAIN s.pending_acks THEN s
    ELSE CASE ack.kind = "ResponseSubscribe" ->
                fail_requests_for_topic(Forget(Tombstone(s, id), topic), topic, "Timeout")
           [] ack.kind = "RequestPublish" -> fail_request(Tombstone(s, id), ack.who, "Timeout")
           [] ack.kind \in {"Publish", "Unsubscribe"} -> Send(Tombstone(s, id), ack.who, "Timeout")
           [] ack.kind = "Tombstone" -> s

\* Mutant: the deadline of a request is not looked at.
ExpiredRequests_dropped(s) == {c \in DOMAIN s.pending_requests :
                                 is_closed(s.pending_requests[c].request)}
ExpiredRequests(s) == {c \in DOMAIN s.pending_requests :
                         \/ s.pending_requests[c].ttl = 0
                         \/ is_closed(s.pending_requests[c].request)}
\* Send leaves a future that was dropped alone.
ExpireRequest(s, c) == fail_request(s, c, "Timeout")

expire_operations ==
    /\ pc = "dispatch"
    /\ \E acks \in SetToSeqs(ExpiredAcks(Buried(self))) :
         LET s == FoldLeft(ExpireAck, Buried(self), acks) IN
         \E order \in SetToSeqs(ExpiredRequests(s)) : self' = FoldLeft(ExpireRequest, s, order)
    /\ pc' = "flush2"
    /\ UNCHANGED <<future, commands, brokerVars>>

----------------------------------------------------------------------------
(* Time, the broker and the responder.  A pass of the loop takes less than a  *)
(* tick; a step of the broker within it is the same step before the next read.*)

Older(entry) == [entry EXCEPT !.ttl = IF @ > 0 THEN @ - 1 ELSE 0]
Tick == /\ pc = "wait"
        /\ self' = [self EXCEPT !.pending_acks = [id \in DOMAIN @ |-> Older(@[id])],
                                !.pending_requests = [c \in DOMAIN @ |-> Older(@[c])]]
        /\ UNCHANGED <<future, commands, pc, brokerVars>>

BrokerRuns == pc = "wait" /\ open
Packet(type, id, code) == [type |-> type, id |-> id, code |-> code, topic |-> None,
                           correlation |-> None, request |-> None]
BrokerSends(packet) == /\ inbound' = Append(inbound, packet)
                       /\ UNCHANGED <<future, commands, pc, self, open>>

\* A rejected PUBLISH has not reached the responder.
BrokerPubAck == /\ BrokerRuns
                /\ \E packet \in unacked, code \in {"ok", "rejected"} :
                     /\ packet.type = "PUBLISH"
                     /\ code # "ok" => "reject" \in Hazards
                     /\ code # "ok" /\ packet.what \in DOMAIN replies => replies[packet.what] = 0
                     /\ BrokerSends(Packet("PUBACK", packet.id, code))
                     /\ unacked' = unacked \ {packet}
                     /\ replies' = IF code = "ok" THEN replies ELSE Without(replies, {packet.what})
                /\ UNCHANGED subscribed

BrokerSubAck == /\ BrokerRuns
                /\ \E packet \in unacked, code \in {"ok", "rejected", "malformed"} :
                     /\ packet.type = "SUBSCRIBE"
                     /\ code # "ok" => "reject" \in Hazards
                     /\ BrokerSends(Packet("SUBACK", packet.id, code))
                     /\ unacked' = unacked \ {packet}
                     /\ subscribed' = IF code = "ok" THEN subscribed \cup {packet.what}
                                      ELSE subscribed
                /\ UNCHANGED replies

BrokerUnsubAck == /\ BrokerRuns
                  /\ \E packet \in unacked, code \in {"ok", "rejected"} :
                       /\ packet.type = "UNSUBSCRIBE"
                       /\ code # "ok" => "reject" \in Hazards
                       /\ BrokerSends(Packet("UNSUBACK", packet.id, code))
                       /\ unacked' = unacked \ {packet}
                       /\ subscribed' = IF code = "ok" THEN subscribed \ {OpTopic[packet.what]}
                                        ELSE subscribed
                  /\ UNCHANGED replies

\* The responder copies the correlation data; the broker delivers what is subscribed to,
\* None being a topic the application has subscribed to itself.
Reply == /\ BrokerRuns
         /\ \E r \in DOMAIN replies, topic \in subscribed \cup {None} :
              /\ replies[r] < ReplyLimit
              /\ IF topic = None THEN "misroute" \in Hazards ELSE topic = Ask[r].response_topic
              /\ BrokerSends([Packet("PUBLISH", None, "ok") EXCEPT
                                !.topic = topic, !.request = r,
                                !.correlation = Ask[r].correlation_data])
              /\ replies' = [replies EXCEPT ![r] = @ + 1]
         /\ UNCHANGED <<subscribed, unacked>>

BrokerCloses == /\ "leave" \in Hazards /\ BrokerRuns
                /\ open' = FALSE
                /\ UNCHANGED <<future, commands, pc, self, inbound, subscribed, unacked, replies>>

----------------------------------------------------------------------------
Calls == Requests \cup Ops

Init == /\ future = [c \in Calls |-> "idle"]
        /\ commands = << >> /\ pc = "start"
        /\ self = [active |-> {}, cancelled |-> {}, result |-> [c \in Calls |-> "none"],
                   reply |-> [r \in Requests |-> None],
                   pending_acks |-> Empty, next_packet_id |-> 1, pending_requests |-> Empty,
                   response_subscriptions |-> Empty, outbound |-> << >>, started |-> FALSE,
                   flush_actions |-> << >>, needs_flush |-> FALSE, events |-> 0,
                   closing |-> FALSE, exit |-> "running"]
        /\ inbound = << >> /\ subscribed = {} /\ unacked = {} /\ replies = Empty /\ open = TRUE

Application == \/ \E r \in Requests : request(r)
               \/ \E o \in Ops : call(o)
               \/ \E c \in Calls : receive_result(c) \/ DropFuture(c)
               \/ next_event
Driver == \/ Wake \/ flush_outbound
          \/ dispatch_publish \/ dispatch_puback \/ dispatch_suback \/ dispatch_unsuback
          \/ expire_operations
Broker == BrokerPubAck \/ BrokerSubAck \/ BrokerUnsubAck \/ Reply \/ BrokerCloses
Ended == pc = "done" /\ UNCHANGED vars

Next == Application \/ Driver \/ Broker \/ Tick \/ Ended

\* The executor runs the driver, and time passes between its passes.
Spec == Init /\ [][Next]_vars
DeadlineSpec == Spec /\ WF_vars(Driver) /\ SF_vars(Tick)

----------------------------------------------------------------------------
(* Properties.                                                              *)

\* A request that succeeds got a reply to itself on the topic it named, whatever was
\* dropped, timed out or answered before (DESIGN.md: no reply is delivered to a later
\* operation); a message on another topic goes to the application (try_complete_request).
ReplyIsItsOwn == \A r \in Requests : self.result[r] = "Ok" =>
                   /\ self.reply[r].request = r
                   /\ self.reply[r].topic = Ask[r].response_topic

PendingCalls(s) == {s.pending_requests[c].request : c \in DOMAIN s.pending_requests}

\* A future that waits and has no answer has its sender in the channel, in a table or
\* with a frame: nobody is left without an answer, also when the driver has ended.
NoLeakedWaiter ==
    \A c \in Calls : future[c] = "waiting" /\ self.result[c] = "none" =>
        c \in Range(commands) \cup PendingCalls(self) \cup Held(self)
              \cup Senders(self.outbound) \cup Senders(self.flush_actions)

\* While the connection lasts a correlation is registered exactly as long as its
\* request is in the channel or with the driver, and marked exactly when its future was
\* dropped meanwhile: no slot of the bounded registry leaks (RequestLifecycle).
\* It never holds more than max_pending_operations.
RegistrationsExact ==
    LET with == {r \in Requests : r \in Range(commands) \cup PendingCalls(self)} IN
    /\ Cardinality(self.active) <= max_pending_operations
    /\ pc # "done" /\ ~self.closing =>
        /\ self.active = {Ask[r].correlation_data : r \in with}
        /\ self.cancelled = {Ask[r].correlation_data : r \in {q \in with : future[q] = "dropped"}}

Begun == DOMAIN replies \cup IF self.started THEN {Head(self.outbound).what} ELSE {}

\* The transport is offered no request whose future was dropped before its first byte,
\* in the channel, while it waited for the SUBACK or in the queue (drain_cancellations,
\* begin_request; a frame that was begun is finished to keep the framing).
DroppedNotBegun ==
    [][\A r \in Requests : r \in Begun' /\ r \notin Begun => future[r] # "dropped"]_vars

\* A topic the cache calls Ready is one the broker delivers to, unless an unsubscribe of
\* it has not succeeded: requests are not published into silence (dispatch_unsuback).
ReadyMeansSubscribed ==
    \A topic \in DOMAIN self.response_subscriptions :
        self.response_subscriptions[topic] = "Ready" =>
            \/ topic \in subscribed
            \/ \E o \in Ops : OpKind[o] = "Unsubscribe" /\ OpTopic[o] = topic
                             /\ future[o] # "idle" /\ self.result[o] # "Ok"

LiveSubscribes == {self.pending_acks[id].who : id \in {i \in DOMAIN self.pending_acks :
                                                self.pending_acks[i].kind = "ResponseSubscribe"}}

\* A request that is not published yet waits for the SUBACK of a SUBSCRIBE that is in
\* the table: one that can only run into its deadline is never left behind.
UnpublishedAwaitsSubAck ==
    \A c \in DOMAIN self.pending_requests :
        ~self.pending_requests[c].published =>
            self.pending_requests[c].response_topic \in LiveSubscribes

\* The packets that travel under an identifier: queued, at the broker, or acknowledged.
TravelsAs(class) == CASE class = "Publish" -> {"PUBLISH", "PUBACK"}
                      [] class = "Subscribe" -> {"SUBSCRIBE", "SUBACK"}
                      [] class = "Unsubscribe" -> {"UNSUBSCRIBE", "UNSUBACK"}
Travelling == [i \in DOMAIN self.outbound |-> self.outbound[i]] \o SetToSeq(unacked) \o inbound

\* An identifier on its way is in the table, for that kind of packet and for one packet
\* only: it is not reused while its operation is in flight, also when the request was
\* answered, dropped or failed before its acknowledgement (remove_request).  Requests
\* and publications together stay within the Receive Maximum of the broker.
PacketIdsOwned ==
    LET carried == {i \in DOMAIN Travelling : Travelling[i].id # None} IN
    /\ Cardinality({i \in carried : Travelling[i].type \in {"PUBLISH", "PUBACK"}})
           <= peer_receive_maximum
    /\ pc # "done" =>
        /\ \A i \in carried : /\ Travelling[i].id \in DOMAIN self.pending_acks
                              /\ Travelling[i].type \in
                                   TravelsAs(self.pending_acks[Travelling[i].id].ack)
        /\ \A i, j \in carried : Travelling[i].id = Travelling[j].id => i = j

\* Dropping an operation, or a reply to one, never takes the connection to a conforming
\* broker down (DESIGN.md: dropping an individual operation removes its waiter without
\* taking down the connection).
ConnectionSpared == self.exit # "UnexpectedPacket"

\* Every request is answered within its deadline, whether or not the transport takes a
\* byte or the broker and the responder ever send one.
RequestsResolve == \A r \in Requests : future[r] = "waiting" ~>
                       future[r] # "waiting" \/ self.result[r] # "none"
=============================================================================
