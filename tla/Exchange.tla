------------------------------ MODULE Exchange ------------------------------
(***************************************************************************)
(* The packets of an established connection at the level of bytes: what a  *)
(* call of the application puts on the wire with the limits the handshake  *)
(* agreed, and what the client makes of the bytes of an incoming packet.   *)
(* (When the packets go out and come in is the subject of AsyncDriver,     *)
(* RequestResponse and BlockingClient, which take a packet as a whole.)    *)
(***************************************************************************)
EXTENDS Handshake, TraceContext

CONSTANTS
    Requests,   \* calls of the application
    Inbound,    \* packets of the broker: fixed header, body and, unless altered, meaning
    Lengths     \* values of a variable byte integer

VARIABLE exchange
all_vars == <<vars, exchange>>

NoExchange == [kind |-> "none"]

----------------------------------------------------------------------------
(* begin_publish, begin_subscribe, begin_unsubscribe and begin_request up   *)
(* to the outbound queue, which is empty.  A result is the packets queued   *)
(* and an error.                                                            *)

Queued(packets) == [sent |-> packets, error |-> "none"]
Refused(e) == [sent |-> << >>, error |-> e]

\* enqueue_with_action
\* Mutant: the limit of the broker is not looked at.
EnqueueError_late(bytes) == IF Len(bytes) > options.max_outbound_queue_bytes THEN "QueueFull" ELSE "none"
EnqueueError(bytes) == IF Len(bytes) > session.peer_max_packet_size THEN "PacketTooLarge"
                       ELSE IF Len(bytes) > options.max_outbound_queue_bytes THEN "QueueFull"
                       ELSE "none"
Enqueue(encoded) == IF ~IsOk(encoded) THEN Refused(encoded.error)
                    ELSE IF EnqueueError(encoded.val) # "none" THEN Refused(EnqueueError(encoded.val))
                    ELSE Queued(<<encoded.val>>)
Unless(e, result) == IF e = "none" THEN result ELSE Refused(e)

\* The handle refuses a payload that cannot fit before it sends the command.
HandleError(r) == IF Len(r.payload) > session.peer_max_packet_size THEN "PacketTooLarge" ELSE "none"

PublishError(r) ==
    IF HandleError(r) # "none" THEN HandleError(r)
    ELSE IF validate_topic_name(r.topic) # "none" THEN validate_topic_name(r.topic)
    ELSE validate_publish(session.server_capabilities, r.qos, r.retain)
PublishPacket(r, props) ==
    [type |-> "Publish", topic |-> r.topic, packet_id |-> IF r.qos = 1 THEN r.id ELSE NoId,
     payload |-> r.payload, qos |-> r.qos, retain |-> r.retain, dup |-> FALSE, properties |-> props]

\* The application may put a trace context into the properties it publishes with.
Traced(r) == IF r.trace = NoTrace THEN r.properties ELSE inject(r.trace, r.properties)

begin_publish(r) == Unless(PublishError(r), Enqueue(encode_publish(PublishPacket(r, Traced(r)))))

SubscriptionPacket(type, r, filter) ==
    [type |-> type, packet_id |-> r.id, filters |-> <<filter>>, requested |-> <<r.qos>>,
     properties |-> << >>]
begin_subscribe(r) ==
    Unless(validate_subscription_filter(session.server_capabilities, r.topic),
           Enqueue(encode_subscription(SubscriptionPacket("Subscribe", r, r.topic))))
begin_unsubscribe(r) ==
    Unless(validate_topic_filter(r.topic),
           Enqueue(encode_subscription(SubscriptionPacket("Unsubscribe", r, r.topic))))

\* RequestOptions::validate, and the properties AsyncMqttClient::request owns.
ResponseTopicError(topic) ==
    IF topic = << >> \/ Wildcard(topic) \/ IsPrefix(Share, topic) THEN "InvalidOptions" ELSE "none"
\* Mutant: a response topic of the application stays.
RequestProperties_kept(r) ==
    LET own == push(Traced(r), PropertyId.ResponseTopic, r.response_topic) IN
    replace_single(IF Get(Traced(r), PropertyId.ResponseTopic, NoBytes) = NoBytes THEN own ELSE Traced(r),
                   PropertyId.CorrelationData, r.correlation)
RequestProperties(r) ==
    replace_single(replace_single(Traced(r), PropertyId.ResponseTopic, r.response_topic),
                   PropertyId.CorrelationData, r.correlation)

\* The subscription to the response topic comes first; the request is published when it
\* is acknowledged, its packets have left the queue by then.
begin_request(r) ==
    LET subscribed == Enqueue(encode_subscription(
                          [SubscriptionPacket("Subscribe", r, r.response_topic) EXCEPT !.requested = <<1>>]))
        published == Enqueue(encode_publish(PublishPacket([r EXCEPT !.retain = FALSE], RequestProperties(r))))
    IN  Unless(ResponseTopicError(r.response_topic),
        Unless(PublishError([r EXCEPT !.retain = FALSE]),
        IF subscribed.error # "none" THEN subscribed
        ELSE [sent |-> subscribed.sent \o published.sent, error |-> published.error]))

Begin(r) == CASE r.kind = "publish" -> begin_publish(r)
              [] r.kind = "subscribe" -> begin_subscribe(r)
              [] r.kind = "unsubscribe" -> begin_unsubscribe(r)
              [] r.kind = "request" -> begin_request(r)

----------------------------------------------------------------------------
Connecting == Connect /\ UNCHANGED exchange

\* The bound on exchanges: one on each connection that came about without delay.  What is
\* written and read depends on the options and the session, not on how long it took.
Prompt == pc = "ready" /\ Route = "with" /\ clock = 0 /\ answer.kind = "accepts"
          /\ exchange = NoExchange

Submit == /\ Prompt
          /\ \E r \in Requests : exchange' = [kind |-> "submit", request |-> r]
          /\ UNCHANGED vars

Receive == /\ Prompt
           /\ \E packet \in Inbound : exchange' = [kind |-> "receive", packet |-> packet]
           /\ UNCHANGED vars

Measure == /\ Prompt
           /\ \E n \in Lengths : exchange' = [kind |-> "length", length |-> n]
           /\ UNCHANGED vars

ExchangeInit == Init /\ exchange = NoExchange
ExchangeNext == Connecting \/ Submit \/ Receive \/ Measure

\* A call that has timed out returns, the resolver returns, and time passes while a
\* call blocks, however often a signal interrupts it.
ExchangeSpec == ExchangeInit /\ [][ExchangeNext]_all_vars
                /\ WF_all_vars(Client /\ UNCHANGED exchange)
                /\ WF_all_vars(ResolveReturns /\ UNCHANGED exchange)
                /\ SF_all_vars(Tick /\ UNCHANGED exchange)

----------------------------------------------------------------------------
(* Properties.                                                              *)

Submitted == exchange.kind = "submit"
Request == exchange.request
Result == Begin(Request)
IsPublish(bytes) == bytes[1] \div 16 = TypeNumber("Publish")
IsSubscribe(bytes) == bytes[1] \div 16 = TypeNumber("Subscribe")
Decoded(bytes) == Then(decode_fixed_header(bytes), LAMBDA header, p : decode(header, After(bytes, p)))

\* The properties a receiver should find: those of the application and the trace context
\* in order, and for a request one response topic and one correlation, those of the helper.
Meant(r) == IF r.kind = "publish" THEN Traced(r)
            ELSE SelectSeq(Traced(r), LAMBDA e : e[1] \notin {8, 9})
                 \o <<<<8, "Str", r.response_topic>>, <<9, "Binary", r.correlation>>>>

\* The receiver of a traced message continues the trace that was put in last, also when the
\* properties still hold the context of an earlier hop.
SameTrace(got, trace) ==
    /\ got.trace_id = trace.trace_id /\ got.span_id = trace.span_id
    /\ got.trace_flags = trace.trace_flags
    /\ trace.tracestate # NoBytes => got.tracestate = trace.tracestate

\* A message that is put on the wire is the message of the application to whoever decodes
\* it: topic, payload, QoS, retain flag, identifier, every property and the trace, at the
\* lengths where prefixes change and with what a string may not hold refused; a request
\* carries its own response topic and correlation once, also when the application set them.
\* The length the crate computes for a property section is the length it writes.
PublishArrives ==
    Submitted => \A i \in DOMAIN Result.sent :
        IsPublish(Result.sent[i]) =>
            LET got == Decoded(Result.sent[i])
                props == Meant(Request)
            IN  /\ IsOk(got)
                /\ got.val = PublishPacket([Request EXCEPT !.retain = @ /\ Request.kind = "publish"], props)
                /\ Request.trace # NoTrace =>
                       SameTrace(from_properties(got.val.properties), Request.trace)
                /\ encoded_len(props) = Len(encode_inner(props, "None").val)

\* Between two length bytes and the QoS.
FilterOf(bytes) == SubSeq(bytes, 8, Len(bytes) - 1)

\* Nothing goes to the broker that its CONNACK said it does not take: a packet above its
\* maximum size, a QoS it does not support, a retained message, a wildcard or a shared
\* subscription.
BrokerCanTake ==
    Submitted /\ answer.kind = "accepts" => \A i \in DOMAIN Result.sent :
        LET bytes == Result.sent[i]
            m == answer.means
        IN  /\ Len(bytes) <= Offered(m.max_packet, MQTT_MAX_PACKET_SIZE)
            /\ IsPublish(bytes) => /\ QosBits(bytes[1] % 16) <= Offered(m.qos, 1)
                                   /\ Retain(bytes[1] % 16) => m.retain # 0
            /\ IsSubscribe(bytes) => /\ Wildcard(FilterOf(bytes)) => m.wildcard # 0
                                     /\ IsPrefix(Share, FilterOf(bytes)) => m.shared # 0

\* MQTT's rule for wildcards: "#" is last and alone in its level, "+" alone in its.
LegalLevels(s) ==
    \A i \in DOMAIN s :
        s[i] \in {Hash, Plus} => /\ i = 1 \/ s[i - 1] = Slash
                                 /\ i = Len(s) \/ (s[i] = Plus /\ s[i + 1] = Slash)
LegalFilter(s) ==
    /\ s # << >> /\ ~Contains(s, 0)
    /\ IF IsPrefix(Share, s)
       THEN \E i \in (Len(Share) + 2)..(Len(s) - 1) :
              LET name == SubSeq(s, Len(Share) + 1, i - 1) IN
              /\ s[i] = Slash /\ ~Contains(name, Slash) /\ ~Wildcard(name)
              /\ LegalLevels(After(s, i))
       ELSE LegalLevels(s)

\* A filter is called malformed exactly when the rules of MQTT say so.
FiltersJudged ==
    Submitted /\ Request.kind \in {"subscribe", "unsubscribe"} =>
        (Result.error = "MalformedPacket" <=> ~LegalFilter(Request.topic))

Received == exchange.kind = "receive"
Packet == exchange.packet
Read == decode(Packet.header, Packet.body)

Reread(encoded) == Then(encoded, LAMBDA bytes, p : Decoded(bytes))
Again(packet) == CASE packet.type = "Publish" -> Reread(encode_publish(packet))
                   [] packet.type = "PubAck" -> Reread(encode_puback(packet))
                   [] packet.type = "Disconnect" -> Reread(encode_disconnect(packet))
                   [] OTHER -> Ok(packet, 0)

\* A SUBACK that completes a subscribe grants one QoS for each filter, none above the one
\* that was asked for.
GrantedAsAsked(codes, requested) ==
    validate_suback_codes(codes, requested) = "none" =>
        /\ Len(codes) = Len(requested)
        /\ \A i \in DOMAIN codes : codes[i] <= requested[i]

\* A fixed header is read back, with its length, and every part of one is a reason to wait
\* for more, never an error or a shorter packet (the frame reader depends on it).
HeaderReadBack(n) ==
    LET encoded == encode_fixed_header("Publish", 2, n) IN
    IF n > VARIABLE_INT_MAX THEN encoded = Err("PacketTooLarge")
    ELSE /\ decode_fixed_header(encoded.val) = Ok(FixedHeader("Publish", 2, n), 1 + variable_int_len(n))
         /\ \A k \in 0..(Len(encoded.val) - 1) :
              decode_fixed_header(SubSeq(encoded.val, 1, k)) = Err("UnexpectedEnd")

\* A packet in order is understood as what the broker meant, also with properties the crate
\* skips, and one that breaks the standard is refused.  Whatever bytes arrive, what is taken
\* for a packet is one: it could be encoded and would be read as the same packet again,
\* identifiers are not zero, a SUBACK grants what was asked and a fixed header gives the
\* length that was written.
DecodedIsSound ==
    /\ exchange.kind = "length" => HeaderReadBack(exchange.length)
    /\ Received =>
        /\ Packet.kind = "good" => IsOk(Read) /\ Read.val = Packet.means
        /\ Packet.kind = "bad" => ~IsOk(Read)
        /\ IsOk(Read) =>
               /\ IsOk(Again(Read.val)) /\ Again(Read.val).val = Read.val
               /\ Read.val.type \in {"PubAck", "SubAck", "UnsubAck"} => Read.val.packet_id # 0
               /\ Read.val.type = "SubAck" => GrantedAsAsked(Read.val.reason_codes, Packet.requested)
=============================================================================
