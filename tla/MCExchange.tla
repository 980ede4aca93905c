----------------------------- MODULE MCExchange -----------------------------
(* Instances of Exchange for TLC. *)
EXTENDS Exchange

\* Strings over an alphabet, up to a length.
Strings(alphabet, n) == UNION {[1..k -> alphabet] : k \in 0..n}
Repeat(byte, n) == << >> \o [i \in 1..n |-> byte]

----------------------------------------------------------------------------
(* Calls of connect.                                                        *)

DefaultOptions ==
    [client_id |-> <<99>>, keep_alive_secs |-> 300, clean_start |-> TRUE, username |-> NoBytes,
     password |-> NoBytes, connect_timeout |-> 2, ack_timeout |-> 2, poll_interval |-> 1,
     max_packet_size |-> 70000, max_incoming_messages |-> 1, command_capacity |-> 1,
     event_capacity |-> 70000, max_outbound_queue_bytes |-> 100000]
Unnamed == [DefaultOptions EXCEPT !.client_id = << >>, !.username = <<117>>, !.password = <<0, 255>>,
                                  !.event_capacity = 258]
Resuming == [DefaultOptions EXCEPT !.clean_start = FALSE, !.max_packet_size = 16,
                                   !.max_outbound_queue_bytes = 20]
BadOptions == {[DefaultOptions EXCEPT !.connect_timeout = 0], [DefaultOptions EXCEPT !.ack_timeout = 99],
               [DefaultOptions EXCEPT !.max_packet_size = 1], [DefaultOptions EXCEPT !.event_capacity = 0],
               [DefaultOptions EXCEPT !.client_id = <<99, 0>>]}

\* "h:1", "[::]:1"; no port, a bare IPv6 address, no closing bracket, no host, a port too
\* large.
GoodAddress == <<104, 58, 49>>
Addresses == {GoodAddress, <<91, 58, 58, 93, 58, 49>>, <<104>>, <<58, 58, 49>>, <<91, 58, 49>>,
              <<58, 49>>, <<104, 58, 54, 53, 53, 51, 54>>}

Call(route, o) == [route |-> route, options |-> o, addr |-> GoodAddress, tls_timeout |-> 1]
MCCalls == {Call("with", o) : o \in {DefaultOptions, Unnamed, Resuming} \cup BadOptions}
           \cup {Call("tcp", Resuming), Call("blocking", Resuming)}
           \cup {[Call("tls", Resuming) EXCEPT !.addr = a] : a \in Addresses}
           \cup {[Call("tls", Resuming) EXCEPT !.tls_timeout = 0]}

----------------------------------------------------------------------------
(* Answers to CONNECT.                                                      *)

Plain == [present |-> FALSE, assigned |-> FALSE, keep_alive |-> NoId, max_packet |-> NoId,
          receive_max |-> NoId, qos |-> NoId, retain |-> NoId, wildcard |-> NoId, shared |-> NoId,
          behind |-> 0]
Accepts(bytes, means) == [kind |-> "accepts", bytes |-> bytes, means |-> means]
Limits == <<32, 14, 0, 0, 11, 33, 0, 2, 39, 0, 0, 0, 20, 19, 0, 30>>
Good == {Accepts(<<32, 3, 0, 0, 0>>, Plain),
         Accepts(<<32, 3, 0, 0, 0, 208, 0>>, [Plain EXCEPT !.behind = 2]),
         Accepts(<<32, 3, 1, 0, 0>>, [Plain EXCEPT !.present = TRUE]),
         Accepts(<<32, 7, 0, 0, 4, 18, 0, 1, 122>>, [Plain EXCEPT !.assigned = TRUE]),
         Accepts(<<32, 7, 0, 0, 4, 37, 0, 36, 0>>, [Plain EXCEPT !.qos = 0, !.retain = 0]),
         Accepts(<<32, 9, 0, 0, 6, 42, 0, 40, 1, 37, 1>>, [Plain EXCEPT !.shared = 0, !.wildcard = 1,
                                                                         !.retain = 1]),
         Accepts(<<32, 9, 0, 0, 6, 40, 0, 21, 0, 1, 97>>, [Plain EXCEPT !.wildcard = 0]),
         Accepts(Limits, [Plain EXCEPT !.keep_alive = 30, !.max_packet = 20, !.receive_max = 2]),
         Accepts(<<32, 17, 0, 0, 14, 38, 0, 1, 97, 0, 1, 98, 38, 0, 1, 97, 0, 1, 98>>, Plain)}

\* Refused; a reserved flag; a code that does not exist; no property length; a byte behind
\* the properties; a property twice, at zero, out of range, of another packet, unknown,
\* beyond the section; another packet; a length of five bytes; no such type.
Bad == {<<32, 3, 0, 135, 0>>, <<32, 3, 2, 0, 0>>, <<32, 3, 0, 1, 0>>, <<32, 2, 0, 0>>,
        <<32, 4, 0, 0, 0, 0>>, <<32, 9, 0, 0, 6, 33, 0, 2, 33, 0, 2>>, <<32, 6, 0, 0, 3, 33, 0, 0>>,
        <<32, 8, 0, 0, 5, 39, 0, 0, 0, 0>>, <<32, 5, 0, 0, 2, 36, 2>>, <<32, 7, 0, 0, 4, 8, 0, 1, 97>>,
        <<32, 5, 0, 0, 2, 99, 0>>, <<32, 6, 0, 0, 2, 33, 0, 2>>, <<208, 0>>,
        <<32, 255, 255, 255, 255, 1>>, <<0, 0>>, <<33, 3, 0, 0, 0>>}
Altered(bytes, values) == {[bytes EXCEPT ![i] = v] : i \in DOMAIN bytes, v \in values}
MCAnswers == Good
             \cup {[kind |-> "refuses", bytes |-> b] : b \in Bad}
             \cup {[kind |-> "altered", bytes |-> b] : b \in Altered(Limits, {0, 36, 255})}

----------------------------------------------------------------------------
(* Calls on the connection.                                                 *)

Letters == {97, Slash, Plus, Hash}
Publish == [kind |-> "publish", topic |-> <<97>>, payload |-> <<1, 2>>, qos |-> 1, retain |-> FALSE,
            id |-> 300, properties |-> << >>, trace |-> NoTrace, response_topic |-> <<114>>,
            correlation |-> <<5>>]
ARequest == [Publish EXCEPT !.kind = "request"]
With(props) == [Publish EXCEPT !.properties = props]
Correlated(n) == With(push(<< >>, PropertyId.CorrelationData, Repeat(7, n)))

Publishes ==
    {[Publish EXCEPT !.qos = q, !.retain = b] : q \in {0, 1}, b \in BOOLEAN}
    \cup {[Publish EXCEPT !.topic = t] : t \in {<< >>, <<97, Slash, Hash>>, <<Plus>>, <<97, 0>>, Repeat(97, 65536)}}
    \cup {[Publish EXCEPT !.payload = Repeat(7, n)] : n \in {0, 13, 14, 121, 122, 16377, 16378}}
    \cup {Correlated(n) : n \in {0, 124, 125, 65535, 65536}}

User(k, v) == <<38, "StringPair", <<k, v>>>>
PropertySets ==
    {<<User(<<97>>, <<98>>), User(<<97>>, <<98>>), User(<< >>, << >>)>>,
     <<<<8, "Str", <<114>>>>, <<9, "Binary", <<0, 255>>>>, User(<<97>>, <<98>>)>>,
     <<<<8, "Str", <<114>>>>, <<8, "Str", <<115>>>>>>, <<<<8, "Str", <<Hash>>>>>>,
     <<<<8, "Binary", <<114>>>>>>, <<<<33, "U16", 2>>>>, <<User(<<97, 0>>, <<98>>)>>}

Id(n, b) == Repeat(b, n)
Root == new_root(Id(16, 10), Id(8, 255))
Hop == [child(Root, Id(8, 1)) EXCEPT !.tracestate = <<97, 61, 98>>]
Traces == {[Publish EXCEPT !.trace = Root], [Publish EXCEPT !.trace = Hop],
           [With(inject(Root, << >>)) EXCEPT !.trace = Hop], [With(inject(Hop, << >>)) EXCEPT !.trace = Root],
           [With(<<User(TRACEPARENT_KEY, <<48, 48>>)>>) EXCEPT !.trace = Hop]}

RequestCalls ==
    {ARequest, [ARequest EXCEPT !.qos = 0], [ARequest EXCEPT !.correlation = Repeat(7, 65536)],
     [ARequest EXCEPT !.topic = <<Plus>>], [ARequest EXCEPT !.payload = Repeat(7, 13)]}
    \cup {[ARequest EXCEPT !.response_topic = t] : t \in {<< >>, <<Hash>>, Share \o <<97, Slash, 97>>, <<97, 0>>}}
    \cup {[ARequest EXCEPT !.properties = p] : p \in PropertySets}

Filters == Strings(Letters, 3) \cup {Share \o s : s \in Strings({97, Slash, Hash}, 3)}
           \cup {<<36, 115>> \o <<Slash, Hash>>, <<97, 0>>, Share \o <<Plus, Slash, 97>>}
Filtered == {[Publish EXCEPT !.kind = k, !.topic = f] : k \in {"subscribe", "unsubscribe"}, f \in Filters}

MCRequests == Publishes \cup {With(p) : p \in PropertySets} \cup Traces \cup RequestCalls \cup Filtered

----------------------------------------------------------------------------
(* Packets of the broker.                                                   *)

Sent(kind, type, flags, bytes) ==
    [kind |-> kind, header |-> FixedHeader(type, flags, Len(bytes)), body |-> bytes, requested |-> <<1, 0>>]
Means(packet, means) == packet @@ [means |-> means]
Message(id, q, r, d, props, payload) ==
    [type |-> "Publish", topic |-> <<97>>, packet_id |-> id, payload |-> payload, qos |-> q,
     retain |-> r, dup |-> d, properties |-> props]

\* Payload format, expiry, content type, response topic, correlation, two subscription
\* identifiers, a user property.
RichBody == <<0, 1, 97, 32, 1, 1, 2, 0, 0, 0, 9, 3, 0, 1, 99, 8, 0, 1, 114, 9, 0, 2, 5, 0, 11, 1,
              11, 128, 1, 38, 0, 1, 107, 0, 1, 118, 7>>
RichProperties == <<<<8, "Str", <<114>>>>, <<9, "Binary", <<5, 0>>>>, User(<<107>>, <<118>>)>>

GoodPackets ==
    {Means(Sent("good", "Publish", 0, <<0, 1, 97, 0, 1, 2>>), Message(NoId, 0, FALSE, FALSE, << >>, <<1, 2>>)),
     Means(Sent("good", "Publish", 11, <<0, 1, 97, 1, 44, 0>>), Message(300, 1, TRUE, TRUE, << >>, << >>)),
     Means(Sent("good", "Publish", 0, RichBody), Message(NoId, 0, FALSE, FALSE, RichProperties, <<7>>)),
     Means(Sent("good", "PingResp", 0, << >>), [type |-> "PingResp"])}
    \cup {Means(Sent("good", "PubAck", 0, <<1, 44>> \o rest[1]),
                [type |-> "PubAck", packet_id |-> 300, reason_code |-> rest[2]]) :
             rest \in {<<<< >>, 0>>, <<<<16>>, 16>>, <<<<16, 0>>, 16>>, <<<<151, 4, 31, 0, 1, 120>>, 151>>}}
    \cup {Means(Sent("good", "SubAck", 0, <<1, 44>> \o rest[1]),
                [type |-> "SubAck", packet_id |-> 300, reason_codes |-> rest[2]]) :
             rest \in {<<<<0, 1>>, <<1>>>>, <<<<0, 1, 0>>, <<1, 0>>>>, <<<<4, 31, 0, 1, 120, 1, 135>>, <<1, 135>>>>}}
    \cup {Means(Sent("good", "UnsubAck", 0, <<1, 44, 0, 17>>),
                [type |-> "UnsubAck", packet_id |-> 300, reason_codes |-> <<17>>])}
    \cup {Means(Sent("good", "Disconnect", 0, rest[1]), [type |-> "Disconnect", reason_code |-> rest[2]]) :
             rest \in {<<<< >>, 0>>, <<<<139>>, 139>>, <<<<157, 4, 28, 0, 1, 115>>, 157>>}}

\* A topic that is empty or has a wildcard or NUL; identifier zero; QoS 2; two response
\* topics, a topic alias, subscription identifier zero, a format above 1, properties beyond
\* the end; acknowledgements without code, with an unknown one, with bytes behind them; a
\* body where none may be; packets a client never gets.
BadPackets ==
    {Sent("bad", "Publish", 0, b) : b \in {<<0, 0, 0>>, <<0, 1, Hash, 0>>, <<0, 1, 0, 0>>,
        <<0, 1, 97, 8, 8, 0, 1, 97, 8, 0, 1, 97>>, <<0, 1, 97, 3, 35, 0, 1>>, <<0, 1, 97, 2, 11, 0>>,
        <<0, 1, 97, 2, 1, 2>>, <<0, 1, 97, 2, 1>>, <<0, 9, 97>>, <<0, 1, 200, 0>>}}
    \cup {Sent("bad", "Publish", f, <<0, 1, 97, 0, 0, 0>>) : f \in {2, 4, 8, 6}}
    \cup {Sent("bad", "PubAck", 0, b) : b \in {<<0, 0>>, <<1>>, <<1, 44, 1>>, <<1, 44, 0, 0, 0>>}}
    \cup {Sent("bad", "SubAck", 0, b) : b \in {<<1, 44, 0>>, <<0, 0, 0, 1>>, <<1, 44, 0, 3>>}}
    \cup {Sent("bad", "UnsubAck", 0, <<1, 44, 0, 1>>), Sent("bad", "PingResp", 0, <<0>>),
          Sent("bad", "Disconnect", 0, <<1>>), Sent("bad", "PubRec", 0, <<1, 44>>), Sent("bad", "SubAck", 1, <<1, 44, 0, 1>>)}

\* One byte replaced, the end cut off, a byte added.
Variants(bytes) == Altered(bytes, {0, 1, 35, 200}) \cup {SubSeq(bytes, 1, n) : n \in 0..Len(bytes)}
                   \cup {Append(bytes, v) : v \in {0, 1}}
MCInbound == GoodPackets \cup BadPackets
             \cup UNION {{Sent("altered", p.header.packet_type, p.header.flags, b) : b \in Variants(p.body)} :
                            p \in GoodPackets}

MCLengths == {0, 127, 128, 16383, 16384, 2097151, 2097152, VARIABLE_INT_MAX, VARIABLE_INT_MAX + 1}
=============================================================================
