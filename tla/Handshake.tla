----------------------------- MODULE Handshake -----------------------------
(***************************************************************************)
(* How a connection comes about: the TCP connection within a deadline      *)
(* (connect_tcp_until of the async client, connect_tcp of the blocking one,*)
(* connect_tcp_with_deadline of TlsTransport) and the MQTT handshake of    *)
(* AsyncMqttClient::connect_with_deadline, which writes CONNECT and reads  *)
(* CONNACK in pieces as large as the transport likes.                      *)
(*                                                                         *)
(* The code between two blocking calls takes no time.  A blocking call     *)
(* returns no later than the timeout set for it; name resolution has none. *)
(***************************************************************************)
EXTENDS Codec

CONSTANTS
    Calls,         \* the calls: route, options, address and TLS connect timeout
    Answers,       \* what the broker may send for a CONNECT
    EndpointBound, \* addresses a name resolves to
    ResolveBound,  \* the longest name resolution
    MaxInstant     \* the last Instant that can be represented

Routes == {"with",       \* AsyncMqttClient::connect_with on a transport
           "tcp",        \* AsyncMqttClient::connect
           "tls",        \* TlsTransport::connect_with_config_and_timeout, then connect_with
           "blocking"}   \* MqttClient::connect up to its connect_with (see BlockingClient)

ASSUME HandshakeAssumption ==
    /\ \A c \in Calls : c.route \in Routes
    /\ EndpointBound \in Nat /\ ResolveBound \in Nat /\ MaxInstant \in Nat

VARIABLES
    arg,         \* the call
    pc,
    clock,
    deadline,
    until,       \* the instant at which the blocking call in progress times out
    endpoints,   \* addresses not tried yet
    last_error,  \* of the addresses tried: none, Refused or TimedOut
    out,         \* bytes of CONNECT not yet written
    said,        \* bytes the broker received
    answer,      \* its answer, NoAnswer before
    incoming,    \* bytes of it not yet read
    header_bytes, body,
    session,     \* what the driver is given
    outcome      \* the error the call returned, "none" before
call_vars == <<arg, clock>>
dial_vars == <<endpoints, last_error>>
io_vars == <<out, said, answer, incoming, header_bytes, body>>
vars == <<arg, pc, clock, deadline, until, endpoints, last_error, out, said, answer, incoming,
          header_bytes, body, session, outcome>>

NoCall == -1
NoAnswer == [kind |-> "none", bytes |-> << >>]
NoSession == [connected |-> FALSE]
MQTT_MAX_PACKET_SIZE == 268435460
U16Max == 65535

Minimum(a, b) == IF a < b THEN a ELSE b
Route == arg.route
options == arg.options

----------------------------------------------------------------------------
(* The results of a step.                                                   *)

Fail(e) == /\ pc' = "failed" /\ outcome' = e /\ until' = NoCall
           /\ UNCHANGED <<deadline, session>>
Goto(p) == pc' = p /\ until' = NoCall /\ UNCHANGED <<deadline, session, outcome>>

\* connect_remaining: an error at the deadline and after it.
\* Mutant: nobody looks at the clock.
InTime_always == TRUE
InTime == clock < deadline

\* Mutant: a call may take the whole connect timeout however late it begins.
CallTimeout_fresh == clock + options.connect_timeout
CallTimeout == deadline

\* ConnectOptions::validate
validate(o) ==
    IF \/ 0 \in {o.connect_timeout, o.ack_timeout, o.poll_interval}
       \/ o.max_packet_size \notin 2..MQTT_MAX_PACKET_SIZE
       \/ 0 \in {o.max_incoming_messages, o.command_capacity, o.event_capacity,
                 o.max_outbound_queue_bytes}
       \/ clock + o.connect_timeout > MaxInstant \/ clock + o.ack_timeout > MaxInstant
    THEN "InvalidOptions" ELSE "none"

----------------------------------------------------------------------------
(* host_from_address (tls.rs).                                              *)

Colon == 58
Opening == 91
Closing == 93
Index(s, c) == SelectInSeq(s, LAMBDA x : x = c)
After(s, i) == SubSeq(s, i + 1, Len(s))

\* str::parse::<u16>: a sign is accepted.
RECURSIVE Number(_)
Number(digits) == IF digits = << >> THEN 0
                  ELSE Minimum(U16Max + 1, 10 * Number(Front(digits)) + Last(digits) - 48)
parses_as_u16(s) ==
    LET digits == IF s # << >> /\ Head(s) = Plus THEN Tail(s) ELSE s IN
    /\ digits # << >> /\ \A i \in DOMAIN digits : digits[i] \in 48..57
    /\ Number(digits) <= U16Max

\* <<host, port>>, or NoHost where a bracket or the port is missing.
NoHost == <<NoBytes, NoBytes>>
\* Mutant: the first colon separates the port.
SplitAddress_first(addr) ==
    LET colon == Index(addr, Colon) IN
    IF colon = 0 THEN NoHost ELSE <<SubSeq(addr, 1, colon - 1), After(addr, colon)>>
SplitAddress(addr) ==
    IF IsPrefix(<<Opening>>, addr)
    THEN LET closing == Index(addr, Closing) IN
         IF closing = 0 \/ ~IsPrefix(<<Colon>>, After(addr, closing)) THEN NoHost
         ELSE <<SubSeq(addr, 2, closing - 1), After(addr, closing + 1)>>
    ELSE LET colon == SelectLastInSeq(addr, LAMBDA x : x = Colon) IN
         IF colon = 0 \/ Contains(SubSeq(addr, 1, colon - 1), Colon) THEN NoHost
         ELSE <<SubSeq(addr, 1, colon - 1), After(addr, colon)>>
host_from_address(addr) ==
    LET parts == SplitAddress(addr) IN
    IF parts = NoHost \/ parts[1] = << >> \/ ~parses_as_u16(parts[2]) THEN NoBytes ELSE parts[1]

----------------------------------------------------------------------------
(* connect_with_deadline up to the first write.                             *)

\* Mutant: event_capacity is cut to sixteen bits.
receive_maximum_cut == options.event_capacity % (U16Max + 1)
receive_maximum == Minimum(options.event_capacity, U16Max)
ConnectPacket ==
    [protocol_version |-> 5, clean_start |-> options.clean_start,
     keep_alive |-> options.keep_alive_secs, client_id |-> options.client_id,
     username |-> options.username, password |-> options.password,
     properties |-> push(push(<< >>, PropertyId.MaximumPacketSize, options.max_packet_size),
                         PropertyId.ReceiveMaximum, receive_maximum)]

\* The transport may refuse to be made blocking or to take a timeout.
BeginHandshake(by) ==
    LET bytes == encode_connect(ConnectPacket)
        error == IF clock >= by THEN "Timeout" ELSE bytes.error
    IN  /\ deadline' = by /\ until' = NoCall /\ UNCHANGED session
        /\ \/ /\ pc' = "failed" /\ UNCHANGED out
              /\ outcome' \in {error, "Io"} \ {"none"}
           \/ error = "none" /\ pc' = "write" /\ out' = bytes.val /\ UNCHANGED outcome

\* connect_with
connect_with == \/ validate(options) # "none" /\ Fail(validate(options)) /\ UNCHANGED out
                \/ validate(options) = "none" /\ BeginHandshake(clock + options.connect_timeout)

----------------------------------------------------------------------------
(* The TCP connection.                                                      *)

Resolve(by) == /\ pc' = "resolve" /\ deadline' = by /\ until' = ResolveBound
               /\ UNCHANGED <<session, outcome, out>>

\* rustls may refuse the host as a server name, too.
TlsRefused == \/ host_from_address(arg.addr) = NoBytes
              \/ arg.tls_timeout = 0 \/ clock + arg.tls_timeout > MaxInstant

Start ==
    /\ pc = "start"
    /\ \/ Route = "with" /\ connect_with
       \/ /\ Route \in {"tcp", "blocking"}
          /\ \/ validate(options) # "none" /\ Fail(validate(options)) /\ UNCHANGED out
             \/ validate(options) = "none" /\ Resolve(clock + options.connect_timeout)
       \/ /\ Route = "tls"
          /\ \/ Fail("Io") /\ UNCHANGED out
             \/ ~TlsRefused /\ Resolve(clock + arg.tls_timeout)
    /\ UNCHANGED <<call_vars, dial_vars, said, answer, incoming, header_bytes, body>>

\* Only connect_tcp_until looks at the clock as soon as the resolver has returned.
ResolveReturns ==
    /\ pc = "resolve"
    /\ \/ Route = "tcp" /\ ~InTime /\ Fail("Timeout") /\ UNCHANGED endpoints
       \/ /\ Route # "tcp" \/ InTime
          /\ \/ Fail("Io") /\ UNCHANGED endpoints
             \/ endpoints' \in 0..EndpointBound /\ Goto("dial")
    /\ UNCHANGED <<call_vars, last_error, io_vars>>

DialSucceeds ==
    /\ pc = "dial" /\ until # NoCall
    /\ \/ Route = "tcp" /\ BeginHandshake(deadline)
       \/ Route = "tls" /\ (connect_with \/ (Fail("Io") /\ UNCHANGED out))
       \/ /\ Route = "blocking" /\ UNCHANGED out
          /\ IF InTime THEN Goto("handed") ELSE Fail("Timeout")
    /\ UNCHANGED <<call_vars, dial_vars, said, answer, incoming, header_bytes, body>>

DialFails == /\ pc = "dial" /\ until # NoCall
             /\ endpoints' = endpoints - 1
             /\ last_error' = IF clock >= until THEN "TimedOut" ELSE "Refused"
             /\ Goto("dial")
             /\ UNCHANGED <<call_vars, io_vars>>

\* An io::Error of that kind as the caller of the route sees it.
Reported(kind) == IF kind = "TimedOut" /\ Route # "tls" THEN "Timeout" ELSE "Io"

NoEndpointLeft ==
    /\ pc = "dial" /\ until = NoCall /\ endpoints = 0
    /\ Fail(IF Route = "tcp" /\ ~InTime THEN "Timeout" ELSE Reported(last_error))
    /\ UNCHANGED <<call_vars, dial_vars, io_vars>>

----------------------------------------------------------------------------
(* Blocking calls.                                                          *)

\* The timeout of the next call is what remains; nothing remaining is an error.
BeginCall ==
    /\ until = NoCall
    /\ pc \in {"write", "flush", "header", "body"} \/ (pc = "dial" /\ endpoints > 0)
    /\ \/ ~InTime /\ Fail(IF pc = "dial" THEN Reported("TimedOut") ELSE "Timeout")
       \/ InTime /\ until' = CallTimeout /\ UNCHANGED <<pc, deadline, session, outcome>>
    /\ UNCHANGED <<call_vars, dial_vars, io_vars>>

InCall(places) == pc \in places /\ until # NoCall

\* write_all_until
WriteSome ==
    /\ InCall({"write"})
    /\ \E n \in 1..Len(out) :
         /\ said' = said \o SubSeq(out, 1, n) /\ out' = After(out, n)
         /\ IF InTime THEN Goto(IF n = Len(out) THEN "flush" ELSE "write") ELSE Fail("Timeout")
    /\ UNCHANGED <<call_vars, dial_vars, answer, incoming, header_bytes, body>>

FlushReturns == /\ InCall({"flush"})
                /\ IF InTime THEN Goto("header") ELSE Fail("Timeout")
                /\ UNCHANGED <<call_vars, dial_vars, io_vars>>

\* ErrorKind::Interrupted: the loop goes round.
Interrupted == /\ InCall({"write", "header", "body"})
               /\ Goto(pc)
               /\ UNCHANGED <<call_vars, dial_vars, io_vars>>

CallTimesOut == /\ InCall({"write", "flush", "header", "body"}) /\ clock >= until
                /\ Fail("Timeout")
                /\ UNCHANGED <<call_vars, dial_vars, io_vars>>

\* Any other error, a write of nothing; the end of the stream.
CallFails == /\ InCall({"write", "flush", "header", "body"})
             /\ \/ Fail("Io")
                \/ pc \in {"header", "body"} /\ incoming = << >> /\ Fail("ConnectionClosed")
             /\ UNCHANGED <<call_vars, dial_vars, io_vars>>

----------------------------------------------------------------------------
(* read_packet_blocking and what connect_with_deadline does with the packet.*)

\* The limits of the connection, from the CONNACK or their defaults.
Session(connack) ==
    [connected |-> TRUE,
     keep_alive_secs |-> Get(connack.properties, PropertyId.ServerKeepAlive, options.keep_alive_secs),
     peer_max_packet_size |-> Get(connack.properties, PropertyId.MaximumPacketSize, MQTT_MAX_PACKET_SIZE),
     peer_receive_maximum |-> Get(connack.properties, PropertyId.ReceiveMaximum, U16Max),
     server_capabilities |-> from_connack(connack)]

PacketError(packet) ==
    IF packet.type # "ConnAck" THEN "UnexpectedPacket"
    ELSE IF packet.reason_code >= 128 THEN "ConnectionRefused"
    ELSE validate_connack(options.client_id, options.clean_start, packet)

Finish(packet) ==
    LET error == IF IsOk(packet) THEN PacketError(packet.val) ELSE packet.error IN
    \/ error # "none" /\ Fail(error)
    \/ error = "none" /\ Fail("Io")   \* the transport is not made nonblocking
    \/ /\ error = "none"
       /\ pc' = "ready" /\ until' = NoCall /\ session' = Session(packet.val)
       /\ UNCHANGED <<deadline, outcome>>

Header == decode_fixed_header(header_bytes)

\* What read_exact_until still has to fill.
Wanted == IF pc = "header" THEN 1 ELSE Header.val.remaining_length - Len(body)

\* The stream behind the n bytes a read returned.
\* Mutant: the body is read through a buffer that is then dropped.
Left_buffered(n) == IF pc = "body" THEN << >> ELSE After(incoming, n)
Left(n) == After(incoming, n)

\* Mutant: a packet of the limit is refused, too.
TooLarge_at_limit(size) == size >= options.max_packet_size
TooLarge(size) == size > options.max_packet_size

HeaderRead(bytes) ==
    LET header == decode_fixed_header(bytes)
        more == Len(bytes) = 1 \/ Last(bytes) >= 128
    IN  \/ ~InTime /\ Fail("Timeout")
        \/ InTime /\ more /\ Len(bytes) < 5 /\ Goto("header")
        \/ InTime /\ more /\ Len(bytes) = 5 /\ Fail("MalformedPacket")
        \/ /\ InTime /\ ~more
           /\ \/ ~IsOk(header) /\ Fail(header.error)
              \/ /\ IsOk(header)
                 /\ IF TooLarge(header.pos + header.val.remaining_length) THEN Fail("PacketTooLarge")
                    ELSE IF header.val.remaining_length > 0 THEN Goto("body")
                    ELSE Finish(decode(header.val, << >>))

BodyRead(bytes) ==
    \/ ~InTime /\ Fail("Timeout")
    \/ InTime /\ Len(bytes) < Header.val.remaining_length /\ Goto("body")
    \/ InTime /\ Len(bytes) = Header.val.remaining_length /\ Finish(decode(Header.val, bytes))

ReadSome ==
    /\ InCall({"header", "body"})
    /\ \E n \in 1..Minimum(Wanted, Len(incoming)) :
         LET bytes == SubSeq(incoming, 1, n) IN
         /\ incoming' = Left(n)
         /\ \/ /\ pc = "header" /\ header_bytes' = header_bytes \o bytes
               /\ HeaderRead(header_bytes \o bytes) /\ UNCHANGED body
            \/ /\ pc = "body" /\ body' = body \o bytes
               /\ BodyRead(body \o bytes) /\ UNCHANGED header_bytes
    /\ UNCHANGED <<call_vars, dial_vars, out, said, answer>>

----------------------------------------------------------------------------
BrokerAnswers == /\ pc = "header" /\ answer = NoAnswer
                 /\ answer' \in Answers /\ incoming' = answer'.bytes
                 /\ UNCHANGED <<call_vars, pc, deadline, until, dial_vars, out, said, header_bytes,
                                body, session, outcome>>

Tick == /\ until # NoCall /\ clock < until
        /\ clock' = clock + 1
        /\ UNCHANGED <<arg, pc, deadline, until, dial_vars, io_vars, session, outcome>>

Init == /\ arg \in Calls /\ pc = "start" /\ clock = 0 /\ deadline = 0 /\ until = NoCall
        /\ endpoints = 0 /\ last_error = "none"
        /\ out = << >> /\ said = << >> /\ answer = NoAnswer /\ incoming = << >>
        /\ header_bytes = << >> /\ body = << >> /\ session = NoSession /\ outcome = "none"

Client == \/ Start \/ BeginCall \/ DialFails \/ NoEndpointLeft
          \/ DialSucceeds \/ WriteSome \/ FlushReturns \/ ReadSome \/ CallTimesOut
Connect == Client \/ ResolveReturns \/ Interrupted \/ CallFails \/ BrokerAnswers \/ Tick

----------------------------------------------------------------------------
(* Properties.                                                              *)

\* No blocking call of a connect begins or lasts beyond the deadline, in however many
\* pieces CONNECT and CONNACK go over the wire, and a connection is only handed out
\* before it (DESIGN.md: connect operations have deadlines).  Name resolution cannot be
\* interrupted.
ReturnsInTime == /\ until # NoCall /\ pc # "resolve" => clock <= deadline
                 /\ pc \in {"ready", "handed"} => clock < deadline

\* The handshake takes the bytes of one packet off the stream and not one more: what
\* the broker sends right behind its CONNACK is left for the frame reader, which starts
\* with an empty buffer.
NothingReadAhead ==
    pc = "ready" => /\ header_bytes \o body \o incoming = answer.bytes
                    /\ Len(body) = Header.val.remaining_length

Offered(value, default) == IF value = NoId THEN default ELSE value

\* What an answer says, by the standard, to the client that sent these options.
Agreed(o, m) ==
    [connected |-> TRUE,
     keep_alive_secs |-> Offered(m.keep_alive, o.keep_alive_secs),
     peer_max_packet_size |-> Offered(m.max_packet, MQTT_MAX_PACKET_SIZE),
     peer_receive_maximum |-> Offered(m.receive_max, U16Max),
     server_capabilities |-> [maximum_qos |-> Offered(m.qos, 1),
                              retain_available |-> m.retain # 0,
                              wildcard_subscriptions_available |-> m.wildcard # 0,
                              shared_subscriptions_available |-> m.shared # 0]]
\* It may resume a session only for a client with a name that did not ask for a new one.
Acceptable(o, m) == /\ m.present => ~o.clean_start /\ o.client_id # << >>
                    /\ o.client_id = << >> => m.assigned
                    /\ Len(answer.bytes) - m.behind <= o.max_packet_size

ProtocolErrors == {"MalformedPacket", "UnexpectedPacket", "InvalidReasonCode", "InvalidPacketType",
                   "InvalidQoS", "UnexpectedEnd", "ConnectionRefused", "PacketTooLarge"}

\* A connection works with exactly the limits of the CONNACK, in whatever order its
\* properties come, and the defaults for the others; an answer that refuses, is no
\* CONNACK, breaks the standard or does not fit the CONNECT gives no connection, and one
\* that is in order is never called wrong.  Whatever the broker sent, no limit is zero and
\* the maximum QoS is one the code knows (connect.rs: unreachable!("Maximum QoS was
\* validated while decoding properties")).
SessionIsOffered ==
    LET taken == answer.kind = "accepts" /\ Acceptable(options, answer.means) IN
    /\ pc = "ready" /\ answer.kind # "altered" =>
           taken /\ session = Agreed(options, answer.means)
    /\ taken /\ said # << >> => outcome \notin ProtocolErrors
    /\ pc = "ready" => /\ session.server_capabilities.maximum_qos \in {0, 1}
                       /\ session.peer_receive_maximum \in 1..U16Max
                       /\ session.peer_max_packet_size > 0

U16Bytes(n) == <<n \div 256, n % 256>>
Field(s) == IF s = NoBytes THEN << >> ELSE U16Bytes(Len(s)) \o s
\* CONNECT as MQTT v5 lays it out, shorter than 128 bytes.
ConnectLayout(o) ==
    LET flags == (IF o.username = NoBytes THEN 0 ELSE 128) + (IF o.password = NoBytes THEN 0 ELSE 64)
                 + (IF o.clean_start THEN 2 ELSE 0)
        rest == <<0, 4, 77, 81, 84, 84, 5, flags>> \o U16Bytes(o.keep_alive_secs)
                \o <<8, 39>> \o U16Bytes(o.max_packet_size \div 65536) \o U16Bytes(o.max_packet_size % 65536)
                \o <<33>> \o U16Bytes(IF o.event_capacity > U16Max THEN U16Max ELSE o.event_capacity)
                \o Field(o.client_id) \o Field(o.username) \o Field(o.password)
    IN  <<16, Len(rest)>> \o rest

\* The broker gets CONNECT byte by byte as the options say, in however many writes, and
\* no answer is read before it has all of it.
ConnectSaysOptions ==
    /\ IsPrefix(said, ConnectLayout(options)) \/ said = << >>
    /\ pc \in {"flush", "header", "body", "ready"} => said = ConnectLayout(options)

\* The server name TLS checks is the host of the address that is dialled: the address is
\* that name, in brackets if it has a colon, and a port.
NameIsHost ==
    Route = "tls" /\ pc \notin {"start", "failed"} =>
        LET host == host_from_address(arg.addr) IN
        /\ host # << >>
        /\ \E i \in DOMAIN arg.addr :
             /\ parses_as_u16(After(arg.addr, i))
             /\ SubSeq(arg.addr, 1, i) = IF Contains(host, Colon) \/ Head(arg.addr) = Opening
                                         THEN <<Opening>> \o host \o <<Closing, Colon>>
                                         ELSE host \o <<Colon>>

\* A connect ends, with a connection or with an error.
ConnectEnds == <>(pc \in {"ready", "handed", "failed"})
=============================================================================
