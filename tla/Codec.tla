------------------------------- MODULE Codec -------------------------------
(***************************************************************************)
(* The packet codec (src/src/codec): what is written for a packet, and what *)
(* is read from bytes, as operators over sequences of bytes.               *)
(*                                                                         *)
(* A fallible function returns a result: Err(e), with the variant of       *)
(* error.rs for e, or Ok(v, pos), with the value and the position of the   *)
(* cursor behind it.  Then is the operator ? of the code, Join a sequence  *)
(* of writes each followed by it.  A string is the sequence of its bytes.  *)
(***************************************************************************)
EXTENDS Integers, Sequences, SequencesExt

Err(e) == [error |-> e]
Ok(v, pos) == [error |-> "none", val |-> v, pos |-> pos]
IsOk(r) == r.error = "none"
\* F of v, as a set of one: TLC evaluates v once.
Bind(v, F(_)) == CHOOSE y \in {F(x) : x \in {v}} : TRUE
Then(r, K(_, _)) == Bind(r, LAMBDA x : IF IsOk(x) THEN K(x.val, x.pos) ELSE x)
Check(e, r) == IF e = "none" THEN r ELSE Err(e)
Written(bytes) == Ok(bytes, Len(bytes))
Join(parts) ==
    Bind(parts, LAMBDA rs :
        IF \E i \in DOMAIN rs : ~IsOk(rs[i]) THEN SelectSeq(rs, LAMBDA r : ~IsOk(r))[1]
        ELSE Bind(FlattenSeq([k \in DOMAIN rs |-> rs[k].val]), Written))

----------------------------------------------------------------------------
(* Cursor (decode.rs): pos bytes of buf have been read.                     *)

read_bytes(buf, pos, n) ==
    IF Len(buf) - pos < n THEN Err("UnexpectedEnd") ELSE Ok(SubSeq(buf, pos + 1, pos + n), pos + n)
read_u8(buf, pos) == Then(read_bytes(buf, pos, 1), LAMBDA b, p : Ok(b[1], p))
read_u16(buf, pos) == Then(read_bytes(buf, pos, 2), LAMBDA b, p : Ok(b[1] * 256 + b[2], p))

\* TLC has no integer above this one; no packet of an instance comes near it.
IntMax == 2147483647
be_u32(b) == IF b[1] > 127 THEN IntMax ELSE ((b[1] * 256 + b[2]) * 256 + b[3]) * 256 + b[4]
read_u32(buf, pos) == Then(read_bytes(buf, pos, 4), LAMBDA b, p : Ok(be_u32(b), p))

\* The loop of read_variable_int.
RECURSIVE VariableInt(_, _, _, _)
VariableInt(buf, pos, value, multiplier) ==
    Then(read_u8(buf, pos), LAMBDA byte, p :
        LET sum == value + (byte % 128) * multiplier IN
        IF byte < 128 THEN Ok(sum, p)
        ELSE IF multiplier * 128 > 128 * 128 * 128 THEN Err("MalformedPacket")
        ELSE VariableInt(buf, p, sum, multiplier * 128))
read_variable_int(buf, pos) == VariableInt(buf, pos, 0, 1)

read_binary(buf, pos) == Then(read_u16(buf, pos), LAMBDA len, p : read_bytes(buf, p, len))

\* Exact for strings without two bytes above 127 side by side: a single one is
\* never valid UTF-8.
IsUtf8(s) == \A i \in DOMAIN s : s[i] < 128
read_string(buf, pos) ==
    Then(read_binary(buf, pos), LAMBDA s, p :
        IF Contains(s, 0) \/ ~IsUtf8(s) THEN Err("MalformedPacket") ELSE Ok(s, p))

----------------------------------------------------------------------------
(* Writing (encode.rs).                                                     *)

VARIABLE_INT_MAX == 268435455

RECURSIVE SevenBits(_)
SevenBits(value) == IF value < 128 THEN <<value>>
                    ELSE <<(value % 128) + 128>> \o SevenBits(value \div 128)
encode_variable_int(value) ==
    IF value > VARIABLE_INT_MAX THEN Err("PacketTooLarge") ELSE Written(SevenBits(value))

variable_int_len(value) == CASE value <= 127 -> 1 [] value \in 128..16383 -> 2
                             [] value \in 16384..2097151 -> 3 [] OTHER -> 4

\* as u16: what does not fit in two bytes is cut off.
encode_u16(val) == Written(<<(val \div 256) % 256, val % 256>>)
encode_u32(val) == Join(<<encode_u16(val \div 65536), encode_u16(val % 65536)>>)

encode_binary(data) == IF Len(data) > 65535 THEN Err("BinaryTooLong")
                       ELSE Join(<<encode_u16(Len(data)), Written(data)>>)
encode_string(s) == IF Len(s) > 65535 THEN Err("StringTooLong")
                    ELSE IF Contains(s, 0) THEN Err("MalformedPacket")
                    ELSE Join(<<encode_u16(Len(s)), Written(s)>>)

string_len(s) == 2 + Len(s)
binary_len(data) == 2 + Len(data)

----------------------------------------------------------------------------
(* Fixed header (types.rs, decode.rs, encode.rs).                           *)

PacketType == <<"Connect", "ConnAck", "Publish", "PubAck", "PubRec", "PubRel", "PubComp",
                "Subscribe", "SubAck", "Unsubscribe", "UnsubAck", "PingReq", "PingResp",
                "Disconnect", "Auth">>
TypeNumber(type) == CHOOSE n \in DOMAIN PacketType : PacketType[n] = type
FixedHeader(type, flags, len) == [packet_type |-> type, flags |-> flags, remaining_length |-> len]

QosBits(flags) == (flags \div 2) % 4
Dup(flags) == flags >= 8
Retain(flags) == flags % 2 = 1

validate_fixed_header(header) ==
    IF header.packet_type = "Publish"
    THEN IF QosBits(header.flags) = 3 THEN "InvalidQoS"
         ELSE IF QosBits(header.flags) = 0 /\ Dup(header.flags) THEN "MalformedPacket" ELSE "none"
    ELSE IF header.flags = (IF header.packet_type \in {"PubRel", "Subscribe", "Unsubscribe"}
                            THEN 2 ELSE 0)
         THEN "none" ELSE "MalformedPacket"

decode_fixed_header(data) ==
    Then(read_u8(data, 0), LAMBDA first_byte, p :
        IF first_byte \div 16 \notin DOMAIN PacketType THEN Err("InvalidPacketType")
        ELSE Then(read_variable_int(data, p), LAMBDA len, q :
                 LET header == FixedHeader(PacketType[first_byte \div 16], first_byte % 16, len) IN
                 Check(validate_fixed_header(header), Ok(header, q))))

encode_fixed_header(type, flags, len) ==
    IF flags > 15 THEN Err("MalformedPacket")
    ELSE Check(validate_fixed_header(FixedHeader(type, flags, len)),
               Join(<<Written(<<TypeNumber(type) * 16 + flags>>), encode_variable_int(len)>>))

\* A body written first, and the fixed header put before it.
Framed(type, flags, body) ==
    Then(body, LAMBDA bytes, p : Join(<<encode_fixed_header(type, flags, Len(bytes)), body>>))

----------------------------------------------------------------------------
(* Topic names and filters (topic.rs).                                      *)

Hash == 35
Plus == 43
Slash == 47
Share == <<36, 115, 104, 97, 114, 101, 47>>   \* "$share/"

Wildcard(s) == Contains(s, Hash) \/ Contains(s, Plus)
validate_topic_name(topic) == IF topic = << >> \/ Wildcard(topic) THEN "MalformedPacket" ELSE "none"

\* str::split
RECURSIVE Split(_, _)
Split(s, c) == LET i == SelectInSeq(s, LAMBDA x : x = c) IN
               IF i = 0 THEN <<s>>
               ELSE <<SubSeq(s, 1, i - 1)>> \o Split(SubSeq(s, i + 1, Len(s)), c)

\* Mutant: "#" is accepted in any level of its own.
validate_filter_levels_any(filter) ==
    LET levels == Split(filter, Slash) IN
    IF \E i \in DOMAIN levels : Wildcard(levels[i]) /\ Len(levels[i]) > 1
    THEN "MalformedPacket" ELSE "none"
validate_filter_levels(filter) ==
    LET levels == Split(filter, Slash) IN
    IF \E i \in DOMAIN levels :
         \/ Contains(levels[i], Hash) /\ (levels[i] # <<Hash>> \/ i < Len(levels))
         \/ Contains(levels[i], Plus) /\ levels[i] # <<Plus>>
    THEN "MalformedPacket" ELSE "none"

validate_topic_filter(filter) ==
    IF filter = << >> THEN "MalformedPacket"
    ELSE IF ~IsPrefix(Share, filter) THEN validate_filter_levels(filter)
    ELSE LET shared == SubSeq(filter, Len(Share) + 1, Len(filter))
             cut == SelectInSeq(shared, LAMBDA x : x = Slash)
         IN  IF cut <= 1 \/ Wildcard(SubSeq(shared, 1, cut - 1)) \/ cut = Len(shared)
             THEN "MalformedPacket"
             ELSE validate_filter_levels(SubSeq(shared, cut + 1, Len(shared)))

----------------------------------------------------------------------------
(* Properties (properties.rs): a sequence of <<identifier, type, value>>.   *)

PropertyId == [ResponseTopic |-> 8, CorrelationData |-> 9, SessionExpiryInterval |-> 17,
               AssignedClientIdentifier |-> 18, ServerKeepAlive |-> 19, ReasonString |-> 31,
               ReceiveMaximum |-> 33, TopicAliasMaximum |-> 34, MaximumQoS |-> 36,
               RetainAvailable |-> 37, UserProperty |-> 38, MaximumPacketSize |-> 39,
               WildcardSubscriptionAvailable |-> 40, SharedSubscriptionAvailable |-> 42]
Typed == Range(PropertyId)

\* The wire type of an identifier of the typed subset, and of the others (skipped).
TypedValue(id) == CASE id \in {36, 37, 40, 42} -> "Byte"
                    [] id \in {19, 33, 34} -> "U16"
                    [] id \in {17, 39} -> "U32"
                    [] id \in {8, 18, 31} -> "Str"
                    [] id = 9 -> "Binary"
                    [] id = 38 -> "StringPair"
SkippedValue(id) == CASE id \in {1, 23, 25, 41} -> "Byte"
                      [] id \in {2, 24} -> "U32"
                      [] id = 11 -> "VariableInt"
                      [] id \in {3, 21, 26, 28} -> "Str"
                      [] id = 22 -> "Binary"
                      [] OTHER -> "unknown"
ValueType(id) == IF id \in Typed THEN TypedValue(id) ELSE SkippedValue(id)

\* The packet whose property set it is; "None" for a section on its own.
Allows(context) ==
    CASE context = "Connect" -> {17, 33, 34, 38, 39}
      [] context = "ConnAck" -> {17, 18, 19, 21, 22, 26, 28, 31, 33, 34, 36, 37, 38, 39, 40, 41, 42}
      [] context = "Publish" -> {1, 2, 3, 8, 9, 11, 35, 38}
      [] context \in {"PubAck", "SubAck", "UnsubAck"} -> {31, 38}
      [] context = "Subscribe" -> {11, 38}
      [] context = "Unsubscribe" -> {38}
      [] context = "Disconnect" -> {28, 31, 38}
      [] context = "None" -> 0..255

push(props, id, value) == Append(props, <<id, TypedValue(id), value>>)
replace_single(props, id, value) == push(SelectSeq(props, LAMBDA e : e[1] # id), id, value)

\* get_byte, get_u16, get_u32, get_string and get_binary with a default.
Get(props, id, default) ==
    LET i == SelectInSeq(props, LAMBDA e : e[1] = id /\ e[2] = TypedValue(id)) IN
    IF i = 0 THEN default ELSE props[i][3]
user_properties(props) ==
    LET entries == SelectSeq(props, LAMBDA e : e[1] = 38 /\ e[2] = "StringPair") IN
    [i \in DOMAIN entries |-> entries[i][3]]

ZeroRefused == {33, 39}   \* ReceiveMaximum, MaximumPacketSize

validate_property(id, type, value) ==
    IF \/ type # TypedValue(id)
       \/ id = 8 /\ validate_topic_name(value) # "none"
       \/ id = 18 /\ value = << >>
       \/ id \in ZeroRefused /\ value = 0
       \/ id \in {36, 37, 40, 42} /\ value > 1
    THEN "MalformedPacket" ELSE "none"

encode_value(type, v) == CASE type = "Byte" -> Written(<<v>>)
                           [] type = "U16" -> encode_u16(v)
                           [] type = "U32" -> encode_u32(v)
                           [] type = "Str" -> encode_string(v)
                           [] type = "Binary" -> encode_binary(v)
                           [] type = "StringPair" -> Join(<<encode_string(v[1]), encode_string(v[2])>>)

Repeated(props, i) == props[i][1] # 38 /\ \E k \in 1..(i - 1) : props[k][1] = props[i][1]

encode_inner(props, context) ==
    LET Entry(i) ==
            LET id == props[i][1] IN
            IF id \notin Allows(context) THEN Err("MalformedPacket")
            ELSE Check(validate_property(id, props[i][2], props[i][3]),
                       IF Repeated(props, i) THEN Err("MalformedPacket")
                       ELSE Join(<<encode_variable_int(id), encode_value(props[i][2], props[i][3])>>))
        body == Join([i \in DOMAIN props |-> Entry(i)])
    IN  Then(body, LAMBDA bytes, p : Join(<<encode_variable_int(Len(bytes)), body>>))

encoded_len_of(body_len) == variable_int_len(body_len) + body_len
ValueLen(e) == CASE e[2] = "Byte" -> 1 [] e[2] = "U16" -> 2 [] e[2] = "U32" -> 4
                 [] e[2] = "Str" -> string_len(e[3])
                 [] e[2] = "Binary" -> binary_len(e[3])
                 [] e[2] = "StringPair" -> string_len(e[3][1]) + string_len(e[3][2])
body_len(props) == FoldLeft(LAMBDA sum, e : sum + variable_int_len(e[1]) + ValueLen(e), 0, props)
encoded_len(props) == encoded_len_of(body_len(props))

read_value(buf, pos, id) ==
    LET type == ValueType(id) IN
    CASE type = "Byte" -> read_u8(buf, pos)
      [] type = "U16" -> read_u16(buf, pos)
      [] type = "U32" -> read_u32(buf, pos)
      [] type = "VariableInt" -> read_variable_int(buf, pos)
      [] type = "Str" -> read_string(buf, pos)
      [] type = "Binary" -> read_binary(buf, pos)
      [] type = "StringPair" -> Then(read_string(buf, pos), LAMBDA k, p :
                                    Then(read_string(buf, p), LAMBDA v, q : Ok(<<k, v>>, q)))
      [] type = "unknown" -> Err("MalformedPacket")

ValueError(id, v) == IF id \in Typed THEN validate_property(id, TypedValue(id), v)
                     ELSE IF (id \in {1, 41} /\ v > 1) \/ (id = 11 /\ v = 0)
                          THEN "MalformedPacket" ELSE "none"

\* register_property_id refuses it.
\* Mutant: nothing is refused.
Seen_never(id, seen, context) == FALSE
Seen(id, seen, context) ==
    id # 38 /\ ~(id = 11 /\ context \in {"None", "Publish"}) /\ id \in seen

\* The loop of decode_inner.
RECURSIVE Entries(_, _, _, _, _, _)
Entries(buf, pos, end, props, seen, context) ==
    IF pos = end THEN Ok(props, pos)
    ELSE Then(read_variable_int(buf, pos), LAMBDA id, p :
        IF id > 255 \/ id = 35 \/ id \notin Allows(context) \/ Seen(id, seen, context)
        THEN Err("MalformedPacket")
        ELSE Then(read_value(buf, p, id), LAMBDA v, q :
                 IF q > end THEN Err("MalformedPacket")
                 ELSE Check(ValueError(id, v),
                            Entries(buf, q, end,
                                    IF id \in Typed THEN push(props, id, v) ELSE props,
                                    seen \cup {id}, context))))
decode_inner(buf, pos, context) ==
    Then(read_variable_int(buf, pos), LAMBDA prop_len, p :
        IF Len(buf) - p < prop_len THEN Err("MalformedPacket")
        ELSE Entries(buf, p, p + prop_len, << >>, {}, context))

----------------------------------------------------------------------------
(* PUBLISH and PUBACK (publish.rs), DISCONNECT (ping.rs).                   *)

NoId == -1   \* packet_id: None
BoolBit(b) == IF b THEN 1 ELSE 0

PublishIdError(qos, id) == IF (qos = 0 /\ id # NoId) \/ (qos = 1 /\ id \in {0, NoId})
                           THEN "MalformedPacket" ELSE "none"
PublishFlags(packet) == 8 * BoolBit(packet.dup) + 2 * packet.qos + BoolBit(packet.retain)

encode_publish(packet) ==
    Check(PublishIdError(packet.qos, packet.packet_id),
    Check(validate_topic_name(packet.topic),
          Framed("Publish", PublishFlags(packet),
                 Join(<<encode_string(packet.topic),
                        IF packet.packet_id = NoId THEN Written(<< >>) ELSE encode_u16(packet.packet_id),
                        encode_inner(packet.properties, "Publish"),
                        Written(packet.payload)>>))))

decode_publish(flags, body) ==
    IF QosBits(flags) > 1 THEN Err("InvalidQoS")
    ELSE Then(read_string(body, 0), LAMBDA topic, p :
         Check(validate_topic_name(topic),
         Then(IF QosBits(flags) = 0 THEN Ok(NoId, p) ELSE read_u16(body, p), LAMBDA id, q :
             IF id = 0 THEN Err("MalformedPacket")
             ELSE Then(decode_inner(body, q, "Publish"), LAMBDA props, r :
                 Ok([type |-> "Publish", topic |-> topic, packet_id |-> id,
                     payload |-> SubSeq(body, r + 1, Len(body)), qos |-> QosBits(flags),
                     retain |-> Retain(flags), dup |-> Dup(flags), properties |-> props],
                    Len(body))))))

is_puback_reason_code(code) == code \in {0, 16, 128, 131, 135, 144, 145, 151, 153}
is_disconnect_reason_code(code) ==
    code \in {0, 4} \cup (128..131) \cup {135, 137, 139} \cup (141..144) \cup (147..162)

\* The reason code and the properties that may follow an identifier, or nothing.
decode_reason(body, pos, context) ==
    LET Legal(code) == IF context = "PubAck" THEN is_puback_reason_code(code)
                       ELSE is_disconnect_reason_code(code) IN
    Then(IF pos = Len(body) THEN Ok(0, pos) ELSE read_u8(body, pos), LAMBDA code, p :
        IF ~Legal(code) THEN Err("InvalidReasonCode")
        ELSE Then(IF p = Len(body) THEN Ok(<< >>, p) ELSE decode_inner(body, p, context),
                  LAMBDA props, q : IF q # Len(body) THEN Err("MalformedPacket") ELSE Ok(code, q)))

encode_puback(packet) ==
    IF packet.packet_id = 0 THEN Err("MalformedPacket")
    ELSE IF ~is_puback_reason_code(packet.reason_code) THEN Err("InvalidReasonCode")
    ELSE Framed("PubAck", 0,
                Join(<<encode_u16(packet.packet_id),
                       Written(IF packet.reason_code = 0 THEN << >> ELSE <<packet.reason_code>>)>>))
decode_puback(body) ==
    Then(read_u16(body, 0), LAMBDA id, p :
        IF id = 0 THEN Err("MalformedPacket")
        ELSE Then(decode_reason(body, p, "PubAck"), LAMBDA code, q :
                 Ok([type |-> "PubAck", packet_id |-> id, reason_code |-> code], q)))

encode_disconnect(packet) ==
    IF ~is_disconnect_reason_code(packet.reason_code) THEN Err("InvalidReasonCode")
    ELSE Framed("Disconnect", 0,
                Written(IF packet.reason_code = 0 THEN << >> ELSE <<packet.reason_code>>))
decode_disconnect(body) ==
    Then(decode_reason(body, 0, "Disconnect"), LAMBDA code, p :
        Ok([type |-> "Disconnect", reason_code |-> code], p))

----------------------------------------------------------------------------
(* SUBSCRIBE, UNSUBSCRIBE and their acknowledgements (subscribe.rs).  A     *)
(* SUBSCRIBE has the QoS of every filter in requested, an UNSUBSCRIBE none. *)

FilterBytes(packet, i) ==
    Check(validate_topic_filter(packet.filters[i]),
          Join(<<encode_string(packet.filters[i]),
                 Written(IF packet.type = "Subscribe" THEN <<packet.requested[i]>> ELSE << >>)>>))
encode_subscription(packet) ==
    IF packet.packet_id = 0 \/ packet.filters = << >> THEN Err("MalformedPacket")
    ELSE Framed(packet.type, 2,
                Join(<<encode_u16(packet.packet_id), encode_inner(packet.properties, packet.type)>>
                     \o [i \in DOMAIN packet.filters |-> FilterBytes(packet, i)]))

is_suback_reason_code(code) ==
    code \in {0, 1, 2, 128, 131, 135, 143, 145, 151, 158, 161, 162}
is_unsuback_reason_code(code) == code \in {0, 17, 128, 131, 135, 143, 145}

decode_codes(type, body) ==
    LET Legal(code) == IF type = "SubAck" THEN is_suback_reason_code(code)
                       ELSE is_unsuback_reason_code(code) IN
    Then(read_u16(body, 0), LAMBDA id, p :
        IF id = 0 THEN Err("MalformedPacket")
        ELSE Then(decode_inner(body, p, type), LAMBDA props, q :
            LET codes == SubSeq(body, q + 1, Len(body)) IN
            IF codes = << >> THEN Err("MalformedPacket")
            ELSE IF \E i \in DOMAIN codes : ~Legal(codes[i]) THEN Err("InvalidReasonCode")
            ELSE Ok([type |-> type, packet_id |-> id, reason_codes |-> codes], Len(body))))

\* The first code that is wrong decides.
SubAckCodeError(granted, requested) ==
    IF granted >= 128 THEN "AckRejected"
    ELSE IF granted = 2 \/ granted > requested THEN "MalformedPacket" ELSE "none"
validate_suback_codes(codes, requested) ==
    IF Len(codes) # Len(requested) THEN "MalformedPacket"
    ELSE LET errors == [i \in DOMAIN codes |-> SubAckCodeError(codes[i], requested[i])]
             i == SelectInSeq(errors, LAMBDA e : e # "none")
         IN  IF i = 0 THEN "none" ELSE errors[i]

----------------------------------------------------------------------------
(* CONNECT and CONNACK (connect.rs).  An absent user name or password is    *)
(* NoBytes.                                                                 *)

PROTOCOL_NAME == <<77, 81, 84, 84>>
PROTOCOL_VERSION_5 == 5
NoBytes == <<NoId>>

ConnectFlags(packet) == 2 * BoolBit(packet.clean_start) + 64 * BoolBit(packet.password # NoBytes)
                        + 128 * BoolBit(packet.username # NoBytes)
Optional(data, encoded) == IF data = NoBytes THEN Written(<< >>) ELSE encoded

encode_connect(packet) ==
    IF packet.protocol_version # PROTOCOL_VERSION_5 THEN Err("MalformedPacket")
    ELSE Framed("Connect", 0,
                Join(<<encode_string(PROTOCOL_NAME),
                       Written(<<packet.protocol_version, ConnectFlags(packet)>>),
                       encode_u16(packet.keep_alive),
                       encode_inner(packet.properties, "Connect"),
                       encode_string(packet.client_id),
                       Optional(packet.username, encode_string(packet.username)),
                       Optional(packet.password, encode_binary(packet.password))>>))

is_connack_reason_code(code) ==
    code \in {0} \cup (128..138) \cup {140, 144, 149, 151} \cup (153..157) \cup {159}

decode_connack(body) ==
    Then(read_u8(body, 0), LAMBDA flags, p :
        IF flags > 1 THEN Err("MalformedPacket")
        ELSE Then(read_u8(body, p), LAMBDA code, q :
            IF ~is_connack_reason_code(code) THEN Err("InvalidReasonCode")
            ELSE IF flags = 1 /\ code # 0 THEN Err("MalformedPacket")
            ELSE Then(decode_inner(body, q, "ConnAck"), LAMBDA props, r :
                IF r # Len(body) THEN Err("MalformedPacket")
                ELSE Ok([type |-> "ConnAck", session_present |-> flags = 1,
                         reason_code |-> code, properties |-> props], r))))

\* The fields of a CONNACK that depend on the CONNECT.
validate_connack(client_id, clean_start, connack) ==
    IF \/ clean_start /\ connack.session_present
       \/ client_id = << >> /\ connack.session_present
       \/ client_id = << >> /\ Get(connack.properties, PropertyId.AssignedClientIdentifier, << >>) = << >>
    THEN "MalformedPacket" ELSE "none"

\* ServerCapabilities
from_connack(connack) ==
    [maximum_qos |-> Get(connack.properties, PropertyId.MaximumQoS, 1),
     retain_available |-> Get(connack.properties, PropertyId.RetainAvailable, 1) # 0,
     wildcard_subscriptions_available |->
         Get(connack.properties, PropertyId.WildcardSubscriptionAvailable, 1) # 0,
     shared_subscriptions_available |->
         Get(connack.properties, PropertyId.SharedSubscriptionAvailable, 1) # 0]

validate_publish(capabilities, qos, retain) ==
    IF qos > capabilities.maximum_qos \/ (retain /\ ~capabilities.retain_available)
    THEN "InvalidOptions" ELSE "none"
validate_subscription_filter(capabilities, filter) ==
    IF validate_topic_filter(filter) # "none" THEN validate_topic_filter(filter)
    ELSE IF \/ IsPrefix(Share, filter) /\ ~capabilities.shared_subscriptions_available
            \/ Wildcard(filter) /\ ~capabilities.wildcard_subscriptions_available
         THEN "InvalidOptions" ELSE "none"

----------------------------------------------------------------------------
\* Packet::decode (mod.rs)
Empty(type, body) == IF body = << >> THEN Ok([type |-> type], 0) ELSE Err("MalformedPacket")
decode(header, body) ==
    Check(validate_fixed_header(header),
    IF Len(body) # header.remaining_length THEN Err("MalformedPacket")
    ELSE CASE header.packet_type = "ConnAck" -> decode_connack(body)
           [] header.packet_type = "Publish" -> decode_publish(header.flags, body)
           [] header.packet_type = "PubAck" -> decode_puback(body)
           [] header.packet_type \in {"SubAck", "UnsubAck"} -> decode_codes(header.packet_type, body)
           [] header.packet_type \in {"PingReq", "PingResp"} -> Empty(header.packet_type, body)
           [] header.packet_type = "Disconnect" -> decode_disconnect(body)
           [] OTHER -> Err("UnexpectedPacket"))
=============================================================================
