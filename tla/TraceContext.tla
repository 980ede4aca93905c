---------------------------- MODULE TraceContext ----------------------------
(***************************************************************************)
(* W3C trace context in the user properties of a PUBLISH (src/src/trace.rs).*)
(***************************************************************************)
EXTENDS Codec

TRACEPARENT_KEY == <<116, 114, 97, 99, 101, 112, 97, 114, 101, 110, 116>>
TRACESTATE_KEY == <<116, 114, 97, 99, 101, 115, 116, 97, 116, 101>>
VERSION == <<48, 48>>
Dash == 45

\* Option: a context, or a tracestate, that is not there.
NoTrace == [trace_id |-> << >>, span_id |-> << >>, trace_flags |-> 0, tracestate |-> NoBytes]

is_all_zero(bytes) == \A i \in DOMAIN bytes : bytes[i] = 0

new_root(trace_id, span_id) ==
    IF is_all_zero(trace_id) \/ is_all_zero(span_id) THEN NoTrace
    ELSE [trace_id |-> trace_id, span_id |-> span_id, trace_flags |-> 1, tracestate |-> NoBytes]
child(context, span_id) ==
    IF is_all_zero(span_id) THEN NoTrace ELSE [context EXCEPT !.span_id = span_id]

HEX == <<48, 49, 50, 51, 52, 53, 54, 55, 56, 57, 97, 98, 99, 100, 101, 102>>
hex_encode(bytes) ==
    FlattenSeq([i \in DOMAIN bytes |-> <<HEX[(bytes[i] \div 16) + 1], HEX[(bytes[i] % 16) + 1]>>])

NotHex == -1
hex_nibble(c) == CASE c \in 48..57 -> c - 48
                   [] c \in 97..102 -> c - 87
                   [] c \in 65..70 -> c - 55
                   [] OTHER -> NotHex
\* NoBytes unless s is n bytes in hexadecimal.
hex_decode_fixed(n, s) ==
    IF Len(s) # 2 * n \/ \E i \in DOMAIN s : hex_nibble(s[i]) = NotHex THEN NoBytes
    ELSE [i \in 1..n |-> 16 * hex_nibble(s[2 * i - 1]) + hex_nibble(s[2 * i])]

traceparent_string(context) ==
    VERSION \o <<Dash>> \o hex_encode(context.trace_id) \o <<Dash>> \o hex_encode(context.span_id)
    \o <<Dash>> \o hex_encode(<<context.trace_flags>>)

parse_traceparent(s, tracestate) ==
    LET parts == Split(s, Dash) IN
    IF Len(parts) # 4 \/ parts[1] # VERSION THEN NoTrace
    ELSE LET trace_id == hex_decode_fixed(16, parts[2])
             span_id == hex_decode_fixed(8, parts[3])
             flags == hex_decode_fixed(1, parts[4])
         IN  IF \/ NoBytes \in {trace_id, span_id, flags}
                \/ is_all_zero(trace_id) \/ is_all_zero(span_id)
             THEN NoTrace
             ELSE [trace_id |-> trace_id, span_id |-> span_id, trace_flags |-> flags[1],
                   tracestate |-> tracestate]

inject(context, props) ==
    LET parent == push(props, PropertyId.UserProperty, <<TRACEPARENT_KEY, traceparent_string(context)>>) IN
    IF context.tracestate = NoBytes THEN parent
    ELSE push(parent, PropertyId.UserProperty, <<TRACESTATE_KEY, context.tracestate>>)

\* The value of the last user property with that key.
LastOf(pairs, key) ==
    LET i == SelectLastInSeq(pairs, LAMBDA kv : kv[1] = key) IN IF i = 0 THEN NoBytes ELSE pairs[i][2]
from_properties(props) ==
    LET pairs == user_properties(props)
        traceparent == LastOf(pairs, TRACEPARENT_KEY)
    IN  IF traceparent = NoBytes THEN NoTrace
        ELSE parse_traceparent(traceparent, LastOf(pairs, TRACESTATE_KEY))
=============================================================================
