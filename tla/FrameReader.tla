---------------------------- MODULE FrameReader ----------------------------
(***************************************************************************)
(* The incremental frame parser (src/src/frame.rs) that both clients put   *)
(* between their transport and their dispatch, with the stream it reads.   *)
(*                                                                         *)
(* A byte of the stream is its position.  What the parser can learn from   *)
(* bytes is kept per packet: the length of its fixed header, its total     *)
(* length, and where it is malformed, if it is.  A parser that has lost    *)
(* its place in the stream does not find a header at all.                  *)
(***************************************************************************)
EXTENDS Integers, Sequences

CONSTANTS
    PacketKinds,       \* the packets the broker may send
    max_packet_size,   \* the limit, fixed header included
    ReadChunk,         \* 8192 in both clients: the most one read returns
    WireBound,         \* packets the broker sends in an instance
    PushBound          \* bytes in one push of a caller that ignores the capacity; 0 for none

\* "first": no such packet type; "header": bad flags or a Remaining Length of more
\* than four bytes; "body": the body does not decode.
Defects == {"none", "first", "header", "body"}

ASSUME ReaderAssumption ==
    /\ PacketKinds \subseteq [header_len : 2..5, total_len : Nat, defect : Defects]
    /\ \A kind \in PacketKinds : kind.total_len >= kind.header_len
    /\ max_packet_size \in Nat /\ max_packet_size >= 2
    /\ ReadChunk \in Nat \ {0}
    /\ WireBound \in Nat
    /\ PushBound \in Nat

VARIABLES
    wire,        \* the packets the broker sent
    start,       \* the position of the first byte of each, and of the next one
    fed,         \* the position of the next byte the transport returns
    buf,
    state,
    total_len,   \* of the packet in ReadingBody, NoPacket in ReadingHeader
    overflow,    \* overflow_size is set
    decoded,     \* the bytes of each packet try_decode returned
    outcome      \* what try_decode returned since the last push; an error stays
vars == <<wire, start, fed, buf, state, total_len, overflow, decoded, outcome>>

NoPacket == 0
Errors == {"PacketTooLarge", "Malformed"}
Outcomes == {"nothing", "None", "Some"} \cup Errors

Smaller(a, b) == IF a < b THEN a ELSE b

----------------------------------------------------------------------------
(* The buffer.                                                              *)

Target == IF state = "ReadingHeader" THEN max_packet_size ELSE total_len
remaining_capacity == IF Len(buf) > Target THEN 0 ELSE Target - Len(buf)

\* The n bytes of the stream from position fed.
Bytes(n) == [i \in 1..n |-> fed + i - 1]

Kept(n) == Smaller(n, remaining_capacity)
push(n) == /\ buf' = buf \o Bytes(Kept(n))
           /\ overflow' = (overflow \/ n > remaining_capacity)
           /\ fed' = fed + n
           /\ outcome' = IF outcome \in Errors THEN outcome ELSE "nothing"
           /\ UNCHANGED <<wire, start, state, total_len, decoded>>

Available == start[Len(start)] - fed

\* A read of one of the clients asks for no more than the capacity.
ReadLimit == Smaller(remaining_capacity, ReadChunk)
Read == /\ outcome \notin Errors
        /\ \E n \in 1..Smaller(ReadLimit, Available) : push(n)

\* Another user of the reader may push what it has.
PushAnything == \E n \in 1..Smaller(PushBound, Available) : push(n)

----------------------------------------------------------------------------
(* try_decode.                                                              *)

\* The packets that begin with the first byte of the buffer.
Heads == {k \in DOMAIN wire : start[k] = buf[1]}
Aligned == Heads # {}
HeadKind == wire[CHOOSE k \in Heads : TRUE]

\* What decode_fixed_header makes of the buffer.
decode_fixed_header ==
    IF ~Aligned \/ HeadKind.defect = "first" THEN "Malformed"
    ELSE IF Len(buf) < HeadKind.header_len THEN "unexpected end of data"
    ELSE IF HeadKind.defect = "header" THEN "Malformed" ELSE "header"

\* Mutant: a packet of exactly the limit is refused.
TooLarge_at_limit(len) == len >= max_packet_size
TooLarge(len) == len > max_packet_size

Returns(result) == outcome' = result /\ UNCHANGED <<wire, start, fed, overflow>>
Keep == UNCHANGED <<buf, decoded>>

\* Mutant: the buffer is cleared, the start of the next packet with it.
Rest_cleared(len) == << >>
Rest(len) == SubSeq(buf, len + 1, Len(buf))

\* Mutant: a packet needs one byte of the next one.
Complete_behind(len) == Len(buf) > len
Complete(len) == Len(buf) >= len

InBody(len) == state' = "ReadingBody" /\ total_len' = len

\* Packet::decode fails: the reader stays where it is.
BadBody(len) == InBody(len) /\ Keep

\* The state ReadingBody for a packet of that length.
reading_body(len) ==
    \/ /\ ~Complete(len)
       /\ InBody(len) /\ Keep
       /\ Returns("None")
    \/ /\ Complete(len) /\ HeadKind.defect = "body"
       /\ BadBody(len)
       /\ Returns("Malformed")
    \/ /\ Complete(len) /\ HeadKind.defect # "body"
       /\ state' = "ReadingHeader" /\ total_len' = NoPacket
       /\ decoded' = Append(decoded, [from |-> buf[1], upto |-> buf[len]])
       /\ buf' = Rest(len)
       /\ Returns("Some")

Stay(result) == /\ UNCHANGED <<state, total_len>>
                /\ Keep
                /\ Returns(result)

try_decode ==
    \/ overflow /\ Stay("PacketTooLarge")
    \/ /\ ~overflow /\ state = "ReadingHeader"
       /\ \/ buf = << >> /\ Stay("None")
          \/ /\ buf # << >>
             /\ \/ decode_fixed_header = "unexpected end of data" /\ Stay("None")
                \/ decode_fixed_header = "Malformed" /\ Stay("Malformed")
                \/ /\ decode_fixed_header = "header"
                   /\ \/ TooLarge(HeadKind.total_len) /\ Stay("PacketTooLarge")
                      \/ ~TooLarge(HeadKind.total_len) /\ reading_body(HeadKind.total_len)
    \/ ~overflow /\ state = "ReadingBody" /\ reading_body(total_len)

----------------------------------------------------------------------------
BrokerSends == /\ Len(wire) < WireBound
               /\ \E kind \in PacketKinds :
                    /\ wire' = Append(wire, kind)
                    /\ start' = Append(start, start[Len(start)] + kind.total_len)
               /\ UNCHANGED <<fed, buf, state, total_len, overflow, decoded, outcome>>

\* with_max_packet_size
Init == /\ wire = << >> /\ start = <<0>> /\ fed = 0
        /\ buf = << >> /\ state = "ReadingHeader" /\ total_len = NoPacket
        /\ overflow = FALSE /\ decoded = << >> /\ outcome = "nothing"

Next == BrokerSends \/ Read \/ PushAnything \/ try_decode

Spec == Init /\ [][Next]_vars

\* Both clients call try_decode until it returns None, read, and start over.
FairSpec == Spec /\ WF_vars(try_decode) /\ WF_vars(Read)

----------------------------------------------------------------------------
(* Properties.                                                              *)

\* Every variable has its type.
TypeOK == /\ wire \in Seq(PacketKinds)
          /\ start \in Seq(Nat) /\ Len(start) = Len(wire) + 1
          /\ fed \in Nat /\ buf \in Seq(Nat)
          /\ state \in {"ReadingHeader", "ReadingBody"} /\ total_len \in Nat
          /\ overflow \in BOOLEAN
          /\ decoded \in Seq([from : Nat, upto : Nat])
          /\ outcome \in Outcomes

\* The packets try_decode returns are those of the stream, each from its first to
\* its last byte, in order, none skipped, however the bytes were split into reads.
FramesInOrder ==
    /\ Len(decoded) <= Len(wire)
    /\ \A k \in DOMAIN decoded :
         decoded[k] = [from |-> start[k], upto |-> start[k + 1] - 1]

\* The reader holds no more than one packet of the largest size it accepts, also for a
\* caller that pushes more than the capacity; and when try_decode asks for more data
\* there is room for it (frame.rs: "Ok(None) if more data is needed"), so that a client
\* that reads only what fits cannot be stuck.
RoomForMore == /\ Len(buf) <= max_packet_size
               /\ outcome = "None" /\ ~overflow => remaining_capacity > 0

\* A caller that respects the capacity is told that a packet is too large, or is
\* malformed, only for the packet after those it got that is so.
ErrorsJustified ==
    outcome \in Errors /\ ~overflow =>
        LET next == Len(decoded) + 1 IN
        /\ next \in DOMAIN wire
        /\ IF outcome = "Malformed" THEN wire[next].defect # "none"
           ELSE wire[next].total_len > max_packet_size

\* No packet is returned after an error: what follows is not trusted.
ErrorsFinal == [][(outcome \in Errors) => decoded' = decoded]_vars

Good(kind) == kind.defect = "none" /\ kind.total_len <= max_packet_size

\* A packet behind good ones only, and good itself, is decoded in the end unless a
\* caller pushed more than the capacity.
GoodPacketsDecoded ==
    \A k \in 1..WireBound :
        (Len(wire) >= k /\ \A j \in 1..k : Good(wire[j])) ~> (Len(decoded) >= k \/ overflow)
=============================================================================
