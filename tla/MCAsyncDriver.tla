--------------------------- MODULE MCAsyncDriver ---------------------------
(* Instances of AsyncDriver for TLC.  A request of these instances is well   *)
(* formed unless it says otherwise; the length of a frame is in bytes.       *)
EXTENDS AsyncDriver

Good(kind, len) == [kind |-> kind, len |-> len, payload |-> 0, defect |-> "none"]
Bad(kind, defect) == [kind |-> kind, len |-> 1, payload |-> 0, defect |-> defect]

NoMessages == << >>
TwoMessages == <<0, 1>>

\* More acknowledged operations than packet identifiers, and one that cannot be encoded;
\* a frame fills the outbound queue.
AckOps == {"p1", "p2", "u1", "q1"}
AckRequest == [p1 |-> Good("PublishQos1", 4), p2 |-> Good("PublishQos1", 4),
               u1 |-> Good("Unsubscribe", 4), q1 |-> Bad("PublishQos0", "encode")]

\* One operation of every life: acknowledged, written, refused for its payload, and the
\* end of the session.
EndOps == {"p1", "q1", "d1", "big"}
EndRequest == [p1 |-> Good("PublishQos1", 2), q1 |-> Good("PublishQos0", 2),
               d1 |-> Good("Disconnect", 2),
               big |-> [kind |-> "PublishQos0", len |-> 12, payload |-> 11, defect |-> "none"]]

\* The same with an acknowledgement that can be malformed.
CodedOps == {"s1", "q1", "d1"}
CodedRequest == [s1 |-> Good("Subscribe", 2), q1 |-> Good("PublishQos0", 2),
                 d1 |-> Good("Disconnect", 2)]

\* One publication.
OneOp == {"p1"}
OneRequest == [p1 |-> Good("PublishQos1", 2)]
=============================================================================
