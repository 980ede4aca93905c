------------------------- MODULE MCRequestResponse -------------------------
(* Instances of RequestResponse for TLC.                                     *)
EXTENDS RequestResponse

CONSTANTS r1, r2, u1, u2, d1, k1, k2, t1

Asks(c, qos, timeout, defect) ==
    [correlation_data |-> c, response_topic |-> t1, qos |-> qos, timeout |-> timeout,
     defect |-> defect]

\* Two requests on one topic; the second has the shorter deadline.
TwoAsks == [r \in {r1, r2} |-> IF r = r1 THEN Asks(k1, 1, 2, "none") ELSE Asks(k2, 1, 1, "none")]
NoOps == Empty

\* One request beside an unsubscribe of its topic and a disconnect.
OneAsk == [r \in {r1} |-> Asks(k1, 1, 2, "none")]
MixedOps == [o \in {u1, d1} |-> IF o = u1 THEN "Unsubscribe" ELSE "Disconnect"]
OnTopic == [o \in {u1, d1} |-> t1]

\* Two operations that use the identifiers up, beside the same request.
TwoUnsubscribes == [o \in {u1, u2} |-> "Unsubscribe"]
TwoTopics == [o \in {u1, u2} |-> t1]
=============================================================================
