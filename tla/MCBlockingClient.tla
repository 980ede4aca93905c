--------------------------- MODULE MCBlockingClient ---------------------------
(* Instances of BlockingClient.                                                *)
EXTENDS BlockingClient, TLC

CONSTANTS o1, o2, o3, o4, none

Asks(kind, len) == [kind |-> kind, len |-> len, defect |-> "none"]
Bad(kind, defect) == [kind |-> kind, len |-> 8, defect |-> defect]

\* Two calls that share identifiers.
SessionRequest == o1 :> Asks("PublishQos1", 8) @@ o2 :> Asks("PublishQos1", 8)
\* A call that waits, calls that fail before they are sent, and one without an answer.
RefusedRequest == o1 :> Asks("Subscribe", 8) @@ o2 :> Asks("PublishQos0", 4)
                  @@ o3 :> Bad("PublishQos1", "encode") @@ o4 :> Bad("Unsubscribe", "validate")
OneRequest == o1 :> Asks("PublishQos1", 8)
OneQos1 == <<1>>
Qos1Then0 == <<1, 0>>
=============================================================================
