----------------------------- MODULE Operations -----------------------------
(***************************************************************************)
(* What a caller of AsyncMqttClient is promised (the signatures and docs   *)
(* of publish, subscribe, unsubscribe and disconnect), with no driver, no  *)
(* packets and no time: a call is answered at most once and for good, a    *)
(* dropped future is never answered, and an operation that the broker has  *)
(* to acknowledge succeeds only once the broker has acknowledged it.       *)
(***************************************************************************)
CONSTANTS
    Ops,
    Acknowledged      \* the operations that wait for an acknowledgement

VARIABLES
    op,               \* what the future of each operation sees
    acked             \* the operations the broker acknowledged with success

vars == <<op, acked>>

Errors == {"AckRejected", "Timeout", "QueueFull", "PacketTooLarge", "Invalid", "Malformed",
           "ClientClosed", "ConnectionClosed"}

Init == op = [o \in Ops |-> "idle"] /\ acked = {}

\* A call waits, or fails at once.
Call(o) == /\ op[o] = "idle"
           /\ \E result \in {"waiting"} \cup Errors : op' = [op EXCEPT ![o] = result]
           /\ UNCHANGED acked

\* The caller drops the future.
Abandon(o) == op[o] = "waiting" /\ op' = [op EXCEPT ![o] = "dropped"] /\ UNCHANGED acked

\* The broker acknowledges an operation that was called.
Acknowledge(o) == op[o] # "idle" /\ acked' = acked \cup {o} /\ UNCHANGED op

Succeeds(o) == o \in Acknowledged => o \in acked

\* Some of the waiting operations are answered, all at once when the driver ends.
Settle == /\ op' = [o \in Ops |-> op'[o]]
          /\ \A o \in Ops : \/ op'[o] = op[o]
                            \/ op[o] = "waiting" /\ op'[o] \in Errors
                            \/ op[o] = "waiting" /\ op'[o] = "Ok" /\ Succeeds(o)
          /\ UNCHANGED acked

Next == (\E o \in Ops : Call(o) \/ Abandon(o) \/ Acknowledge(o)) \/ Settle

Spec == Init /\ [][Next]_vars
=============================================================================
