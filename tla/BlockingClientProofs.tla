------------------------ MODULE BlockingClientProofs ------------------------
(***************************************************************************)
(* Proofs about BlockingClient for every set of calls, every limit and     *)
(* every bound: that a call that succeeds was acknowledged by the broker,  *)
(* and that a broker that keeps to the protocol is never accused of        *)
(* breaking it.                                                            *)
(***************************************************************************)
EXTENDS BlockingClientTypeProofs

----------------------------------------------------------------------------
(* A call in progress has a connection, and one that waits for its          *)
(* acknowledgement sent a request that the broker's limit let pass.          *)

Shape == /\ pc \in {"decode", "read"} <=> call # NoCall
         /\ pc = "new" => ~connected
         /\ call # NoCall => (connected <=> call # "connect")
         /\ Waiting => Acknowledged(call) /\ Request[call].len <= max_outbound_packet_size

\* Something can still be read that a call would take for its answer.
Live == connected \/ call = "connect" \/ pc = "new"

\* The i-th packet on its way is one that the protocol allows: the CONNACK comes first,
\* and an acknowledgement is that of the call that waits.
Expected(packet, i) ==
    /\ packet.type \notin {"OTHER", "BAD"} /\ packet.code # "malformed"
    /\ packet.type = "CONNACK" => i = 1 /\ ~connected
    /\ packet.type \in AckTypes => Matches(packet) /\ (packet.code = "ok" => call \in acked)

\* What is on its way, in both directions, during a session: at most one of the request of
\* the call that waits and of its acknowledgement.
Session ==
    /\ broker \in {"listening", "connecting"} => ~connected /\ inbound = << >>
    /\ \A i \in DOMAIN inbound : Expected(inbound[i], i)
    /\ \A i, j \in DOMAIN inbound :
         inbound[i].type \in AckTypes /\ inbound[j].type \in AckTypes => i = j
    /\ \A frame \in unacked :
         /\ Waiting /\ frame = Frame(TypeFor(Request[call].kind), wait_id, call, Request[call].len)
         /\ \A i \in DOMAIN inbound : inbound[i].type \notin AckTypes

\* What the calls returned so far.
Results ==
    /\ \A o \in Ops : /\ op[o] \notin {"UnexpectedPacket", "Malformed"}
                      /\ Acknowledged(o) /\ op[o] = "Ok" => o \in acked
    /\ recv_result \notin {"UnexpectedPacket", "Malformed"}

Honest == strays = 0 => (Live => Session) /\ Results
Inv == Types /\ Shape /\ Honest

\* A step that leaves the call in progress and the stream alone.
LEMMA SessionKept ==
    ASSUME Session, UNCHANGED <<call, wait_id, inbound, connected, unacked, acked, broker>>
    PROVE  Session'
BY DEF Session, Expected, Matches, Waiting

\* A step before and after which no call waits for an acknowledgement.
LEMMA SessionIdle ==
    ASSUME Session, ~Waiting, ~Waiting', UNCHANGED <<inbound, connected, unacked>>,
           \/ broker' \in {broker, "closed"}
           \/ broker = "listening" /\ broker' = "connecting"
    PROVE  Session'
<1>1. \A i \in DOMAIN inbound : inbound[i].type \notin AckTypes
  BY DEF Session, Expected, Matches
<1>2. unacked = {}
  BY DEF Session
<1>3. \A i \in DOMAIN inbound : Expected(inbound[i], i)'
  BY <1>1 DEF Session, Expected
<1>4. broker' \in {"listening", "connecting"} => ~connected /\ inbound = << >>
  BY DEF Session
<1> QED BY <1>1, <1>2, <1>3, <1>4 DEF Session

\* A packet is taken from the stream; if its call ends with it and waited, it is the
\* acknowledgement.
LEMMA SessionTaken ==
    ASSUME Types, Session, framed > 0, Taken, UNCHANGED <<unacked, acked, broker, published>>,
           \/ UNCHANGED <<call, wait_id>>
           \/ call' = NoCall /\ (~Waiting \/ Head(inbound).type \in AckTypes)
    PROVE  Session'
<1>1. /\ Head(inbound) = inbound[1] /\ 1 \in DOMAIN inbound /\ inbound # << >>
      /\ \A i \in DOMAIN inbound' : i + 1 \in DOMAIN inbound /\ inbound'[i] = inbound[i + 1]
      /\ WireTypes'
  BY TakenTypes DEF Types
<1>2. \A i \in DOMAIN inbound' : i \in Nat /\ i + 1 # 1
  BY <1>1 DEF WireTypes
<1>3. broker' \notin {"listening", "connecting"}
  BY <1>1 DEF Session
<1>4. \A i \in DOMAIN inbound' : /\ inbound'[i].type \notin {"OTHER", "BAD", "CONNACK"}
                                /\ inbound'[i].code # "malformed"
  BY <1>1, <1>2 DEF Session, Expected
<1>5. CASE UNCHANGED <<call, wait_id>>
  <2>1. (\A i \in DOMAIN inbound : Expected(inbound[i], i))'
    <3>1. \A i \in DOMAIN inbound' : inbound'[i].type \in AckTypes =>
             Matches(inbound[i + 1]) /\ (inbound[i + 1].code = "ok" => call \in acked)
      BY <1>1 DEF Session, Expected
    <3>2. \A i \in DOMAIN inbound' : inbound'[i].type \in AckTypes =>
             Waiting' /\ inbound'[i].type = AckTypeFor(TypeFor(Request[call'].kind))
             /\ inbound'[i].id = wait_id' /\ (inbound'[i].code = "ok" => call' \in acked')
      BY <1>1, <1>5, <3>1 DEF Matches, Waiting
    <3> QED BY <1>4, <3>2 DEF Expected, Matches
  <2>2. \A i, j \in DOMAIN inbound' :
          inbound'[i].type \in AckTypes /\ inbound'[j].type \in AckTypes => i = j
    <3> SUFFICES ASSUME NEW i \in DOMAIN inbound', NEW j \in DOMAIN inbound',
                        inbound'[i].type \in AckTypes, inbound'[j].type \in AckTypes
                 PROVE  i = j
      OBVIOUS
    <3>1. i + 1 = j + 1
      BY <1>1 DEF Session
    <3> QED BY <3>1, <1>2
  <2> QED BY <1>1, <1>3, <1>5, <2>1, <2>2 DEF Session, Waiting
<1>6. CASE call' = NoCall /\ (~Waiting \/ Head(inbound).type \in AckTypes)
  <2>1. \A i \in DOMAIN inbound' : inbound'[i].type \notin AckTypes
    <3>1. CASE ~Waiting
      BY <3>1, <1>1 DEF Session, Expected, Matches
    <3>2. CASE Head(inbound).type \in AckTypes
      BY <3>2, <1>1, <1>2 DEF Session
    <3> QED BY <1>6, <3>1, <3>2
  <2>2. unacked' = {}
    BY <1>1, <1>6 DEF Session
  <2> QED BY <1>3, <1>4, <2>1, <2>2 DEF Session, Expected
<1> QED BY <1>5, <1>6

\* What a call returns is justified when it does not accuse the broker, and success was
\* acknowledged.
LEMMA ResultsAnswer ==
    ASSUME Results, CallTypes, NEW c \in Ops \cup {NoCall, "connect", "recv"}, NEW result,
           Answer(c, result), acked' = acked,
           c \in Ops \cup {"recv"} => result \notin {"UnexpectedPacket", "Malformed"},
           c \in Ops /\ Acknowledged(c) /\ result = "Ok" => c \in acked
    PROVE  Results'
<1>1. ASSUME NEW o \in Ops
      PROVE  op'[o] = (IF o = c THEN result ELSE op[o])
  BY <1>1, ClientAssumption DEF Answer, CallTypes
<1>2. recv_result' \notin {"UnexpectedPacket", "Malformed"}
  BY DEF Answer, Results
<1> QED BY <1>1, <1>2 DEF Results, Acknowledged

\* A call that ends leaves no call; one that goes on keeps its connection.
LEMMA ShapeAnswer ==
    ASSUME NEW c \in Ops \cup {NoCall, "connect", "recv"}, NEW result, Answer(c, result)
    PROVE  Shape' /\ call' = NoCall /\ pc' \in {"app", "gone"} /\ ~Waiting'
BY ClientAssumption DEF Shape, Answer, Waiting

\* A call that goes on.
LEMMA ShapeKept ==
    ASSUME Shape, pc \in {"decode", "read"}, pc' \in {"decode", "read"},
           UNCHANGED <<call, connected, max_outbound_packet_size>>
    PROVE  Shape'
BY DEF Shape, Waiting, Acknowledged

\* While a call waits for its acknowledgement, a PUBACK and a PINGREQ are never too large.
LEMMA RoomWhileWaiting ==
    ASSUME Types, Shape, Waiting PROVE ~TooLarge(PubAckLen) /\ ~TooLarge(ShortLen)
<1>1. max_outbound_packet_size \in Nat
  BY ClientAssumption, SMT DEF Types, ClientTypes, MQTT_MAX_PACKET_SIZE
<1>2. Request[call].len \in Nat /\ Request[call].len > PubAckLen
  BY ClientAssumption DEF Shape, Waiting, Acknowledged
<1>3. PubAckLen \in Nat /\ ShortLen < PubAckLen /\ ShortLen \in Nat
  BY DEF PubAckLen, ShortLen
<1>4. Request[call].len <= max_outbound_packet_size
  BY DEF Shape
<1> QED BY <1>1, <1>2, <1>3, <1>4 DEF TooLarge

\* Every step keeps the shape of a call.
LEMMA ShapeNext == Types /\ Shape /\ [Next]_vars => Shape'
<1> SUFFICES ASSUME Types, Shape, [Next]_vars PROVE Shape'
  OBVIOUS
<1> USE ClientAssumption
<1>1. call \in Ops \cup {NoCall, "connect", "recv"}
  BY CallKnown DEF Types
<1>2. ASSUME NEW result, Returns(result) PROVE Shape'
  BY <1>1, <1>2, ShapeAnswer DEF Returns
<1>3. CASE connect
  <2>1. CASE Answer("connect", "Io")
    BY <2>1, ShapeAnswer
  <2>2. CASE pc' = "decode" /\ call' = "connect" /\ Sent(Frame("CONNECT", 0, NoCall, 1))
    BY <1>3, <2>2 DEF connect, Sent, Shape, Waiting
  <2> QED BY <1>3, <2>1, <2>2 DEF connect
<1>4. ASSUME NEW o \in Ops, publish_qos0(o) PROVE Shape'
  <2>1. \E result : Answer(o, result)
    BY <1>4 DEF publish_qos0, Refuse
  <2> QED BY <2>1, ShapeAnswer
<1>5. ASSUME NEW o \in Ops, call_acknowledged(o) PROVE Shape'
  <2> DEFINE frame == Frame(TypeFor(Request[o].kind), next_packet_id, o, Request[o].len)
  <2>1. CASE \E result : Answer(o, result)
    BY <2>1, ShapeAnswer
  <2>2. CASE /\ Refusal(o) = "none" /\ Unsendable(o) = "none" /\ Sent(frame)
             /\ pc' = "decode" /\ call' = o
    <3>1. connected /\ connected' = connected /\ ~TooLarge(Request[o].len)
      BY <2>2 DEF Refusal, Unsendable, Sent
    <3>2. Acknowledged(o) /\ UNCHANGED max_outbound_packet_size
      BY <1>5 DEF call_acknowledged, Calls, Acknowledged
    <3>3. Request[o].len \in Nat /\ max_outbound_packet_size \in Nat
      BY SMT DEF Types, ClientTypes, MQTT_MAX_PACKET_SIZE
    <3>4. Request[o].len <= max_outbound_packet_size'
      BY <3>1, <3>2, <3>3 DEF TooLarge
    <3> QED BY <2>2, <3>1, <3>2, <3>4 DEF Shape, Waiting, Acknowledged
  <2> QED BY <1>5, <2>1, <2>2 DEF call_acknowledged, Refuse
<1>6. CASE recv
  <2>1. CASE \E result : Answer("recv", result)
    BY <2>1, ShapeAnswer
  <2>2. CASE connected /\ pc' = "decode" /\ call' = "recv" /\ UNCHANGED stateVars
    BY <2>2 DEF Shape, Waiting, stateVars
  <2> QED BY <1>6, <2>1, <2>2 DEF recv
<1>7. CASE disconnect
  <2>1. call' = call /\ pc' = "gone" /\ pc = "app"
    BY <1>7 DEF disconnect
  <2> QED BY <2>1 DEF Shape, Waiting
<1>8. ASSUME UNCHANGED <<pc, call, connected, max_outbound_packet_size>> PROVE Shape'
  BY <1>8 DEF Shape, Waiting, Acknowledged
<1>9. CASE Decode
  <2>1. CASE \E result : Returns(result)
    BY <2>1, <1>2
  <2>2. CASE KeepCall /\ UNCHANGED <<connected, max_outbound_packet_size>>
    BY <2>2, <1>8 DEF KeepCall, callVars
  <2>3. ASSUME NEW m, Accepted(m) PROVE KeepCall \/ \E result : Returns(result)
    BY <2>3 DEF Accepted
  <2>4. DecodePublish => \/ \E result : Returns(result)
                         \/ SameLimit /\ UNCHANGED connected /\ Accepted(Head(inbound).id)
    BY DEF DecodePublish, Sent
  <2>6. CASE DecodePublish
    BY <2>1, <2>2, <2>3, <2>4, <2>6 DEF SameLimit
  <2>7. CASE DecodePingResp
    BY <2>1, <2>2, <2>7 DEF DecodePingResp, SameLimit
  <2> QED BY <1>9, <2>1, <2>6, <2>7 DEF Decode, DecodeFails, DecodeConnAck, DecodeAck,
                                        DecodeUnexpected, DecodeDisconnect
<1>10. CASE Timers \/ Reads
  <2>1. CASE \E result : Returns(result)
    BY <2>1, <1>2
  <2>2. CASE /\ pc \in {"decode", "read"} /\ pc' \in {"decode", "read"}
             /\ UNCHANGED <<call, connected, max_outbound_packet_size>>
    BY <2>2, ShapeKept
  <2>3. Timers => (\E result : Returns(result)) \/
                  (pc = "decode" /\ ToRead /\ UNCHANGED connected /\ SameLimit)
    BY DEF Timers, TimeoutCall, TimeoutPing, SendPing, NoTimer, TimerStep, Sent
  <2>4. Reads => (\E result : Returns(result)) \/
                 (pc = "read" /\ ToDecode /\ UNCHANGED stateVars)
    BY DEF Reads, ReadSome, ReadTimesOut, ReadInterrupted, ReadEof, ReadFails, NoPacketRead,
           Disconnected
  <2> QED BY <1>10, <2>1, <2>2, <2>3, <2>4 DEF ToRead, ToDecode, SameLimit, stateVars
<1>11. CASE Broker
  <2>1. UNCHANGED <<callVars, stateVars>>
    BY <1>11 DEF Broker, BrokerConnAck, BrokerAck, BrokerPingResp, BrokerPublish, BrokerLeaves,
                 BrokerStrays, BrokerSends
  <2> QED BY <2>1, <1>8 DEF callVars, stateVars
<1>12. CASE Tick
  BY <1>12, <1>8 DEF Tick
<1>13. CASE UNCHANGED vars
  BY <1>13, <1>8 DEF vars, callVars, stateVars
<1> QED BY <1>3, <1>4, <1>5, <1>6, <1>7, <1>9, <1>10, <1>11, <1>12, <1>13
        DEF Next, Application, Gone

\* A frame that asks for no acknowledgement.
LEMMA SentQuietly ==
    ASSUME NEW frame, Sent(frame) \/ SendFails(frame), frame.id = 0 \/ frame.type = "PUBACK"
    PROVE  /\ UNCHANGED <<unacked, acked, strays, published>>
           /\ frame.type \notin {"CONNECT", "DISCONNECT"} => broker' = broker
           /\ \/ broker' \in {broker, "closed"}
              \/ broker = "listening" /\ broker' = "connecting"
<1>1. CASE Deliver(frame)
  BY <1>1 DEF Deliver
<1>2. CASE UNCHANGED brokerVars
  BY <1>2 DEF brokerVars
<1> QED BY <1>1, <1>2 DEF Sent, SendFails

\* A call that fails for a reason of its own and ends the session.
LEMMA FailureEnds ==
    ASSUME Inv, NEW c \in Ops \cup {NoCall, "connect", "recv"}, NEW result, Answer(c, result),
           c \in Ops \cup {"recv"} => result \notin {"UnexpectedPacket", "Malformed", "Ok"},
           ~connected', UNCHANGED <<acked, strays>>
    PROVE  Honest'
<1>1. ~Live'
  BY ShapeAnswer, ClientAssumption DEF Live
<1>2. strays = 0 => Results'
  BY ResultsAnswer DEF Inv, Honest, Types
<1> QED BY <1>1, <1>2 DEF Honest

\* Between two calls, and before the first, no call waits.
LEMMA NoWaitBetweenCalls == ASSUME Shape, pc \in {"new", "app"} PROVE ~Waiting /\ call = NoCall
BY ClientAssumption DEF Shape, Waiting

\* A call that waits for an acknowledgement starts.
LEMMA HonestAcknowledged ==
    ASSUME Inv, NEW o \in Ops, call_acknowledged(o) PROVE Honest'
<1> DEFINE frame == Frame(TypeFor(Request[o].kind), next_packet_id, o, Request[o].len)
<1>1. pc = "app" /\ ~Waiting /\ call = NoCall /\ Shape /\ CallTypes
  BY NoWaitBetweenCalls DEF call_acknowledged, Calls, Inv, Types
<1>2. ASSUME NEW result, Refuse(o, result), result \in Failures,
             result \notin {"UnexpectedPacket", "Malformed"}, UNCHANGED inbound
      PROVE  Honest'
  <2>1. UNCHANGED <<connected, brokerVars>> /\ Answer(o, result)
    BY <1>2 DEF Refuse
  <2>2. UNCHANGED <<broker, unacked, acked, strays>>
    BY <2>1 DEF brokerVars
  <2>3. strays = 0 => Results'
    BY <1>1, <1>2, <2>1, <2>2, ResultsAnswer DEF Inv, Honest, Failures
  <2>4. Live' => Live
    BY <2>1, ShapeAnswer, ClientAssumption DEF Live
  <2>5. ~Waiting'
    BY <2>1, ShapeAnswer
  <2>6. Session => Session'
    BY <1>1, <1>2, <2>1, <2>2, <2>5, SessionIdle
  <2> QED BY <2>2, <2>3, <2>4, <2>6 DEF Honest, Inv
<1>3. CASE SendFails(frame) /\ \E error \in WriteErrors : Answer(o, error)
  <2>1. ~connected' /\ UNCHANGED <<acked, strays>>
    BY <1>3 DEF SendFails, Deliver, brokerVars
  <2> QED BY <1>3, <2>1, FailureEnds DEF WriteErrors
<1>4. CASE /\ Refusal(o) = "none" /\ Sent(frame)
           /\ pc' = "decode" /\ call' = o /\ wait_id' = next_packet_id
           /\ op' = [op EXCEPT ![o] = "waiting"] /\ UNCHANGED <<recv_result, inbound>>
  <2>1. connected /\ connected' = connected /\ Deliver(frame)
    BY <1>4 DEF Refusal, Sent
  <2>2. /\ frame.type \notin {"CONNECT", "DISCONNECT"}
        /\ UNCHANGED <<acked, strays>> /\ unacked' \subseteq unacked \cup {frame}
    <3>1. frame.type = TypeFor(Request[o].kind)
      BY DEF Frame
    <3>2. TypeFor(Request[o].kind) \in {"PUBLISH", "SUBSCRIBE", "UNSUBSCRIBE"}
      BY ClientAssumption DEF TypeFor, RequestKinds
    <3> QED BY <2>1, <3>1, <3>2 DEF Deliver
  <2>3. broker' = broker
    BY <2>1, <2>2 DEF Deliver
  <2> HIDE DEF frame
  <2>4. ASSUME Results PROVE Results'
    <3>1. \A p \in Ops : op'[p] = op[p] \/ op'[p] = "waiting"
      BY <1>1, <1>4 DEF CallTypes
    <3> QED BY <1>4, <2>2, <2>4, <3>1 DEF Results, Acknowledged
  <2>5. ASSUME Session PROVE Session'
    <3>1. unacked = {} /\ \A i \in DOMAIN inbound : inbound[i].type \notin AckTypes
      BY <1>1, <2>5 DEF Session, Expected, Matches
    <3>2. (\A i \in DOMAIN inbound : Expected(inbound[i], i))'
      BY <1>4, <2>1, <2>5, <3>1 DEF Session, Expected
    <3>3. \A f \in unacked' : /\ f = Frame(TypeFor(Request[call'].kind), wait_id', call', Request[call'].len)
                             /\ Waiting'
      BY <1>4, <2>2, <3>1 DEF frame, Waiting
    <3> QED BY <1>4, <2>1, <2>3, <2>5, <3>1, <3>2, <3>3 DEF Session
  <2>6. Live
    BY <2>1 DEF Live
  <2> QED BY <2>2, <2>4, <2>5, <2>6 DEF Honest, Inv
<1> QED
  BY <1>2, <1>3, <1>4 DEF call_acknowledged, Refusal, Unsendable, Failures

\* The other calls.
LEMMA HonestApplication == Inv /\ Application => Honest'
<1> SUFFICES ASSUME Inv, Application PROVE Honest'
  OBVIOUS
<1> USE ClientAssumption
<1>1. pc \in {"new", "app"} => ~Waiting /\ call = NoCall
  BY NoWaitBetweenCalls DEF Inv
<1>2. ASSUME pc \in {"new", "app"}, ~Waiting', UNCHANGED <<inbound, connected, unacked, acked, strays>>,
             \/ broker' \in {broker, "closed"}
             \/ broker = "listening" /\ broker' = "connecting",
             Live' => Live, Results => Results'
      PROVE  Honest'
  BY <1>1, <1>2, SessionIdle DEF Honest, Inv
<1>3. ASSUME UNCHANGED <<op, recv_result, acked>>, Results PROVE Results'
  BY <1>3 DEF Results, Acknowledged
<1>4. CASE connect
  <2> DEFINE frame == Frame("CONNECT", 0, NoCall, 1)
  <2>1. frame.id = 0 /\ frame.type = "CONNECT"
    BY DEF Frame
  <2>2. CASE SendFails(frame) /\ Answer("connect", "Io")
    <3>1. ~connected' /\ UNCHANGED <<acked, strays>>
      BY <2>1, <2>2, SentQuietly DEF SendFails
    <3> QED BY <2>2, <3>1, FailureEnds
  <2>3. CASE Sent(frame) /\ call' = "connect" /\ UNCHANGED <<op, recv_result, inbound>>
    <3>1. /\ UNCHANGED <<connected, unacked, acked, strays>>
          /\ \/ broker' \in {broker, "closed"}
             \/ broker = "listening" /\ broker' = "connecting"
      BY <2>1, <2>3, SentQuietly DEF Sent
    <3>2. pc = "new" /\ Live /\ ~Waiting'
      BY <1>4, <2>3 DEF connect, Live, Waiting
    <3> QED BY <1>2, <1>3, <2>3, <3>1, <3>2
  <2> QED BY <1>4, <2>2, <2>3 DEF connect
<1>5. ASSUME NEW o \in Ops, publish_qos0(o) PROVE Honest'
  <2> DEFINE frame == Frame("PUBLISH", 0, o, Request[o].len)
  <2>1. frame.id = 0 /\ frame.type = "PUBLISH"
    BY DEF Frame
  <2> HIDE DEF frame
  <2>2. pc = "app" /\ ~Acknowledged(o) /\ UNCHANGED inbound
    BY <1>5 DEF publish_qos0, Calls, Acknowledged
  <2>3. PICK result \in {"Ok", "ClientClosed", "Invalid", "PacketTooLarge", "Io", "Timeout"} :
               /\ Answer(o, result)
               /\ \/ UNCHANGED <<connected, brokerVars>>
                  \/ Sent(frame)
                  \/ SendFails(frame) /\ result # "Ok"
    BY <1>5 DEF publish_qos0, Refuse, Refusal, Unsendable, WriteErrors, frame
  <2>4. /\ UNCHANGED <<unacked, acked, strays>>
        /\ broker' = broker
    <3>1. CASE UNCHANGED <<connected, brokerVars>>
      BY <3>1 DEF brokerVars
    <3>2. CASE Sent(frame) \/ SendFails(frame)
      BY <3>2, <2>1, SentQuietly
    <3> QED BY <2>3, <3>1, <3>2
  <2>5. connected' = connected \/ (~connected' /\ result # "Ok")
    BY <2>3 DEF Sent, SendFails
  <2>6. Results => Results'
    BY <2>2, <2>3, <2>4, ResultsAnswer DEF Inv, Types
  <2>7. ~Waiting' /\ (Live' => connected')
    BY <2>3, ShapeAnswer DEF Live
  <2>8. CASE connected' = connected
    BY <1>2, <2>2, <2>4, <2>6, <2>7, <2>8 DEF Live
  <2>9. CASE ~connected' /\ result # "Ok"
    BY <2>3, <2>4, <2>9, FailureEnds
  <2> QED BY <2>5, <2>8, <2>9
<1>6. CASE recv
  <2>1. pc = "app" /\ UNCHANGED <<inbound, broker, unacked, acked, strays, connected>>
    BY <1>6 DEF recv, brokerVars, stateVars
  <2>2. CASE \E result \in {"ClientClosed", "Some"} : Answer("recv", result)
    <3>1. Results => Results'
      BY <2>1, <2>2, ResultsAnswer DEF Inv, Types
    <3>2. ~Waiting' /\ (Live' => Live)
      BY <2>1, <2>2, ShapeAnswer DEF Live
    <3> QED BY <1>2, <2>1, <3>1, <3>2
  <2>3. CASE connected /\ call' = "recv" /\ UNCHANGED <<op, recv_result>>
    BY <1>2, <1>3, <2>1, <2>3 DEF Live, Waiting
  <2> QED BY <1>6, <2>2, <2>3 DEF recv
<1>7. CASE disconnect
  <2> DEFINE frame == Frame("DISCONNECT", 0, NoCall, ShortLen)
  <2>1. frame.id = 0 /\ frame.type = "DISCONNECT"
    BY DEF Frame
  <2> HIDE DEF frame
  <2>2. pc = "app" /\ pc' = "gone" /\ UNCHANGED <<call, op, recv_result, inbound>>
    BY <1>7 DEF disconnect
  <2>3. /\ UNCHANGED <<unacked, acked, strays>>
        /\ \/ broker' \in {broker, "closed"}
           \/ broker = "listening" /\ broker' = "connecting"
        /\ connected' = connected \/ ~connected'
    <3>1. CASE UNCHANGED <<connected, idle, brokerVars>>
      BY <3>1 DEF brokerVars
    <3>2. CASE Sent(frame) \/ SendFails(frame)
      BY <3>2, <2>1, SentQuietly DEF Sent, SendFails
    <3> QED BY <1>7, <3>1, <3>2 DEF disconnect, frame
  <2>4. call = NoCall /\ ~Waiting' /\ (Live' => connected')
    BY <1>1, <2>2 DEF Live, Waiting
  <2>5. CASE connected' = connected
    BY <1>2, <1>3, <2>2, <2>3, <2>4, <2>5 DEF Live
  <2>6. CASE ~connected'
    BY <1>3, <2>2, <2>3, <2>4, <2>6 DEF Honest, Inv
  <2> QED BY <2>3, <2>5, <2>6
<1> QED BY <1>4, <1>5, <1>6, <1>7, HonestAcknowledged DEF Application

\* Decoding a packet of a broker that keeps to the protocol accuses it of nothing.
LEMMA HonestDecode == Inv /\ Decode => Honest'
<1> SUFFICES ASSUME Inv, Decode, strays = 0 PROVE Honest'
  <2>1. Decode => strays' = strays
    BY SentQuietly DEF Decode, DecodeFails, DecodePingResp, DecodeConnAck, DecodeAck, DecodeUnexpected,
                       DecodeDisconnect, DecodePublish, NoTraffic, brokerVars, Sent, SendFails, Deliver
  <2> QED BY <2>1 DEF Honest
<1> USE ClientAssumption
<1>1. pc = "decode" /\ framed > 0
  BY DEF Decode, Decodes, DecodeFails, DecodePingResp, DecodeConnAck, DecodeAck, DecodeUnexpected,
         DecodeDisconnect, DecodePublish
<1>2. call # NoCall /\ (connected <=> call # "connect") /\ Live /\ Session /\ Results
  BY <1>1 DEF Inv, Shape, Live, Honest
<1>3. call \in Ops \cup {NoCall, "connect", "recv"}
  BY CallKnown DEF Inv, Types
<1>4. Expected(Head(inbound), 1) /\ Head(inbound) \in Packets
  <2>1. inbound \in Seq(Packets) /\ Len(inbound) > 0
    BY <1>1 DEF Inv, Types, WireTypes
  <2>2. 1 \in DOMAIN inbound /\ Head(inbound) = inbound[1] /\ inbound[1] \in Packets
    BY <2>1
  <2> QED BY <1>2, <2>2 DEF Session
<1> DEFINE Fails == /\ ~connected' /\ UNCHANGED <<acked, strays>>
                    /\ \E result : /\ Returns(result)
                                   /\ call # "connect" => result \notin {"UnexpectedPacket", "Malformed", "Ok"}
           Goes == /\ Taken /\ UNCHANGED <<unacked, acked, broker, published, strays, call, wait_id,
                                           op, recv_result>>
           Ends == /\ Taken /\ UNCHANGED <<unacked, acked, broker, published, strays>>
                   /\ ~Waiting \/ Head(inbound).type \in AckTypes
                   /\ \E result : /\ Returns(result)
                                  /\ call # "connect" => result \notin {"UnexpectedPacket", "Malformed"}
                                  /\ Waiting /\ result = "Ok" => call \in acked
<1>5. ASSUME Fails PROVE Honest'
  BY <1>3, <1>5, FailureEnds DEF Returns
<1>6. ASSUME Goes PROVE Honest'
  <2>1. Session'
    BY <1>1, <1>2, <1>6, SessionTaken DEF Inv
  <2>2. Results'
    BY <1>2, <1>6 DEF Results, Acknowledged
  <2> QED BY <2>1, <2>2 DEF Honest
<1>7. ASSUME Ends PROVE Honest'
  <2>1. PICK result : /\ Returns(result)
                      /\ call # "connect" => result \notin {"UnexpectedPacket", "Malformed"}
                      /\ Waiting /\ result = "Ok" => call \in acked
    BY <1>7
  <2>2. call' = NoCall
    BY <2>1 DEF Returns, Answer
  <2>3. Session'
    BY <1>1, <1>2, <1>7, <2>2, SessionTaken DEF Inv
  <2>4. Results'
    BY <1>2, <1>3, <1>7, <2>1, ResultsAnswer DEF Returns, Inv, Types, Waiting
  <2> QED BY <2>3, <2>4 DEF Honest
<1>8. NoTraffic => UNCHANGED <<unacked, acked, broker, published, strays>>
  BY DEF NoTraffic, brokerVars
<1>9. CASE DecodeFails
  BY <1>4, <1>9 DEF DecodeFails, Decodes, Expected
<1>10. CASE DecodePingResp
  <2>1. CASE call = "connect"
    BY <1>2, <1>5, <1>8, <1>10, <2>1 DEF DecodePingResp
  <2>2. CASE call # "connect"
    BY <1>6, <1>8, <1>10, <2>2 DEF DecodePingResp, KeepCall, callVars
  <2> QED BY <2>1, <2>2
<1>11. CASE DecodeConnAck
  <2>1. Taken /\ NoTraffic /\ call = "connect" /\ ~Waiting /\ ~connected
    BY <1>2, <1>11 DEF DecodeConnAck, Waiting
  <2>2. PICK result : Returns(result)
    BY <1>11 DEF DecodeConnAck
  <2> QED BY <1>7, <1>8, <2>1, <2>2
<1>12. CASE DecodeAck
  <2> DEFINE code == Head(inbound).code
  <2>1. Taken /\ NoTraffic /\ Head(inbound).type \in AckTypes /\ Waiting
    BY <1>12 DEF DecodeAck, Decodes, AckTypes, Matches
  <2>2. code \in {"ok", "rejected"} /\ (code = "ok" => call \in acked)
    BY <1>4, <2>1 DEF Expected, Packets, Codes
  <2>3. Returns(IF code = "ok" THEN "Ok" ELSE "AckRejected")
    BY <1>12, <2>2 DEF DecodeAck
  <2> QED BY <1>7, <1>8, <2>1, <2>2, <2>3
<1>13. CASE DecodeUnexpected
  <2>1. call = "connect"
    BY <1>2, <1>4, <1>13 DEF DecodeUnexpected, Decodes, Expected, AckTypes
  <2> QED BY <1>5, <1>8, <1>13, <2>1 DEF DecodeUnexpected
<1>14. CASE DecodeDisconnect
  BY <1>5, <1>8, <1>14 DEF DecodeDisconnect
<1>15. CASE DecodePublish
  <2> DEFINE m == Head(inbound).id
             ack == Frame("PUBACK", m, NoCall, PubAckLen)
  <2>1. ack.type = "PUBACK" /\ ack.len = PubAckLen
    BY DEF Frame
  <2>2. Taken /\ call # "connect"
    BY <1>15 DEF DecodePublish
  <2>3. \/ /\ connected' = (connected /\ ~Waiting) /\ Returns("QueueFull") /\ NoTraffic
        \/ Accepted(m) /\ (NoTraffic \/ Sent(ack))
        \/ SendFails(ack) /\ \E error \in WriteErrors : Returns(error)
        \/ TooLarge(PubAckLen) /\ Returns("PacketTooLarge") /\ NoTraffic
    BY <1>15 DEF DecodePublish
  <2>4. NoTraffic \/ Sent(ack) \/ SendFails(ack) =>
            UNCHANGED <<unacked, acked, broker, published, strays>>
    BY <1>8, <2>1, SentQuietly
  <2> HIDE DEF m, ack
  <2>5. CASE connected' = (connected /\ ~Waiting) /\ Returns("QueueFull") /\ NoTraffic
    <3>1. CASE Waiting
      <4>1. ~connected'
        BY <2>5, <3>1
      <4> QED BY <1>5, <2>2, <2>4, <2>5, <4>1
    <3>2. CASE ~Waiting
      BY <1>7, <2>2, <2>4, <2>5, <3>2
    <3> QED BY <3>1, <3>2
  <2>6. CASE Accepted(m) /\ (NoTraffic \/ Sent(ack))
    <3>1. CASE call = "recv"
      BY <1>7, <2>2, <2>4, <2>6, <3>1 DEF Accepted, Waiting
    <3>2. CASE call # "recv"
      BY <1>6, <2>2, <2>4, <2>6, <3>2 DEF Accepted, KeepCall, callVars
    <3> QED BY <3>1, <3>2
  <2>7. CASE SendFails(ack) /\ \E error \in WriteErrors : Returns(error)
    <3>1. ~connected'
      BY <2>7 DEF SendFails
    <3> QED BY <1>5, <2>4, <2>7, <3>1 DEF WriteErrors
  <2>8. CASE TooLarge(PubAckLen) /\ Returns("PacketTooLarge") /\ NoTraffic
    <3>1. ~Waiting
      BY <2>8, RoomWhileWaiting DEF Inv
    <3> QED BY <1>7, <2>2, <2>4, <2>8, <3>1
  <2> QED BY <2>3, <2>5, <2>6, <2>7, <2>8
<1> QED BY <1>9, <1>10, <1>11, <1>12, <1>13, <1>14, <1>15 DEF Decode

\* Waiting, for the timers and for data.
LEMMA HonestWait == Inv /\ (Timers \/ Reads) => Honest'
<1> SUFFICES ASSUME Inv, Timers \/ Reads PROVE Honest'
  OBVIOUS
<1> USE ClientAssumption
<1>1. call \in Ops \cup {NoCall, "connect", "recv"} /\ pc \in {"decode", "read"}
  BY CallKnown DEF Inv, Types, Timers, TimeoutCall, TimeoutPing, SendPing, NoTimer, TimerStep, Reads,
                   ReadSome, ReadTimesOut, ReadInterrupted, ReadEof, ReadFails, NoPacketRead, Disconnected
<1>2. Live
  BY <1>1 DEF Inv, Shape, Live
<1>3. ASSUME ~connected', UNCHANGED <<acked, strays>>,
             \E error \in Failures \ {"UnexpectedPacket", "Malformed"} : Returns(error)
      PROVE  Honest'
  BY <1>1, <1>3, FailureEnds DEF Returns, Failures
<1>4. ASSUME UNCHANGED <<call, wait_id, inbound, connected, unacked, acked, broker, strays, op, recv_result>>
      PROVE  Honest'
  BY <1>2, <1>4, SessionKept DEF Honest, Inv, Results, Acknowledged
<1>5. NoTraffic => UNCHANGED <<unacked, acked, broker, strays>>
  BY DEF NoTraffic, brokerVars
<1>6. CASE TimeoutCall \/ TimeoutPing \/ ReadFails \/ ReadEof
  BY <1>3, <1>5, <1>6 DEF TimeoutCall, TimeoutPing, ReadFails, ReadEof, Disconnected, Poison, Failures
<1>7. CASE SendPing
  <2> DEFINE ping == Frame("PINGREQ", 0, NoCall, ShortLen)
  <2>1. ping.id = 0 /\ ping.type = "PINGREQ"
    BY DEF Frame
  <2> HIDE DEF ping
  <2>2. /\ \/ Sent(ping) /\ ToRead
           \/ SendFails(ping) /\ \E error \in WriteErrors : Returns(error)
           \/ TooLarge(ShortLen) /\ Returns("PacketTooLarge") /\ NoTraffic /\ UNCHANGED connected
        /\ UNCHANGED inbound
    BY <1>7 DEF SendPing, TimerStep, ping
  <2>3. Sent(ping) \/ SendFails(ping) => UNCHANGED <<unacked, acked, broker, strays>>
    BY <2>1, SentQuietly
  <2>4. CASE Sent(ping) /\ ToRead
    BY <1>4, <2>2, <2>3, <2>4 DEF Sent, ToRead
  <2>5. CASE SendFails(ping) /\ \E error \in WriteErrors : Returns(error)
    BY <1>3, <2>3, <2>5 DEF SendFails, WriteErrors, Failures
  <2>6. CASE TooLarge(ShortLen) /\ Returns("PacketTooLarge") /\ NoTraffic /\ UNCHANGED connected
    <3>1. ~Waiting /\ ~Waiting'
      BY <1>1, <2>6, RoomWhileWaiting, ShapeAnswer DEF Inv, Returns
    <3>2. Session => Session'
      BY <1>5, <2>2, <2>6, <3>1, SessionIdle
    <3>3. Results => Results'
      BY <1>1, <1>5, <2>6, ResultsAnswer DEF Returns, Inv, Types
    <3> QED BY <1>2, <1>5, <2>6, <3>2, <3>3 DEF Honest, Inv
  <2> QED BY <2>2, <2>4, <2>5, <2>6
<1>8. CASE NoTimer
  BY <1>4, <1>5, <1>8 DEF NoTimer, TimerStep, ToRead
<1>9. CASE ReadSome \/ ReadTimesOut \/ ReadInterrupted
  BY <1>4, <1>9 DEF ReadSome, ReadTimesOut, ReadInterrupted, NoPacketRead, ToDecode, stateVars, brokerVars
<1> QED BY <1>6, <1>7, <1>8, <1>9 DEF Timers, Reads

\* A packet of the broker, other than an acknowledgement, comes into the stream.
LEMMA SessionAppend ==
    ASSUME Types, Session, NEW packet, UNCHANGED <<call, wait_id, connected, unacked, acked>>,
           \A i \in DOMAIN inbound' :
                \/ i \in DOMAIN inbound /\ inbound'[i] = inbound[i]
                \/ i = Len(inbound) + 1 /\ inbound'[i] = packet,
           broker' \notin {"listening", "connecting"},
           packet.type \notin AckTypes \cup {"OTHER", "BAD"}, packet.code # "malformed",
           packet.type = "CONNACK" => ~connected /\ inbound = << >>
    PROVE  Session'
<1>1. (\A i \in DOMAIN inbound : Expected(inbound[i], i))'
  <2> SUFFICES ASSUME NEW i \in DOMAIN inbound' PROVE Expected(inbound[i], i)'
    OBVIOUS
  <2>1. CASE i \in DOMAIN inbound /\ inbound'[i] = inbound[i]
    BY <2>1 DEF Session, Expected, Matches, Waiting
  <2>2. CASE i = Len(inbound) + 1 /\ inbound'[i] = packet
    <3>1. Len(<< >>) = 0
      BY ONLY EmptySeq
    <3>2. inbound = << >> => i = 1
      BY ONLY <2>2, <3>1
    <3> QED BY <2>2, <3>2 DEF Expected
  <2> QED BY <2>1, <2>2
<1>2. \A i \in DOMAIN inbound' : inbound'[i].type \in AckTypes =>
           i \in DOMAIN inbound /\ inbound'[i] = inbound[i]
  OBVIOUS
<1> QED BY <1>1, <1>2 DEF Session, Waiting

\* A broker that keeps to the protocol, and the passage of time.
LEMMA HonestBroker == Inv /\ Broker => Honest'
<1> SUFFICES ASSUME Inv, Broker, strays' = 0 PROVE Honest'
  BY DEF Honest
<1> USE ClientAssumption
<1>1. UNCHANGED <<callVars, stateVars, framed>>
  BY DEF Broker, BrokerConnAck, BrokerAck, BrokerPingResp, BrokerPublish, BrokerLeaves,
         BrokerStrays, BrokerSends
<1>2. UNCHANGED <<call, pc, wait_id, op, recv_result, connected>> /\ Live' = Live
  BY <1>1 DEF callVars, stateVars, Live
<1>3. ASSUME strays' = strays, acked \subseteq acked', Session => Session' PROVE Honest'
  BY <1>2, <1>3 DEF Honest, Inv, Results, Acknowledged
<1>4. ASSUME NEW packet \in Packets, inbound' = Append(inbound, packet)
      PROVE  \A i \in DOMAIN inbound' :
                \/ i \in DOMAIN inbound /\ inbound'[i] = inbound[i]
                \/ i = Len(inbound) + 1 /\ inbound'[i] = packet
  <2>1. inbound \in Seq(Packets)
    BY DEF Inv, Types, WireTypes
  <2> QED BY <1>4, <2>1
<1>5. ASSUME NEW packet \in Packets, BrokerSends(packet), UNCHANGED <<unacked, acked, strays>>,
             broker' \notin {"listening", "connecting"},
             packet.type \notin AckTypes \cup {"OTHER", "BAD"}, packet.code # "malformed",
             packet.type = "CONNACK" => broker \in {"listening", "connecting"}
      PROVE  Honest'
  <2>1. Session => (packet.type = "CONNACK" => ~connected /\ inbound = << >>)
    BY <1>5 DEF Session
  <2>2. inbound' = Append(inbound, packet)
    BY <1>5 DEF BrokerSends
  <2>3. Session => Session'
    BY <1>2, <1>4, <1>5, <2>1, <2>2, SessionAppend DEF Inv
  <2> QED BY <1>3, <1>5, <2>3
<1>6. CASE BrokerConnAck
  <2>1. PICK code \in {"ok", "rejected"}, limit \in PacketLimits :
               /\ BrokerSends(Packet("CONNACK", limit, NoCall, code))
               /\ broker' = IF code = "rejected" THEN "closed" ELSE "up"
    BY <1>6 DEF BrokerConnAck
  <2> DEFINE packet == Packet("CONNACK", limit, NoCall, code)
  <2>2. packet \in Packets /\ packet.type = "CONNACK" /\ packet.code # "malformed"
    BY DEF Packet, Packets, PacketTypes, Codes
  <2> HIDE DEF packet
  <2>3. UNCHANGED <<unacked, acked, strays>> /\ broker = "connecting" /\ BrokerSends(packet)
    BY <1>6, <2>1 DEF BrokerConnAck, packet
  <2> QED BY <1>5, <2>1, <2>2, <2>3 DEF AckTypes
<1>7. CASE BrokerAck
  <2>1. PICK frame \in unacked, code \in {"ok", "rejected"} :
               /\ BrokerSends(Packet(AckTypeFor(frame.type), frame.id, frame.op, code))
               /\ unacked' = unacked \ {frame}
               /\ acked' = IF code = "ok" THEN acked \cup {frame.op} ELSE acked
    BY <1>7 DEF BrokerAck
  <2> DEFINE packet == Packet(AckTypeFor(frame.type), frame.id, frame.op, code)
  <2>2. frame \in Requests
    BY DEF Inv, Types, BrokerTypes
  <2>3. AckTypeFor(frame.type) \in AckTypes /\ frame.id \in Nat /\ frame.op \in Ops
    BY <2>2 DEF Requests, AckTypeFor, PacketIds, AckTypes
  <2>4. /\ packet \in Packets /\ packet.type = AckTypeFor(frame.type) /\ packet.id = frame.id
        /\ packet.code = code
    BY <2>3 DEF Packet, Packets, PacketTypes, Codes, AckTypes
  <2> HIDE DEF packet
  <2>5. inbound' = Append(inbound, packet) /\ UNCHANGED <<broker, strays>>
    BY <1>7, <2>1 DEF BrokerAck, BrokerSends, packet
  <2>6. acked \subseteq acked'
    BY <2>1
  <2>7. ASSUME Session PROVE Session'
    <3>1. /\ Waiting /\ frame = Frame(TypeFor(Request[call].kind), wait_id, call, Request[call].len)
          /\ \A i \in DOMAIN inbound : inbound[i].type \notin AckTypes
      BY <2>1, <2>7 DEF Session
    <3>2. frame.type = TypeFor(Request[call].kind) /\ frame.id = wait_id /\ frame.op = call
      BY <3>1 DEF Frame
    <3>3. unacked' = {}
      BY <2>1, <2>7, <3>1 DEF Session
    <3>4. broker \notin {"listening", "connecting"}
      BY <1>7 DEF BrokerAck, BrokerUp
    <3>5. /\ Waiting' /\ packet.type = AckTypeFor(TypeFor(Request[call'].kind))
          /\ packet.id = wait_id' /\ (packet.code = "ok" => call' \in acked')
      BY <1>2, <2>1, <2>4, <3>1, <3>2 DEF Waiting
    <3>6. (\A i \in DOMAIN inbound : Expected(inbound[i], i))'
      <4> SUFFICES ASSUME NEW i \in DOMAIN inbound' PROVE Expected(inbound[i], i)'
        OBVIOUS
      <4>1. CASE i \in DOMAIN inbound /\ inbound'[i] = inbound[i]
        BY <1>2, <2>7, <3>1, <4>1 DEF Session, Expected
      <4>2. CASE inbound'[i] = packet
        BY <2>1, <2>3, <2>4, <3>5, <4>2 DEF Expected, Matches, AckTypes
      <4> QED BY <1>4, <2>4, <2>5, <4>1, <4>2
    <3>7. \A i, j \in DOMAIN inbound' :
            inbound'[i].type \in AckTypes /\ inbound'[j].type \in AckTypes => i = j
      <4>1. \A i \in DOMAIN inbound' : \/ i \in DOMAIN inbound /\ inbound'[i] = inbound[i]
                                      \/ i = Len(inbound) + 1
        BY <1>4, <2>4, <2>5
      <4> QED BY ONLY <3>1, <4>1
    <3> QED BY <2>5, <3>3, <3>4, <3>6, <3>7 DEF Session
  <2> QED BY <1>3, <2>5, <2>6, <2>7
<1>8. CASE BrokerPingResp
  <2> DEFINE packet == Packet("PINGRESP", IF ping_age < AckTimeout THEN InTime ELSE Late, NoCall, "ok")
  <2>1. packet \in Packets /\ packet.type = "PINGRESP" /\ packet.code = "ok"
    BY DEF Packet, Packets, PacketTypes, Codes, InTime, Late
  <2> HIDE DEF packet
  <2>2. UNCHANGED <<unacked, acked, strays, broker>> /\ broker = "up" /\ BrokerSends(packet)
    BY <1>8 DEF BrokerPingResp, BrokerUp, packet
  <2> QED BY <1>5, <2>1, <2>2 DEF AckTypes
<1>9. CASE BrokerPublish
  <2> DEFINE packet == Packet("PUBLISH", published + 1, NoCall, "ok")
  <2>1. packet \in Packets /\ packet.type = "PUBLISH" /\ packet.code = "ok"
    <3>1. published + 1 \in Nat
      BY DEF Inv, Types, BrokerTypes
    <3> QED BY ONLY <3>1 DEF packet, Packet, Packets, PacketTypes, Codes
  <2> HIDE DEF packet
  <2>2. UNCHANGED <<unacked, acked, strays, broker>> /\ broker = "up" /\ BrokerSends(packet)
    BY <1>9 DEF BrokerPublish, BrokerUp, packet
  <2> QED BY <1>5, <2>1, <2>2 DEF AckTypes
<1>10. CASE BrokerLeaves
  <2>1. PICK type \in {"EOF", "DISCONNECT"}, code \in {"ok", "rejected"} :
               BrokerSends(Packet(type, 0, NoCall, code))
    BY <1>10 DEF BrokerLeaves
  <2> DEFINE packet == Packet(type, 0, NoCall, code)
  <2>2. packet \in Packets /\ packet.type = type /\ packet.code = code
    BY DEF Packet, Packets, PacketTypes, Codes
  <2> HIDE DEF packet
  <2>3. UNCHANGED <<unacked, acked, strays>> /\ broker' = "closed" /\ BrokerSends(packet)
    BY <1>10, <2>1 DEF BrokerLeaves, packet
  <2> QED BY <1>5, <2>2, <2>3 DEF AckTypes
<1>11. CASE BrokerStrays
  BY <1>11 DEF BrokerStrays, Inv, Types, BrokerTypes
<1> QED BY <1>6, <1>7, <1>8, <1>9, <1>10, <1>11 DEF Broker

\* The inductive invariant.
THEOREM ClientInvariant == Spec => []Inv
<1>1. Init => Inv
  <2> SUFFICES ASSUME Init PROVE Inv
    OBVIOUS
  <2>1. Shape
    BY ClientAssumption DEF Init, Shape, Waiting
  <2>2. Session
    <3>1. DOMAIN inbound = {}
      BY DEF Init
    <3> QED BY <3>1 DEF Init, Session
  <2>3. Results
    BY DEF Init, Results
  <2> QED BY <2>1, <2>2, <2>3, TypesInit DEF Inv, Honest
<1>2. Inv /\ [Next]_vars => Inv'
  <2> SUFFICES ASSUME Inv, [Next]_vars PROVE Inv'
    OBVIOUS
  <2>1. Types' /\ Shape'
    BY TypesNext, ShapeNext DEF Inv
  <2>2. CASE UNCHANGED <<pc, call, wait_id, op, recv_result, connected, inbound, brokerVars>>
    <3>1. UNCHANGED <<unacked, acked, broker, strays>>
      BY <2>2 DEF brokerVars
    <3>2. Session => Session'
      BY <2>2, <3>1, SessionKept
    <3> QED BY <2>1, <2>2, <3>1, <3>2 DEF Inv, Honest, Live, Results, Acknowledged
  <2>3. Tick \/ Gone \/ UNCHANGED vars =>
          UNCHANGED <<pc, call, wait_id, op, recv_result, connected, inbound, brokerVars>>
    BY DEF Tick, Gone, vars, callVars, stateVars
  <2> QED BY <2>1, <2>2, <2>3, HonestApplication, HonestDecode, HonestWait, HonestBroker DEF Inv, Next
<1> QED BY <1>1, <1>2, PTL DEF Spec

\* A call of publish with QoS 1, subscribe or unsubscribe that returns Ok was acknowledged by
\* the broker, for every set of calls and every range of identifiers that are used again.
THEOREM SuccessIsAcknowledged == Spec => []OkMeansAcked
<1>1. Inv => OkMeansAcked
  BY DEF Inv, Honest, Results, OkMeansAcked
<1> QED BY <1>1, ClientInvariant, PTL

\* A broker that keeps to the protocol is never accused of breaking it: no call leaves an
\* acknowledgement on its way in a session that goes on.
THEOREM BrokerIsNotAccused == Spec => []BrokerNotAccused
<1>1. Inv => BrokerNotAccused
  <2> SUFFICES ASSUME Inv, strays = 0 PROVE BrokerNotAccused
    BY DEF BrokerNotAccused
  <2>1. NoAckOutstanding
    <3> SUFFICES ASSUME pc = "app", connected
                 PROVE  unacked = {} /\ \A i \in DOMAIN inbound : inbound[i].type \notin AckTypes
      BY DEF NoAckOutstanding
    <3>1. ~Waiting /\ Session
      BY NoWaitBetweenCalls DEF Inv, Honest, Live
    <3> QED BY <3>1 DEF Session, Expected, Matches
  <2> QED BY <2>1 DEF Inv, Honest, Results, BrokerNotAccused
<1> QED BY <1>1, ClientInvariant, PTL
=============================================================================
