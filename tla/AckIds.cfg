SPECIFICATION Spec
CONSTANTS
    Ops <- AckOps
    Request <- AckRequest
    MessageQos <- NoMessages
    NoOp = NoOp
    MaxPacketId = 2
    command_capacity = 2
    event_capacity = 1
    peer_receive_maximum = 1
    peer_max_packet_size = 6
    max_outbound_queue_bytes = 7
    AckTimeout = 1
    KeepAlive = 2
    StrayBound = 0
    Hazards = {"cancel"}
INVARIANT PacketIdsOwned
INVARIANT OkMeansAcked
INVARIANT ConformingBrokerAccepted
INVARIANT OutboundBytesExact
PROPERTY KeepAliveJustified
