SPECIFICATION FaultySpec
CONSTANTS
    Ops <- CodedOps
    Request <- CodedRequest
    MessageQos <- NoMessages
    NoOp = NoOp
    MaxPacketId = 2
    command_capacity = 2
    event_capacity = 1
    peer_receive_maximum = 2
    peer_max_packet_size = 10
    max_outbound_queue_bytes = 10
    AckTimeout = 1
    KeepAlive = 0
    StrayBound = 1
    Hazards = {"drop", "block", "break", "reject", "leave"}
INVARIANT NoLeakedWaiter
INVARIANT DisconnectIsLast
