SPECIFICATION DeadlineSpec
CONSTANTS
    Ops <- EndOps
    Request <- EndRequest
    MessageQos <- NoMessages
    NoOp = NoOp
    MaxPacketId = 2
    command_capacity = 2
    event_capacity = 1
    peer_receive_maximum = 2
    peer_max_packet_size = 10
    max_outbound_queue_bytes = 10
    AckTimeout = 1
    KeepAlive = 0
    StrayBound = 0
    Hazards = {"cancel", "drop", "block"}
PROPERTY AcknowledgedResolve
PROPERTY OperationsResolve
 
