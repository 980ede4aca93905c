SPECIFICATION DeadlineSpec
CONSTANTS
    r1 = r1
    r2 = r2
    u1 = u1
    u2 = u2
    d1 = d1
    k1 = k1
    k2 = k2
    t1 = t1
    None = None
    Requests = {r1, r2}
    Ask <- TwoAsks
    Ops = {}
    OpKind <- NoOps
    OpTopic <- NoOps
    MaxPacketId = 8
    max_pending_operations = 3
    event_capacity = 1
    peer_receive_maximum = 1
    QueueBound = 1
    AckTimeout = 1
    ReplyQos = 0
    ReplyLimit = 1
    Hazards = {"drop", "block", "reject"}
INVARIANT RegistrationsExact
INVARIANT UnpublishedAwaitsSubAck
INVARIANT PacketIdsOwned
PROPERTY DroppedNotBegun
PROPERTY RequestsResolve
