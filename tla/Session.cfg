SPECIFICATION Spec
CONSTANTS
    o1 = o1
    o2 = o2
    o3 = o3
    o4 = o4
    none = none
    Ops = {o1, o2}
    Request <- SessionRequest
    NoCall = none
    MaxPacketId = 1
    max_incoming_messages = 1
    PacketLimits = {1, 100}
    ConnectTimeout = 1
    AckTimeout = 1
    KeepAlive = 0
    MessageQos <- Qos1Then0
    StrayBound = 1
    Hazards = {"break", "reject", "leave", "stray", "disconnect"}
INVARIANT OkMeansAcked
INVARIANT BrokerNotAccused
INVARIANT MessagesKept
