SPECIFICATION FairSpec
CONSTANTS
    o1 = o1
    o2 = o2
    o3 = o3
    o4 = o4
    none = none
    Ops = {o1, o2, o3, o4}
    Request <- RefusedRequest
    NoCall = none
    MaxPacketId = 2
    max_incoming_messages = 1
    PacketLimits = {1, 100}
    ConnectTimeout = 1
    AckTimeout = 2
    KeepAlive = 1
    MessageQos <- OneQos1
    StrayBound = 0
    Hazards = {"break", "interrupt", "leave"}
INVARIANT SilenceBounded
PROPERTY KeepAliveJustified
PROPERTY CallsReturn
