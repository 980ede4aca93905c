SPECIFICATION FairSpec
CONSTANTS
    PacketKinds <- Mixed
    max_packet_size = 6
    ReadChunk = 4
    WireBound = 3
    PushBound = 8
INVARIANT FramesInOrder
INVARIANT RoomForMore
INVARIANT ErrorsJustified
PROPERTY GoodPacketsDecoded
