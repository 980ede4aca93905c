SPECIFICATION ExchangeSpec
CONSTANTS
    Calls <- MCCalls
    Answers <- MCAnswers
    EndpointBound = 2
    ResolveBound = 3
    MaxInstant = 50
    Requests <- MCRequests
    Inbound <- MCInbound
    Lengths <- MCLengths
CHECK_DEADLOCK FALSE
INVARIANT ReturnsInTime
INVARIANT NothingReadAhead
INVARIANT SessionIsOffered
INVARIANT ConnectSaysOptions
INVARIANT NameIsHost
INVARIANT PublishArrives
INVARIANT BrokerCanTake
INVARIANT FiltersJudged
INVARIANT DecodedIsSound
PROPERTY ConnectEnds
