SPECIFICATION FairSpec
CONSTANTS
    None = None
    Ids = {i1, i2}
    MaxConcurrent = 2
    ReconnectMin = 1
    ReconnectMax = 2
    MaxRequests = 3
    MaxGenerations = 2
    WireBound = 1
CHECK_DEADLOCK FALSE
INVARIANTS
    SlotsBalance
    CancelHitsItsRequest
    UnfinishedAreCanceled
PROPERTIES
    ImplementsRelayedRequests
    EverySlotReturns
