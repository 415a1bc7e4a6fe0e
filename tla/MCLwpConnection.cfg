SPECIFICATION FairSpec
CONSTANTS
    IdSpace = 2
    MaxRequests = 4
    MaxEvents = 1
    GroupBits = 3
    Width = 7
    Streams <- MCStreams
CHECK_DEADLOCK FALSE
INVARIANTS
    ReaderCanDeliver
    DispatchedIntact
PROPERTIES
    ImplementsRequestReply
    OnlyEarlyEventsAreMissed
    EveryCallEnds
