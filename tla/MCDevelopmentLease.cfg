SPECIFICATION LeaseSpec
CONSTANTS
    Heartbeat = 3
    PingTimeout = 1
    RefreshTimeout = 2
    WriteTimeout = 2
    RefreshPeriod = 4
    MaxLease = 10
    Handshake = 3
    MaxTime = 30
CHECK_DEADLOCK FALSE
INVARIANTS
    LeaseBound
