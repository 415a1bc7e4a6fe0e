SPECIFICATION GatewayFairSpec
CONSTANTS
    None = None
    c1 = c1
    c2 = c2
    Calls = {c1, c2}
    Instances = {i1, i2}
    Commands = 1
    Lifetime = 2
    Margin = 1
    MaxFetch = 1
    MaxEpoch = 2
    MaxTime = 1
    Workloads <- MCWorkloads
    SignIns <- MCSignIns
    Ours = "ours"
CHECK_DEADLOCK FALSE
INVARIANTS
    AppliedOnce
    RefusalMeansNothingDone
    SessionsEndByVerdict
PROPERTIES
    ImplementsKeyedCommands
    EveryRequestAnswered
