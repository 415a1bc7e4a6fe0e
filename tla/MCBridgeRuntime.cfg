SPECIFICATION FairSpec
CONSTANTS
    op = op
    a = a
    b = b
    x = x
    y = y
    None = None
    Ops <- MCOps
    Contents <- MCContents
    Outputs <- MCOutputs
    Grants <- MCGrants
    MaxGrantLifetime = 2
    Requests = {r1, r2}
    ExecutionTimeout = 1
    MaxTime = 2
CHECK_DEADLOCK FALSE
INVARIANTS
    AtMostOnce
    AnswersAreDurable
    RefusalMeansNoEffect
PROPERTIES
    ImplementsOnceOnly
    EveryRequestEnds
    EffectIsRecorded
