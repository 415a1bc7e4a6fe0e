SPECIFICATION FairSpec
CONSTANTS
    Callers = {c1, c2}
    c1 = c1
    c2 = c2
    Jobs <- MCJobs
    Bodies = {b1, b2}
    b1 = b1
    b2 = b2
    MaxTokens = 3
    MaxAlike = 2
    MaxAttempts = 2
    None = None
CHECK_DEADLOCK FALSE
INVARIANTS
    RefusedMeansNotApplied
    OncePerIntent
    OpenedIsItsOwn
    WaitTellsTheEnd
PROPERTIES
    EveryCallReturns
