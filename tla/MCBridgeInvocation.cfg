SPECIFICATION InvocationSpec
CONSTANTS
    op = op
    a = a
    b = b
    x = x
    y = y
    None = None
    Ops <- MCOps
    Contents <- MCContents
    Outputs <- MCOutputs
    Grants <- MCGrants
    MaxGrantLifetime = 3
    Requests = {r1, r2}
    Calls = {c1, c2}
    ClientSkew <- MCSkew
    Tolerance = 0
    ExecutionTimeout = 1
    MaxTime = 3
SYMMETRY MCSymmetry
CHECK_DEADLOCK FALSE
INVARIANTS
    ReturnedResultsAgree
    DefiniteErrorMeansNoEffect
