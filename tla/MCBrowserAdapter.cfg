SPECIFICATION Spec
CONSTANTS
    None = None
    Requests = {r1, r2, r3}
    Segments = {resource, p1, p2}
    resource = resource
    p1 = p1
    p2 = p2
    Paths <- MCPaths
    MaxSignIns = 2
SYMMETRY MCSymmetry
CHECK_DEADLOCK FALSE
INVARIANTS
    CookiesOfOneSignIn
    PagesActInTheirSession
    DisagreementIsExplained
