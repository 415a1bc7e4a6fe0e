SPECIFICATION Spec
CONSTANTS
    None = None
    k = k
    i1 = i1
    i2 = i2
    i3 = i3
    i4 = i4
    i5 = i5
    i6 = i6
    Requests = {r1, r2, r3}
    Assertions <- MCAssertions
    Messages <- MCMessages
    MaxLifetime = 3
    ClockSkew = 1
    MaxTime = 4
SYMMETRY MCSymmetry
CHECK_DEADLOCK FALSE
INVARIANTS
    ServedOnce
    RepeatsAreKeyed
