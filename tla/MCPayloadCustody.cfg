SPECIFICATION Spec
CONSTANTS
    Calls = {c1, c2}
    Invocations = {i1, i2}
    Workers = {g1}
    Writers = {w1, w2}
    MaxVersion = 2
    MaxKeyVersion = 2
    None = None
CHECK_DEADLOCK FALSE
SYMMETRY Perms
INVARIANTS
    CipherServesItsCall
    OpenedAsPlanned
PROPERTIES
    ImplementsKeyLease
