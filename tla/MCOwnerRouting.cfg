SPECIFICATION Spec
CONSTANTS
    None = None
    Calls = {c1, c2}
    Instances = {i1, i2}
    Commands = 2
    Lifetime = 2
    Margin = 1
    MaxFetch = 1
    MaxEpoch = 3
    MaxTime = 3
SYMMETRY MCSymmetry
CHECK_DEADLOCK FALSE
INVARIANTS
    RetryAdvances
    OnlyPrefixRepeats
PROPERTIES
    FreshWhenDialled
