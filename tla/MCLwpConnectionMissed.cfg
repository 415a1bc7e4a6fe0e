SPECIFICATION Spec
CONSTANTS
    IdSpace = 8
    MaxRequests = 2
    MaxEvents = 2
INVARIANTS
    HandlerFiresOnEachEvent
CHECK_DEADLOCK FALSE
