SPECIFICATION Spec
CONSTANTS
    Callers = {c1, c2}
    Ids = {x1, x2, x3}
    Names = {n1, n2}
    MaxThreads = 2
    None = None
INVARIANTS TypeOK AtMostMaxThreads NoOrphanThread SleepersHaveCause SerialCallsAreSafe
PROPERTIES LateJoinReturns
CHECK_DEADLOCK FALSE
