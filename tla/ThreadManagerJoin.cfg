SPECIFICATION Spec
CONSTANTS
    Callers = {c1}
    Ids = {x1, x2}
    Names = {n1}
    MaxThreads = 2
    None = None
PROPERTIES JoinByNameReturns
CHECK_DEADLOCK FALSE
