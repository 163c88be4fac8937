SPECIFICATION Spec
CONSTANTS
    Workers = {w1, w2}
    Clients = {c1}
    Waiters = {a1}
    Tasks = {t1, t2}
    NoTask = NoTask
PROPERTIES WaitMeansAllDone
CHECK_DEADLOCK FALSE
