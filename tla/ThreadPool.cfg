SPECIFICATION Spec
CONSTANTS
    Workers = {w1, w2}
    Clients = {c1}
    Waiters = {a1}
    Tasks = {t1, t2, t3}
    NoTask = NoTask
INVARIANTS TypeOK NoStrandedTask StopReachesEveryWorker
PROPERTIES ImplementsExecutor EnqueuedTasksRun DestructorReturns
CHECK_DEADLOCK FALSE
