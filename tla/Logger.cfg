SPECIFICATION Spec
CONSTANTS
    Levels = {3, 5}
    MaxLogs = 3
    MaxCalls = 4
INVARIANTS TypeOK InOrderOnce ErrorsKept
PROPERTIES DisableReturns QueuedIsWritten
CHECK_DEADLOCK FALSE
