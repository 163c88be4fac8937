SPECIFICATION Spec
CONSTANTS
    simple = simple
    loop = loop
    empty = empty
    daemon = daemon
    conditional = conditional
    Tasks <- MCTasks
    Kind <- MCKind
    Name <- MCName
    Items <- MCItems
    MaxList = 2
    MaxRuns = 2
    MaxEdits = 2
    Null = Null
INVARIANTS StopStopsTheRunningTask
CHECK_DEADLOCK FALSE
