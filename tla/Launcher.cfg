SPECIFICATION Spec
CONSTANT MaxLaunches = 3
INVARIANTS IsRunning PipeUse
PROPERTY StopEndsWait
CHECK_DEADLOCK FALSE
