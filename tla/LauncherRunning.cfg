SPECIFICATION Spec
CONSTANT MaxLaunches = 3
INVARIANT RunningMeansUp
CHECK_DEADLOCK FALSE
