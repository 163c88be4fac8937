SPECIFICATION Spec
CONSTANT MaxLaunches = 3
PROPERTY ResourcesAreAccepted
CHECK_DEADLOCK FALSE
