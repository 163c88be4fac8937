SPECIFICATION Spec
CONSTANT MaxLaunches = 3
PROPERTY WaitEndsWithServer
CHECK_DEADLOCK FALSE
