SPECIFICATION Spec
CONSTANTS
    Kinds = {"camera", "focuser", "telescope", "filterwheel"}
    MaxCalls <- MCMaxCalls
    MaxEvents <- MCMaxEvents
INVARIANTS TypeOK SessionEndsClean ConnectedDeviceIsSeen CrashHasCause
PROPERTIES CallsReturn
CHECK_DEADLOCK FALSE
