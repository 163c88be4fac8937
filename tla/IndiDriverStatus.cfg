SPECIFICATION Spec
CONSTANTS
    Kinds = {"camera", "focuser", "telescope", "filterwheel"}
    MaxCalls <- MCMaxCalls
    MaxEvents <- MCMaxEvents
PROPERTIES StatusIsReset
CHECK_DEADLOCK FALSE
