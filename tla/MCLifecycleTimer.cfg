SPECIFICATION Spec
CONSTANTS
    Instance = {i1, i2, i3}
    NULL = NULL
    MaxTimers = 4
    MaxDepth = 3
INVARIANTS
    AlreadyOneTimerRunning
CHECK_DEADLOCK FALSE
