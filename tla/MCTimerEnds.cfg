SPECIFICATION FairSpec
CONSTANTS
    Instance = {i1, i2}
    Thread = {t1}
    NULL = NULL
    MaxTokens = 2
INVARIANT AlreadyOneTimerThreadRunning
CHECK_DEADLOCK FALSE
