SPECIFICATION FairSpec
CONSTANTS
    Instance = {i1, i2}
    Thread = {t1, t2}
    NULL = NULL
    MaxTokens = 2
INVARIANT FreedDataIsNotUsed
CHECK_DEADLOCK FALSE
