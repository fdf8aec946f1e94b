SPECIFICATION FairSpec
CONSTANTS
    Instance = {i1, i2}
    Thread = {t1, t2}
    NULL = NULL
    MaxTokens = 2

    
    
PROPERTIES
    ForgottenThreadEnds
    DestroyReturns
    
CHECK_DEADLOCK FALSE
