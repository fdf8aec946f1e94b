SPECIFICATION FairSpec
CONSTANTS
    Instance = {i1, i2, i3}
    NULL = NULL
    MaxTimers = 4
    MaxDepth = 3
INVARIANTS
    RepliesMatch
    InstancesAgree
    TimerRuns
PROPERTIES
    LoaderEnds
CHECK_DEADLOCK FALSE
