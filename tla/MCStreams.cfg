SPECIFICATION Spec
SYMMETRY Alike
CONSTANTS
    Stream = {s1, s2}
    Data = {d1, d2}
    NULL = NULL
    MaxId = 2
    MaxCount = 2
    MaxDepth = 3
INVARIANTS
    NoAssertionFails
    StreamsAgree
    NotifyCountsBalance
    DataIntact
CHECK_DEADLOCK FALSE
