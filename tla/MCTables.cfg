SPECIFICATION MCSpec
CONSTANTS
    Ptr = {p1, p2, p3, p4}
    NULL = NULL
    Null = NULL
    MaxId = 3
    Name = {clientWidth, one}
    Number = {one}
    Address = {a1, a2, a3}
    MaxCount = 3
    Npp = {1, 2}
    Caller = {t1, t2}
    Node = {n1, n2, n3}
    NoNode = NoNode
    MaxCalls = 3
    MaxDepth = 2
INVARIANTS
    MapsAgree
    GivesUpOnlyWhenFull
    SearchIsTheLoop
    IdentifiersAgree
    NothingLostOrRepeated
    CountBalances
PROPERTIES
    ImplementsNaming
    EveryCallRuns
CHECK_DEADLOCK FALSE
