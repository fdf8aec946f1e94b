SPECIFICATION Spec
CONSTANTS
    Addr = {a1, a2}
    MaxId = 3
    MaxRefs = 2
    MaxArgs = 2
    MaxDepth = 4
    ReentrantCallee = FALSE
SYMMETRY Symmetry
INVARIANTS
    NoAssertionFails
    TablesAgree
    NothingDangles
    CountsBalance
    PluginPointersLive
CHECK_DEADLOCK FALSE
