SPECIFICATION FairSpec
CONSTANTS
    c1 = c1
    c2 = c2
    c3 = c3
    Call = {c1, c2, c3}
    NumArgs <- MCNumArgs
    NumResults <- MCNumResults
    Budget = 2
    PipeSize = 2
INVARIANTS
    NoProtocolFault
    TakeTurns
    NothingHeldBack
    ValuesIntact
PROPERTIES
    EveryCallReturns
    ImplementsNestedCalls
