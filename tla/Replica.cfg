CONSTANTS
    Caller = {c1, c2}
    Workers = 1
    Capacity = 1
    Panicky = {c2}
SPECIFICATION FairSpec
INVARIANTS
    PermitsExact
    ResultTruthful
    NoRunAfterFailure
    FailedStateRetained
PROPERTIES
    EveryHandleResolves
CHECK_DEADLOCK FALSE
