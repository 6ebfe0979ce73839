SPECIFICATION Spec
INVARIANTS
    LogitsExact
    CachesExact
PROPERTIES
    RanksAgree
    ContextsStable
CHECK_DEADLOCK FALSE
