CONSTANTS
    NumPages = 3
    BlockSize = 2
    MaxSequenceLength = 7
    ReservationLimit = 9
    Request <- MCRequest3
    Token = {0, 1, 2}
    Job <- MCThreeJobs
    Predict <- MCPredict
    MaxActive = 3
    MaxPending = 0
    BatchTokens = 3
    TokenLimits = {}
    ChunkTokens = 3
    Preemption = TRUE
    ReserveCapacity = FALSE
    Caching = TRUE
    DraftTokens = 2
    Ngram = 2
    Lookahead = 0
SPECIFICATION Spec
INVARIANTS
    NothingLeaks
    ContextIntact
CHECK_DEADLOCK FALSE
