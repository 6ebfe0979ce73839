CONSTANTS
    NumPages = 3
    BlockSize = 2
    MaxSequenceLength = 7
    ReservationLimit = 9
    Request <- MCRequest2
    Token = {0, 1, 2}
    Job <- MCJobs
    Predict <- MCPredict
    MaxActive = 2
    MaxPending = 0
    BatchTokens = 7
    TokenLimits = {}
    ChunkTokens = 7
    Preemption = TRUE
    ReserveCapacity = FALSE
    Caching = TRUE
    DraftTokens = 2
    Ngram = 2
    Lookahead = 0
SPECIFICATION FairSpec
PROPERTIES
    EveryRequestCloses
    ServiceRefined
CHECK_DEADLOCK FALSE
