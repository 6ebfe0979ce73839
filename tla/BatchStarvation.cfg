CONSTANTS
    NumPages = 3
    BlockSize = 2
    MaxSequenceLength = 7
    ReservationLimit = 9
    Request <- MCRequest2
    Token = {0, 1, 2}
    Job <- MCJobs
    Predict <- MCPredict
    MaxActive = 2
    MaxPending = 0
    BatchTokens = 2
    TokenLimits = {}
    ChunkTokens = 2
    Preemption = TRUE
    ReserveCapacity = FALSE
    Caching = FALSE
    DraftTokens = 0
    Ngram = 0
    Lookahead = 0
SPECIFICATION FairSpec
PROPERTIES EveryRequestCloses
CHECK_DEADLOCK FALSE
