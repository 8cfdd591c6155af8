SPECIFICATION FairSpec
CONSTANTS
    NumChunks = 2
    NumPieces = 2
    PD = {p1}
    NoPD = none
    ReqLimits = {1}
    WaitQueueFor <- Twice
    FirstWaitQueue = 2
    Has <- AllSeeds
    FastExtensions = {}
    Liars = {}
    Reliable = {}
    ChunkLimits = {2}
    MaxConnections <- Once
    Exclusions = FALSE
    DataChecks = FALSE
    Pausing = FALSE
    Stopping = FALSE
    WebSeeding = FALSE
    DiskErrors = FALSE
PROPERTY
    StoredTemporarily
CHECK_DEADLOCK FALSE
