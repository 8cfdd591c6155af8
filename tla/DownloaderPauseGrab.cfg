SPECIFICATION Spec
CONSTANTS
    NumChunks = 2
    NumPieces = 2
    PD = {p1}
    NoPD = none
    ReqLimits = {1}
    WaitQueueFor <- Twice
    FirstWaitQueue = 2
    Has <- AllSeeds
    FastExtensions = {p1}
    Liars = {}
    Reliable = {}
    ChunkLimits = {1}
    MaxConnections <- Once
    Exclusions = FALSE
    DataChecks = FALSE
    Pausing = TRUE
    Stopping = FALSE
    WebSeeding = FALSE
    DiskErrors = FALSE
INVARIANT
    GrabExact
CHECK_DEADLOCK FALSE
