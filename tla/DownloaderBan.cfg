SPECIFICATION Spec
CONSTANTS
    NumChunks = 1
    NumPieces = 2
    PD = {p1}
    NoPD = none
    ReqLimits = {1}
    WaitQueueFor <- Twice
    FirstWaitQueue = 2
    Has <- AllSeeds
    FastExtensions = {p1}
    Liars = {p1}
    Reliable = {}
    ChunkLimits = {1}
    MaxConnections <- LiarsTwice
    Exclusions = FALSE
    DataChecks = FALSE
    Pausing = FALSE
    Stopping = FALSE
    WebSeeding = FALSE
    DiskErrors = FALSE
INVARIANT
    OnlyPeerBanned
CHECK_DEADLOCK FALSE
