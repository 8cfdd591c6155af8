SPECIFICATION Spec
CONSTANTS
    NumChunks = 2
    NumPieces = 2
    PD = {p1}
    NoPD = none
    ReqLimits = {1}
    WaitQueueFor <- Twice
    FirstWaitQueue = 3
    Has <- AllSeeds
    FastExtensions = {p1}
    Liars = {}
    Reliable = {}
    ChunkLimits = {2}
    MaxConnections <- Once
    Exclusions = TRUE
    DataChecks = FALSE
    Pausing = TRUE
    Stopping = TRUE
    WebSeeding = TRUE
    DiskErrors = TRUE
INVARIANTS
    WaitedIsAsked
    AskedIsWaited
    GrabNeverLow
CHECK_DEADLOCK FALSE
PROPERTY PiecesKept
