SPECIFICATION Spec
CONSTANTS
    NumChunks = 1
    NumPieces = 2
    PD = {p1, p2}
    NoPD = none
    ReqLimits = {1, 2}
    WaitQueueFor <- Least
    FirstWaitQueue = 2
    Has <- AllSeeds
    FastExtensions = {p1}
    Liars = {p2}
    Reliable = {}
    ChunkLimits = {1}
    MaxConnections <- LiarsTwice
    Exclusions = TRUE
    DataChecks = TRUE
    Pausing = FALSE
    Stopping = TRUE
    WebSeeding = FALSE
    DiskErrors = FALSE
INVARIANTS
    TypeOK
    GrabExact
    WaitedIsAsked
    AskedIsWaited
    NoDuplicates
    BanIsJust
CHECK_DEADLOCK FALSE
