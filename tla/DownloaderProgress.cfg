SPECIFICATION FairSpec
CONSTANTS
    NumChunks = 2
    NumPieces = 2
    PD = {p1, p2}
    NoPD = none
    ReqLimits = {1}
    WaitQueueFor <- Twice
    FirstWaitQueue = 2
    Has <- ReliableSeeds
    FastExtensions = {p2}
    Liars = {}
    Reliable = {p1}
    ChunkLimits = {1}
    MaxConnections <- Once
    Exclusions = FALSE
    DataChecks = FALSE
    Pausing = FALSE
    Stopping = FALSE
    WebSeeding = FALSE
    DiskErrors = FALSE
PROPERTY
    Progress
CHECK_DEADLOCK FALSE
