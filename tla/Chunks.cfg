SPECIFICATION SelSpec
CONSTANTS
    NumChunks = 3
    NumFiles = 3
    FirstChunk <- Ends_First
    LastChunk <- Ends_Last
    Multimedia = {0}
    PreviewChunks <- OneEach
    UserPriorities = {10, 20, 30}
    DiskErrors = FALSE
INVARIANTS
    TypeOK
    ExcludedExact
    TodoExact
    ChunksLeftExact
    OnDiskInBitset
    DownloadedIsRecorded
    SelectorComplete
PROPERTY
    BitsetStaysHonest
