SPECIFICATION SelSpec
CONSTANTS
    NumChunks = 2
    NumFiles = 2
    FirstChunk <- Two_First
    LastChunk <- Two_Last
    Multimedia = {0}
    PreviewChunks <- OneEach
    UserPriorities = {10, 20, 30}
    DiskErrors = TRUE
INVARIANTS
    TodoExact
    OnDiskInBitset
PROPERTIES
    SelectorKeeps
    ErrorsAreRepaired
