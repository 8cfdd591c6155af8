SPECIFICATION SelSpec
CONSTANTS
    NumChunks = 4
    NumFiles = 3
    FirstChunk <- Borders_First
    LastChunk <- Borders_Last
    Multimedia = {0}
    PreviewChunks <- OneEach
    UserPriorities = {10, 40}
    DiskErrors = FALSE
INVARIANT
    SelectorComplete
