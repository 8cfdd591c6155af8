SPECIFICATION Spec
CONSTANTS
    Torrents = {"this", "other"}
    SystemConnectionLimit = 1
    NumChunks = 2
    PeerID = {1, 2}
    Address = {1, 2}
    Allowed = {1, 2}
    MaxPotential = 1
    MaxCount = 2
    WantedSets = {{}, {0}}
    Limits <- TwoLimits
    MaxAuths = 1
    AtOnce = 1
    MaxConnections = 2
INVARIANTS
    TypeOK
    CountersExact
    TokensExact
    InterestKnown
    ConnectedOnce
    ActiveConnected
CHECK_DEADLOCK FALSE
CONSTRAINT FewAtOnce
