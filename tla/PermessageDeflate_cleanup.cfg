CONSTANTS
    Conns = {"a", "b"}
    IsServer <- PairServer
    Limit <- PairLimit
    NoTakeover <- PairNoTakeover
    MaxFrames <- PairFrames
SPECIFICATION Spec
INVARIANTS CleanupReleases
CHECK_DEADLOCK FALSE
