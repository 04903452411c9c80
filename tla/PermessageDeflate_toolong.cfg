CONSTANTS
    Conns = {"a", "b"}
    IsServer <- PairServer
    Limit <- PairLimit
    NoTakeover <- PairNoTakeover
    MaxFrames <- PairFrames
SPECIFICATION Spec
PROPERTIES TooLongIsReported
CHECK_DEADLOCK FALSE
