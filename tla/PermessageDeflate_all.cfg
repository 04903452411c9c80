CONSTANTS
    Conns = {"a", "b"}
    IsServer <- PairServer
    Limit <- PairLimit
    NoTakeover <- PairNoTakeover
    MaxFrames <- PairFrames
SPECIFICATION FairSpec
INVARIANTS TypeOK SlotsExact NoIdleSlot JobsAccounted DictionariesAgree
PROPERTIES EveryJobAnswered
CHECK_DEADLOCK FALSE
