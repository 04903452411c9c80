CONSTANTS
    HighWaterMark = 2
    MaxMessages = 4
SPECIFICATION FairSpec
INVARIANTS TypeOK OrderlyEvents
PROPERTIES Completes
CHECK_DEADLOCK FALSE
