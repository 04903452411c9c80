CONSTANTS
    IntRange = 32
    Cases <- MCCases
    Inflate <- RunLength
    Deflated <- EvenLength
SPECIFICATION FairSpec
INVARIANTS TypeOK LimitHolds
PROPERTIES ImplementsDecoder Settles
CHECK_DEADLOCK FALSE
