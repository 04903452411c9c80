CONSTANTS
    PerMessageDeflate = TRUE
    NoContextTakeover = TRUE
    Threshold = 2
    Sizes = {1, 2}
    MaxCalls = 4
    MaxDiscarded = 1
SPECIFICATION FairSpec
INVARIANTS TypeOK BufferedExact AnsweredOnce WellFramed CloseIsLast
PROPERTIES ImplementsLog EveryCallAnswered
CHECK_DEADLOCK FALSE
