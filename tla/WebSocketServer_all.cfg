CONSTANTS
    Connections = {c1, c2, c3}
    Options <- AllOptions
    MaxCloses = 3
SPECIFICATION Spec
INVARIANTS TypeOK ClosedUnlessReentered OneEventPerCall
PROPERTIES NoLateOpen CloseIsAnswered
CHECK_DEADLOCK FALSE
