CONSTANTS
    Connections = {c1, c2}
    Options <- ExternalTracked
    MaxCloses = 1
SPECIFICATION Spec
INVARIANTS ClosedMeansClosed
CHECK_DEADLOCK FALSE
