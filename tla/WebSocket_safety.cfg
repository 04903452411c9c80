CONSTANTS
    client = client
    server = server
    Peers <- MCPeers
    MaxMessages <- TwoAndOne
    MaxPings <- None
    Kinds = {"data", "big"}
    Deflate = TRUE
    Codes = {1000, 1005}
    HighWaterMark = 2
    Pausing <- MCServer
    Faults = TRUE
SPECIFICATION Spec
INVARIANTS TypeOK ConnectionOK CleanDelivery CleanupIsSafe EndIsEarned FlowMatchesDemand
PROPERTIES ReadyStateMonotone SilentAfterClose
CHECK_DEADLOCK FALSE
