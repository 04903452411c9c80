CONSTANTS
    client = client
    server = server
    Peers <- MCPeers
    MaxMessages <- None
    MaxPings <- None
    Kinds = {"data"}
    Deflate = FALSE
    Codes = {1000}
    HighWaterMark = 1
    Pausing = {}
    Faults = FALSE
SPECIFICATION InvalidSpec
PROPERTIES ClosingCompletes
CHECK_DEADLOCK FALSE
