CONSTANTS
    client = client
    server = server
    Peers <- MCPeers
    MaxMessages <- OneByClient
    MaxPings <- OneByServer
    Kinds = {"data", "big"}
    Deflate = TRUE
    Codes = {1000}
    HighWaterMark = 1
    Pausing <- MCServer
    Faults = FALSE
SPECIFICATION FairSpec
PROPERTIES ClosesUnpaused ClosesWithTimer
CHECK_DEADLOCK FALSE
