---------------------------- MODULE MCWebSocket ----------------------------
(* Two endpoints for TLC; the server may send and ping, the client only     *)
(* sends, so that both directions carry frames in a small instance.         *)
EXTENDS WebSocket

CONSTANTS client, server

MCPeers == {client, server}
TwoAndOne == [e \in MCPeers |-> IF e = client THEN 2 ELSE 1]
TwoByClient == [e \in MCPeers |-> IF e = client THEN 2 ELSE 0]
OneByClient == [e \in MCPeers |-> IF e = client THEN 1 ELSE 0]
OneByServer == [e \in MCPeers |-> IF e = server THEN 1 ELSE 0]
None == [e \in MCPeers |-> 0]
MCServer == {server}
=============================================================================
