------------------------- MODULE MCWebSocketServer -------------------------
(* Servers for TLC: of all options, and with an external HTTP server. *)
EXTENDS WebSocketServer, TLC

Symmetry == Permutations(Connections)

ExternalTracked == [mode : {"server", "noServer"}, clientTracking : {TRUE},
                    verifyClient : {"sync", "async"}, reentrant : {TRUE}]
=============================================================================
