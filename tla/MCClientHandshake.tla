------------------------- MODULE MCClientHandshake -------------------------
(* Clients and servers for TLC. *)
EXTENDS ClientHandshake

Choices == [serverNoContextTakeover : {Undefined, True, False},
            clientNoContextTakeover : {Undefined, True, False},
            serverMaxWindowBits : {Undefined, True, False, 9, 12},
            clientMaxWindowBits : {Undefined, True, False, 9, 12}]

Default == [serverNoContextTakeover |-> Undefined, clientNoContextTakeover |-> Undefined,
            serverMaxWindowBits |-> Undefined, clientMaxWindowBits |-> Undefined]

(* Every way to redirect, time out and be answered, with one extension;     *)
(* and every negotiation, plainly.                                          *)
MCClients ==
    [deflate : {<<>>, <<Default>>}, protocols : {{}, {"a"}}, followRedirects : BOOLEAN,
     maxRedirects : {0, 2}, timeout : BOOLEAN, handled : BOOLEAN]
    \cup
    [deflate : {<<o>> : o \in Choices},
     protocols : {{}}, followRedirects : {FALSE}, maxRedirects : {0}, timeout : {FALSE},
     handled : {FALSE}]

MCServers == {<<>>} \cup {<<o>> : o \in Choices}

Good == [upgrade |-> TRUE, accept |-> TRUE, protocol |-> <<>>, extensions |-> "absent",
         params |-> <<>>, granted |-> <<>>]

Params == [server_no_context_takeover |-> Undefined, client_no_context_takeover |-> True,
           server_max_window_bits |-> 10, client_max_window_bits |-> 10]

With(list) == [Good EXCEPT !.extensions = "permessage-deflate", !.params = list]

MCForeign ==
    {Good, [Good EXCEPT !.upgrade = FALSE], [Good EXCEPT !.accept = FALSE],
     [Good EXCEPT !.protocol = <<"b">>], [Good EXCEPT !.extensions = "malformed"],
     [Good EXCEPT !.extensions = "other"], With(<<Wire(Params)>>),
     With(<<Wire(Params), Wire(Params)>>),
     With(<<[Wire(Params) EXCEPT !["client_max_window_bits"] = <<10, 10>>]>>),
     With(<<[Wire(Params) EXCEPT !["client_max_window_bits"] = <<True>>]>>),
     With(<<[Wire(Params) EXCEPT !["server_max_window_bits"] = <<16>>]>>),
     With(<<[Wire(Params) EXCEPT !["unknown"] = <<True>>]>>)}
=============================================================================
