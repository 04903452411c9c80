---------------------------- MODULE Negotiation ----------------------------
(***************************************************************************)
(* The negotiation of permessage-deflate: offer(), accept(), and the two   *)
(* ends of it, acceptAsServer() and acceptAsClient(), in                   *)
(* lib/permessage-deflate.js, and what handleUpgrade() of                  *)
(* lib/websocket-server.js makes of an offer.                              *)
(*                                                                         *)
(* An option or a parameter is undefined (or absent), true, false, or a    *)
(* window in bits.  The header text is external: a parameter without a     *)
(* value is read as true, and one that is repeated has several values.     *)
(***************************************************************************)
EXTENDS Integers, Sequences

Undefined == 0
True == 1           \* what `+true` is, too
False == 2
Windows == 8 .. 15

Truthy(x) == x \notin {Undefined, False}
IsNumber(x) == x \in Windows

AllOptions == [serverNoContextTakeover : {Undefined, True, False},
               clientNoContextTakeover : {Undefined, True, False},
               serverMaxWindowBits : {Undefined, True, False} \cup Windows,
               clientMaxWindowBits : {Undefined, True, False} \cup Windows]

Keys == {"server_no_context_takeover", "client_no_context_takeover",
         "server_max_window_bits", "client_max_window_bits"}

Flag(condition) == IF condition THEN True ELSE Undefined

(* offer(): what the client asks for. *)
Offer(o) ==
    [server_no_context_takeover |-> Flag(Truthy(o.serverNoContextTakeover)),
     client_no_context_takeover |-> Flag(Truthy(o.clientNoContextTakeover)),
     server_max_window_bits |-> IF Truthy(o.serverMaxWindowBits) THEN o.serverMaxWindowBits
                                ELSE Undefined,
     client_max_window_bits |-> IF Truthy(o.clientMaxWindowBits) THEN o.clientMaxWindowBits
                                ELSE Flag(o.clientMaxWindowBits = Undefined)]

(* format() and parse() of lib/extension.js: a parameter has the values it  *)
(* is given, in general one.  A field "unknown" stands for any other key.   *)
Wire(p) == [k \in Keys \cup {"unknown"} |->
    IF k = "unknown" \/ p[k] = Undefined THEN <<>> ELSE <<p[k]>>]

-----------------------------------------------------------------------------
(* normalizeParams(): does it accept them, and what does it make of them?   *)
Valid(isServer, w) ==
    /\ w["unknown"] = <<>>
    /\ \A k \in Keys : w[k] = <<>> \/
          /\ Len(w[k]) = 1
          /\ w[k][1] \in CASE k = "client_max_window_bits" ->
                                IF isServer THEN Windows \cup {True} ELSE Windows
                           [] k = "server_max_window_bits" -> Windows
                           [] OTHER -> {True}

Normal(w) ==
    LET value(k) == IF w[k] = <<>> THEN Undefined ELSE w[k][1]
    IN [server_no_context_takeover |-> value("server_no_context_takeover"),
        client_no_context_takeover |-> value("client_no_context_takeover"),
        server_max_window_bits |-> value("server_max_window_bits"),
        client_max_window_bits |-> value("client_max_window_bits")]

(* acceptAsServer(): can the offer p be granted under the options o? *)
Acceptable(o, p) ==
    ~ \/ o.serverNoContextTakeover = False /\ Truthy(p.server_no_context_takeover)
      \/ /\ Truthy(p.server_max_window_bits)
         /\ \/ o.serverMaxWindowBits = False
            \/ IsNumber(o.serverMaxWindowBits) /\ o.serverMaxWindowBits > p.server_max_window_bits
      \/ IsNumber(o.clientMaxWindowBits) /\ ~Truthy(p.client_max_window_bits)

(* And what is granted then. *)
Granted(o, p) ==
    [server_no_context_takeover |->
        IF Truthy(o.serverNoContextTakeover) THEN True ELSE p.server_no_context_takeover,
     client_no_context_takeover |->
        IF Truthy(o.clientNoContextTakeover) THEN True ELSE p.client_no_context_takeover,
     server_max_window_bits |->
        IF IsNumber(o.serverMaxWindowBits) THEN o.serverMaxWindowBits
                                           ELSE p.server_max_window_bits,
     client_max_window_bits |->
        IF IsNumber(o.clientMaxWindowBits) THEN o.clientMaxWindowBits
        ELSE IF p.client_max_window_bits = True \/ o.clientMaxWindowBits = False THEN Undefined
        ELSE p.client_max_window_bits]

(* accept() of the server on the offers of a header: all of them must be    *)
(* valid, and the first acceptable one is granted.  <<>> means it throws.   *)
AcceptAsServer(o, offers) ==
    LET p(i) == Normal(offers[i])
        good == {i \in 1 .. Len(offers) : Acceptable(o, p(i))}
    IN IF (\E i \in 1 .. Len(offers) : ~Valid(TRUE, offers[i])) \/ good = {} THEN <<>>
       ELSE <<Granted(o, p(CHOOSE i \in good : \A j \in good : i <= j))>>

(* Faulty variant: the client's own window replaces the one it is told. *)
AcceptAsClientOwn(o, response) ==
    LET p == Normal(response[1])
        bits == p.client_max_window_bits
    IN IF \/ \E i \in 1 .. Len(response) : ~Valid(FALSE, response[i])
          \/ o.clientNoContextTakeover = False /\ Truthy(p.client_no_context_takeover)
          \/ /\ Truthy(bits)
             /\ o.clientMaxWindowBits = False
                \/ (IsNumber(o.clientMaxWindowBits) /\ bits > o.clientMaxWindowBits)
       THEN <<>>
       ELSE <<[p EXCEPT !.client_max_window_bits =
                  IF IsNumber(o.clientMaxWindowBits) THEN o.clientMaxWindowBits ELSE @]>>

(* accept() of the client on a response; of several only the first counts.  *)
AcceptAsClient(o, response) ==
    LET p == Normal(response[1])
        bits == p.client_max_window_bits
    IN IF \/ \E i \in 1 .. Len(response) : ~Valid(FALSE, response[i])
          \/ o.clientNoContextTakeover = False /\ Truthy(p.client_no_context_takeover)
          \/ /\ Truthy(bits)
             /\ o.clientMaxWindowBits = False
                \/ (IsNumber(o.clientMaxWindowBits) /\ bits > o.clientMaxWindowBits)
       THEN <<>>
       ELSE <<[p EXCEPT !.client_max_window_bits =
                  IF ~Truthy(@) /\ IsNumber(o.clientMaxWindowBits)
                    THEN o.clientMaxWindowBits ELSE @]>>

-----------------------------------------------------------------------------
(* What _compress() and _decompress() do with the parameters: 15 is zlib's  *)
(* default window.                                                          *)
Window(bits) == IF IsNumber(bits) THEN bits ELSE 15

(* Can the end with parameters q inflate what the end with parameters p     *)
(* deflates?  `bits` and `reset` are the values of the deflating end's      *)
(* parameters at both: the window must fit, and the context may be reset at *)
(* every message only where the other end does so.                          *)
Fits(bits, reset, bitsThere, resetThere) ==
    /\ Window(bits) <= Window(bitsThere)
    /\ Truthy(resetThere) => Truthy(reset)

Compatible(client, server) ==
    /\ Fits(client.client_max_window_bits, client.client_no_context_takeover,
            server.client_max_window_bits, server.client_no_context_takeover)
    /\ Fits(server.server_max_window_bits, server.server_no_context_takeover,
            client.server_max_window_bits, client.server_no_context_takeover)

(* Does the server keep to what the client asked of it? *)
Honoured(o, server) ==
    /\ Truthy(o.serverNoContextTakeover) => Truthy(server.server_no_context_takeover)
    /\ IsNumber(o.serverMaxWindowBits) => Window(server.server_max_window_bits) <= o.serverMaxWindowBits
=============================================================================
