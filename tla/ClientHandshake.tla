-------------------------- MODULE ClientHandshake --------------------------
(***************************************************************************)
(* The opening handshake of a client: initAsClient(), abortHandshake() and *)
(* emitErrorAndClose() of lib/websocket.js, and close() and terminate()    *)
(* while the WebSocket is CONNECTING.  With the connection open, module    *)
(* WebSocket goes on.                                                      *)
(*                                                                         *)
(* Requests are numbered; a redirect makes the next one.  The HTTP client, *)
(* its sockets and the servers are external: a request ends with an error, *)
(* a response or an upgrade, and one that is destroyed before it got an    *)
(* answer still emits 'error'.  An action is one event of a request, one   *)
(* callback of the runtime or one call of the program, with the listeners  *)
(* of the program that run inside it.                                      *)
(***************************************************************************)
EXTENDS Negotiation

CONSTANTS
    Protocols,      \* names of subprotocols
    Clients,        \* the options of WebSocket()
    Servers,        \* perMessageDeflate of the servers of this package
    Foreign         \* the replies of other servers to an upgrade

Deflates == {<<>>} \cup {<<o>> : o \in AllOptions}

(* timeout: handshakeTimeout is set; handled: 'unexpected-response' has a   *)
(* listener.                                                                *)
AllClients == [deflate : Deflates, protocols : SUBSET Protocols, followRedirects : BOOLEAN,
               maxRedirects : Nat, timeout : BOOLEAN, handled : BOOLEAN]

(* upgrade and accept: are the headers Upgrade and Sec-WebSocket-Accept     *)
(* right?  granted is no part of a reply but what the server did.           *)
AllReplies == [upgrade : BOOLEAN, accept : BOOLEAN,
               protocol : {<<>>} \cup {<<p>> : p \in Protocols},
               extensions : {"absent", "malformed", "other", "permessage-deflate"},
               params : Seq([Keys \cup {"unknown"} -> Seq(Int)]),
               granted : Seq([Keys -> Int])]

ASSUME HandshakeAssumption ==
    /\ Clients \subseteq AllClients
    /\ Servers \subseteq Deflates
    /\ Foreign \subseteq AllReplies
    /\ \A reply \in Foreign : /\ reply.granted = <<>>
                              /\ reply.extensions = "permessage-deflate" => reply.params # <<>>

VARIABLES
    options,        \* the options the client was made with
    readyState,     \* _readyState
    req,            \* _req: the number of a request, 0 for null
    redirects,      \* _redirects, one less than the requests made
    alive,          \* the requests whose connection is not destroyed
    answered,       \* the requests that got a response or an upgrade
    kAborted,       \* the requests with the mark of abortHandshake()
    due,            \* the destroyed requests whose 'error' is to come
    ticks,          \* emitErrorAndClose() calls waiting for process.nextTick
    dying,          \* events a socket destroyed by abortHandshake() has to emit
    params,         \* the params of _extensions, <<>> without the extension
    peer,           \* history: what the server made of the offer
    emitted         \* history: 'open', 'error' and 'close' of the WebSocket

requests == <<req, redirects, alive, answered, kAborted, due>>
vars == <<options, readyState, requests, ticks, dying, params, peer, emitted>>

Init ==
    /\ options \in Clients
    /\ readyState = "CONNECTING"
    /\ req = 1
    /\ redirects = 0
    /\ alive = {1}
    /\ answered = {}
    /\ kAborted = {}
    /\ due = {}
    /\ ticks = 0
    /\ dying = <<>>
    /\ params = <<>>
    /\ peer = <<>>
    /\ emitted = <<>>

-----------------------------------------------------------------------------
(* What the listeners of 'error' and 'close' may call finds the WebSocket   *)
(* CLOSING and then CLOSED without a socket, and returns.                   *)
EmitErrorAndClose ==
    /\ readyState' = "CLOSED"
    /\ emitted' = emitted \o <<"error", "close">>

(* Faulty variant: the request is aborted, which need not destroy the       *)
(* socket once the request is complete.                                     *)
AbortRequestOnly(n) ==
    /\ readyState' = "CLOSING"
    /\ kAborted' = kAborted \cup {n}
    /\ alive' = IF n \in answered' THEN alive ELSE alive \ {n}
    /\ due' = due \cup ({n} \ answered')
    /\ ticks' = ticks + 1
    /\ UNCHANGED emitted

(* abortHandshake() on a request. *)
AbortRequest(n) ==
    /\ readyState' = "CLOSING"
    /\ kAborted' = kAborted \cup {n}
    /\ alive' = alive \ {n}
    /\ due' = due \cup ({n} \ answered')
    /\ ticks' = ticks + 1
    /\ UNCHANGED emitted

(* abortHandshake() on the socket of an upgrade. *)
AbortSocket(n) ==
    /\ readyState' = "CLOSING"
    /\ alive' = alive \ {n}
    /\ dying' = <<"error", "close">>

-----------------------------------------------------------------------------
(* close() and terminate(); in any later state they do nothing here. *)
Close ==
    /\ readyState = "CONNECTING"
    /\ UNCHANGED answered
    /\ AbortRequest(req)
    /\ UNCHANGED <<options, req, redirects, dying, params, peer>>

(* Faulty variant: the request is aborted and nobody told. *)
TimeoutSilent ==
    /\ options.timeout
    /\ req \in alive
    /\ kAborted' = kAborted \cup {req}
    /\ alive' = alive \ {req}
    /\ UNCHANGED <<options, readyState, req, redirects, answered, due, ticks, dying,
                   params, peer, emitted>>

(* The 'timeout' of a request whose connection is idle; the connection of   *)
(* an upgrade has no timer.                                                 *)
Timeout ==
    /\ options.timeout
    /\ req \in alive
    /\ UNCHANGED answered
    /\ AbortRequest(req)
    /\ UNCHANGED <<options, req, redirects, dying, params, peer>>

(* Faulty variant: the mark of abortHandshake() is not looked at. *)
RequestErrorAnyway(n) ==
    /\ n \in due \/ (n \in alive /\ n \notin answered)
    /\ due' = due \ {n}
    /\ alive' = alive \ {n}
    /\ EmitErrorAndClose
    /\ req' = 0
    /\ UNCHANGED <<options, redirects, answered, kAborted, ticks, dying, params, peer>>

(* The 'error' of a request: the connection failed, or it was destroyed. *)
RequestError(n) ==
    /\ n \in due \/ (n \in alive /\ n \notin answered)
    /\ due' = due \ {n}
    /\ alive' = alive \ {n}
    /\ IF n \in kAborted THEN UNCHANGED <<readyState, emitted, req>>
       ELSE EmitErrorAndClose /\ req' = 0
    /\ UNCHANGED <<options, redirects, answered, kAborted, ticks, dying, params, peer>>

(* Faulty variant: _req keeps the request before. *)
RedirectStale(n, next) ==
    /\ \E closes, destroys \in BOOLEAN :
          /\ IF closes THEN /\ readyState' = "CLOSING"
                            /\ kAborted' = kAborted \cup {next}
                            /\ ticks' = ticks + 1
             ELSE UNCHANGED <<readyState, kAborted, ticks>>
          /\ alive' = (alive \ {n}) \cup (IF closes \/ destroys THEN {} ELSE {next})
          /\ due' = due \cup (IF closes \/ destroys THEN {next} ELSE {})
    /\ UNCHANGED <<req, emitted>>

(* The next request, and what a listener of 'redirect' may do to it: call   *)
(* close(), destroy the request with an error, or both.                     *)
Redirect(n, next) ==
    /\ req' = next
    /\ \E closes, destroys \in BOOLEAN :
          /\ IF closes THEN /\ readyState' = "CLOSING"
                            /\ kAborted' = kAborted \cup {next}
                            /\ ticks' = ticks + 1
             ELSE UNCHANGED <<readyState, kAborted, ticks>>
          /\ alive' = (alive \ {n}) \cup (IF closes \/ destroys THEN {} ELSE {next})
          /\ due' = due \cup (IF closes \/ destroys THEN {next} ELSE {})
    /\ UNCHANGED emitted

(* A response that redirects: too often, to no URL or one of another        *)
(* scheme, or to a server.                                                  *)
Redirected(n) ==
    /\ options.followRedirects
    /\ n \in alive \ answered
    /\ answered' = answered \cup {n}
    /\ redirects' = redirects + 1
    /\ \/ redirects + 1 > options.maxRedirects /\ AbortRequest(n) /\ UNCHANGED req
       \/ /\ redirects + 1 <= options.maxRedirects
          /\ alive' = alive \ {n}
          /\ EmitErrorAndClose
          /\ UNCHANGED <<req, kAborted, due, ticks>>
       \/ redirects + 1 <= options.maxRedirects /\ Redirect(n, redirects + 2)
    /\ UNCHANGED <<options, dying, params, peer>>

(* Any other response.  The listener of 'unexpected-response' may leave the *)
(* request to the program.                                                  *)
Response(n) ==
    /\ n \in alive \ answered
    /\ answered' = answered \cup {n}
    /\ \/ AbortRequest(n)
       \/ options.handled /\ UNCHANGED <<readyState, alive, kAborted, due, ticks, emitted>>
    /\ UNCHANGED <<options, req, redirects, dying, params, peer>>

-----------------------------------------------------------------------------
(* What handleUpgrade() and completeUpgrade() of a server answer, if they   *)
(* do not refuse: handleProtocols() may choose as it likes.                 *)
Accepted(deflate) ==
    IF deflate = <<>> \/ options.deflate = <<>> THEN <<>>
    ELSE AcceptAsServer(deflate[1], <<Wire(Offer(options.deflate[1]))>>)

Refuses(deflate) == deflate # <<>> /\ options.deflate # <<>> /\ Accepted(deflate) = <<>>

Answers(deflate) ==
    IF Refuses(deflate) THEN {}
    ELSE [upgrade : {TRUE}, accept : {TRUE},
          protocol : IF options.protocols = {} THEN {<<>>}
                     ELSE {<<>>} \cup {<<p>> : p \in Protocols},
          extensions : {IF Accepted(deflate) = <<>> THEN "absent" ELSE "permessage-deflate"},
          params : {[i \in 1 .. Len(Accepted(deflate)) |-> Wire(Accepted(deflate)[i])]},
          granted : {Accepted(deflate)}]

Replies == Foreign \cup UNION {Answers(deflate) : deflate \in Servers}

(* The client's view of a reply. *)
ProtocolError(reply) ==
    IF reply.protocol = <<>> THEN options.protocols # {}
    ELSE reply.protocol[1] \notin options.protocols

(* The params the client takes over, <<>> if it refuses the header. *)
Negotiated(reply) ==
    IF options.deflate = <<>> \/ reply.extensions # "permessage-deflate" THEN <<>>
    ELSE AcceptAsClient(options.deflate[1], reply.params)

ReplyOK(reply) ==
    /\ reply.upgrade
    /\ reply.accept
    /\ ~ProtocolError(reply)
    /\ reply.extensions # "absent" => Negotiated(reply) # <<>>

(* An upgrade: the listener of 'upgrade' may call close(); the reply may be *)
(* wrong; or the connection is open.                                        *)
Upgrade(n) ==
    /\ n \in alive \ answered
    /\ answered' = answered \cup {n}
    /\ \/ AbortRequest(n) /\ UNCHANGED <<req, dying, params, peer>>
       \/ \E reply \in Replies :
             /\ req' = 0
             /\ UNCHANGED <<kAborted, due, ticks>>
             /\ \/ /\ ~ReplyOK(reply)
                   /\ AbortSocket(n)
                   /\ UNCHANGED <<params, peer, emitted>>
                \/ /\ ReplyOK(reply)
                   /\ params' = Negotiated(reply)
                   /\ peer' = reply.granted
                   /\ readyState' = "OPEN"
                   /\ emitted' = Append(emitted, "open")
                   /\ UNCHANGED <<alive, dying>>
    /\ UNCHANGED <<options, redirects>>

(* process.nextTick(emitErrorAndClose). *)
Tick ==
    /\ ticks > 0
    /\ ticks' = ticks - 1
    /\ EmitErrorAndClose
    /\ UNCHANGED <<options, requests, dying, params, peer>>

(* The 'error' and the 'close' of the socket of a refused upgrade. *)
SocketEvent ==
    /\ dying # <<>>
    /\ dying' = Tail(dying)
    /\ emitted' = Append(emitted, Head(dying))
    /\ readyState' = IF Head(dying) = "close" THEN "CLOSED" ELSE readyState
    /\ UNCHANGED <<options, requests, ticks, params, peer>>

Next ==
    \/ Close \/ Timeout \/ Tick \/ SocketEvent
    \/ \E n \in 1 .. redirects + 1 :
          RequestError(n) \/ Redirected(n) \/ Response(n) \/ Upgrade(n)

Spec == Init /\ [][Next]_vars

(* The runtime serves its queue, a destroyed socket and a destroyed request *)
(* report, and a timer fires; servers need not answer.                      *)
FairSpec ==
    /\ Spec
    /\ WF_vars(Tick) /\ WF_vars(SocketEvent)
    /\ WF_vars(req \notin answered /\ Timeout)
    /\ WF_vars(\E n \in due : RequestError(n))

-----------------------------------------------------------------------------
(* Types; and somebody will report: a CONNECTING WebSocket has a request    *)
(* that nobody aborted and that is under way or has an 'error' to come, a   *)
(* CLOSING one a callback to come.                                          *)
TypeOK ==
    /\ options \in Clients
    /\ readyState \in {"CONNECTING", "OPEN", "CLOSING", "CLOSED"}
    /\ redirects \in Nat /\ req \in 0 .. redirects + 1
    /\ alive \subseteq 1 .. redirects + 1 /\ answered \subseteq 1 .. redirects + 1
    /\ kAborted \subseteq 1 .. redirects + 1 /\ due \subseteq 1 .. redirects + 1
    /\ ticks \in Nat
    /\ dying \in {<<>>, <<"close">>, <<"error", "close">>}
    /\ readyState = "CONNECTING" => /\ req = redirects + 1
                                    /\ req \in (alive \cup due) \ kAborted
    /\ readyState = "CLOSING" => ticks > 0 \/ dying # <<>>

(* One outcome, once: 'open', or 'error' and then 'close', whatever is      *)
(* aborted, times out, fails late or is closed by a listener.               *)
OneOutcome ==
    /\ emitted \in {<<>>, <<"open">>, <<"error">>, <<"error", "close">>}
    /\ readyState = "OPEN" <=> emitted = <<"open">>
    /\ readyState = "CLOSED" <=> emitted = <<"error", "close">>

(* No connection is left behind: not of a redirected request, and none once *)
(* the WebSocket is closing.                                                *)
NothingLeftOpen ==
    /\ alive \subseteq {redirects + 1}
    /\ readyState \in {"CLOSING", "CLOSED"} => alive = {}

(* When a server of this package has granted the extension, an open         *)
(* connection has it at both ends, what one end deflates the other can      *)
(* inflate, and the server keeps to what the client asked of it.            *)
Agreed ==
    readyState = "OPEN" /\ peer # <<>> =>
        /\ params # <<>>
        /\ Compatible(params[1], peer[1])
        /\ Honoured(options.deflate[1], peer[1])

(* A handshake with a timeout and no listener of 'unexpected-response' ends, *)
(* whatever the servers do, and one that is given up is reported.            *)
Settles ==
    /\ (options.timeout /\ ~options.handled) ~> readyState \in {"OPEN", "CLOSED"}
    /\ readyState = "CLOSING" ~> readyState = "CLOSED"
=============================================================================
