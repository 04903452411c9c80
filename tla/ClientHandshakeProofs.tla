----------------------- MODULE ClientHandshakeProofs -----------------------
(***************************************************************************)
(* The opening handshake of ClientHandshake, for every set of clients, of  *)
(* servers and of replies.  The state of a handshake is one of four, and   *)
(* each says who is yet to report: Connecting, Opened, Closing, Closed.    *)
(* Together they are inductive, and one step leads from one to another.    *)
(***************************************************************************)
EXTENDS ClientHandshake, TLAPS

Last == redirects + 1

Types ==
    /\ options \in Clients
    /\ redirects \in Nat
    /\ answered \subseteq 1 .. Last
    /\ kAborted \subseteq 1 .. Last
    /\ due \subseteq 1 .. Last

(* The last request is under way, or was destroyed by the program and will  *)
(* say so; nobody aborted it.                                               *)
Connecting ==
    /\ readyState = "CONNECTING"
    /\ req = Last
    /\ kAborted = {}
    /\ \/ alive = {Last} /\ due = {}
       \/ alive = {} /\ due = {Last}
    /\ ticks = 0 /\ dying = <<>> /\ emitted = <<>>

Opened ==
    /\ readyState = "OPEN"
    /\ req = 0
    /\ due = {}
    /\ alive = {Last} /\ Last \in answered
    /\ ticks = 0 /\ dying = <<>> /\ emitted = <<"open">>

(* Every request still to report is one that was aborted. *)
Over == alive = {} /\ due \subseteq kAborted /\ req \in 0 .. Last

Closing ==
    /\ readyState = "CLOSING"
    /\ Over
    /\ \/ ticks = 1 /\ dying = <<>> /\ emitted = <<>>
       \/ ticks = 0 /\ dying = <<"error", "close">> /\ emitted = <<>>
       \/ ticks = 0 /\ dying = <<"close">> /\ emitted = <<"error">>

Closed ==
    /\ readyState = "CLOSED"
    /\ Over
    /\ ticks = 0 /\ dying = <<>> /\ emitted = <<"error", "close">>

Inv == Types /\ (Connecting \/ Opened \/ Closing \/ Closed)

(* The lists of events that occur. *)
LEMMA ErrorThenClose == Append(<<"error">>, "close") = <<"error", "close">>
<1> DEFINE list == Append(<<"error">>, "close")
<1>1. list \in Seq({"error", "close"}) /\ Len(list) = 2 /\ list[1] = "error" /\ list[2] = "close"
    OBVIOUS
<1> HIDE DEF list
<1>2. list = [i \in 1 .. 2 |-> list[i]]
    BY <1>1
<1>3. [i \in 1 .. 2 |-> list[i]] = <<"error", "close">>
    BY <1>1
<1> QED
    BY <1>2, <1>3 DEF list

LEMMA Lists ==
    /\ Head(<<"error", "close">>) = "error" /\ Tail(<<"error", "close">>) = <<"close">>
    /\ Head(<<"close">>) = "close" /\ Tail(<<"close">>) = <<>>
    /\ <<>> \o <<"error", "close">> = <<"error", "close">>
    /\ Append(<<>>, "open") = <<"open">>
    /\ Append(<<>>, "error") = <<"error">>
    /\ Append(<<"error">>, "close") = <<"error", "close">>
<1>1. Head(<<"error", "close">>) = "error" /\ Tail(<<"error", "close">>) = <<"close">>
    OBVIOUS
<1>2. Head(<<"close">>) = "close" /\ Tail(<<"close">>) = <<>>
    OBVIOUS
<1>3. <<>> \o <<"error", "close">> = <<"error", "close">>
    OBVIOUS
<1>4. Append(<<>>, "open") = <<"open">> /\ Append(<<>>, "error") = <<"error">>
    OBVIOUS
<1> QED
    BY <1>1, <1>2, <1>3, <1>4, ErrorThenClose

LEMMA ListsDiffer ==
    /\ <<"error", "close">> # <<>> /\ <<"close">> # <<>>
    /\ <<"error", "close">> # <<"close">>
    /\ <<"open">> # <<"error", "close">> /\ <<"error">> # <<"error", "close">>
    /\ <<"open">> # <<"error">>
    /\ <<"open">> # <<>> /\ <<"error">> # <<>>
OBVIOUS

LEMMA InitInv == Init => Inv
<1> SUFFICES ASSUME Init PROVE Inv
    OBVIOUS
<1>1. Types
    BY DEF Init, Types, Last
<1>2. Connecting
    BY DEF Init, Connecting, Last
<1> QED
    BY <1>1, <1>2 DEF Inv

-----------------------------------------------------------------------------
(* The actions that abort a request. *)
LEMMA AbortInv ==
    ASSUME Inv, Connecting, AbortRequest(Last),
           answered' \subseteq 1 .. Last,
           UNCHANGED <<options, req, redirects, dying>>
    PROVE  Inv'
<1>1. Last' = Last /\ Last \in 1 .. Last
    BY DEF Last, Inv, Types
<1>2. Types'
    BY <1>1 DEF Inv, Types, AbortRequest
<1>3. Over'
    <2>1. alive' = {}
        BY DEF Connecting, AbortRequest
    <2>2. due' \subseteq kAborted'
        BY DEF Connecting, AbortRequest
    <2>3. req' \in 0 .. Last'
        BY <1>1 DEF Connecting, Inv, Types, Last
    <2> QED
        BY <2>1, <2>2, <2>3 DEF Over
<1>4. Closing'
    BY <1>3 DEF Connecting, AbortRequest, Closing
<1> QED
    BY <1>2, <1>4 DEF Inv

LEMMA CloseInv == ASSUME Inv, Close PROVE Inv'
<1>1. Connecting
    BY DEF Inv, Close, Opened, Closing, Closed
<1>2. req = Last /\ AbortRequest(req) /\ answered' = answered
    BY <1>1 DEF Connecting, Close
<1>3. UNCHANGED <<options, req, redirects, dying>> /\ answered \subseteq 1 .. Last
    BY DEF Close, Inv, Types
<1> QED
    BY <1>1, <1>2, <1>3, AbortInv

LEMMA TimeoutInv == ASSUME Inv, Timeout PROVE Inv'
<1>1. req \in alive /\ Last # 0
    BY DEF Timeout, Inv, Types, Last
<1>2. Connecting
    BY <1>1 DEF Inv, Opened, Closing, Closed, Over
<1>3. req = Last /\ AbortRequest(req) /\ answered' = answered
    BY <1>2 DEF Connecting, Timeout
<1>4. UNCHANGED <<options, req, redirects, dying>> /\ answered \subseteq 1 .. Last
    BY DEF Timeout, Inv, Types
<1> QED
    BY <1>2, <1>3, <1>4, AbortInv

(* A request that is alive and not answered is the last one of a CONNECTING *)
(* WebSocket.                                                               *)
LEMMA Fresh ==
    ASSUME Inv, NEW n \in alive \ answered
    PROVE  Connecting /\ n = Last /\ alive = {Last} /\ due = {}
<1>1. Connecting
    BY DEF Inv, Opened, Closing, Closed, Over
<1> QED
    BY <1>1 DEF Connecting

LEMMA ResponseInv == ASSUME Inv, NEW n, Response(n) PROVE Inv'
<1>1. n \in alive \ answered /\ answered' = answered \cup {n}
    BY DEF Response
<1>2. Connecting /\ n = Last /\ alive = {Last} /\ due = {}
    BY <1>1, Fresh
<1>3. Last \in 1 .. Last
    BY DEF Last, Inv, Types
<1>4. answered' \subseteq 1 .. Last
    BY <1>1, <1>2, <1>3 DEF Inv, Types
<1>5. UNCHANGED <<options, req, redirects, dying>>
    BY DEF Response
<1>6. CASE AbortRequest(n)
    BY <1>2, <1>4, <1>5, <1>6, AbortInv
<1>7. CASE UNCHANGED <<readyState, alive, kAborted, due, ticks, emitted>>
    <2>1. Types'
        BY <1>4, <1>5, <1>7 DEF Inv, Types, Last
    <2>2. Connecting'
        BY <1>2, <1>5, <1>7 DEF Connecting, Last
    <2> QED
        BY <2>1, <2>2 DEF Inv
<1> QED
    BY <1>6, <1>7 DEF Response

-----------------------------------------------------------------------------
LEMMA RequestErrorInv == ASSUME Inv, NEW n, RequestError(n) PROVE Inv'
<1>1. UNCHANGED <<options, redirects, answered, kAborted, ticks, dying>> /\ Last' = Last
    BY DEF RequestError, Last
<1>2. due' = due \ {n} /\ alive' = alive \ {n}
    BY DEF RequestError
<1>3. Types'
    BY <1>1, <1>2 DEF Inv, Types
<1>4. CASE n \in kAborted
    <2>1. UNCHANGED <<readyState, emitted, req>>
        BY <1>4 DEF RequestError
    <2>2. Closing \/ Closed
        BY <1>4 DEF Inv, Connecting, Opened, RequestError
    <2>3. Over'
        BY <1>1, <1>2, <2>1, <2>2 DEF Closing, Closed, Over
    <2>4. Closing' \/ Closed'
        BY <1>1, <2>1, <2>2, <2>3 DEF Closing, Closed
    <2> QED
        BY <1>3, <2>4 DEF Inv
<1>5. CASE n \notin kAborted
    <2>1. EmitErrorAndClose /\ req' = 0
        BY <1>5 DEF RequestError
    <2>2. n \in due \/ n \in alive \ answered
        BY DEF RequestError
    <2>3. Connecting
        BY <1>5, <2>2 DEF Inv, Opened, Closing, Closed, Over
    <2>4. alive' = {} /\ due' = {}
        BY <1>2, <2>2, <2>3 DEF Connecting
    <2>5. 0 \in 0 .. Last'
        BY <1>1 DEF Inv, Types, Last
    <2>6. Over'
        BY <2>1, <2>4, <2>5 DEF Over
    <2>7. emitted' = <<"error", "close">> /\ readyState' = "CLOSED"
        BY <2>1, <2>3, Lists DEF EmitErrorAndClose, Connecting
    <2>8. Closed'
        BY <1>1, <2>3, <2>6, <2>7 DEF Connecting, Closed
    <2> QED
        BY <1>3, <2>8 DEF Inv
<1> QED
    BY <1>4, <1>5

(* A step of a redirect has one request more. *)
LEMMA MoreRequests ==
    ASSUME Inv, redirects' = redirects + 1
    PROVE  /\ redirects' \in Nat /\ Last' = Last + 1 /\ Last' = redirects + 2
           /\ Last \in 1 .. Last' /\ Last' \in 1 .. Last'
           /\ \A s : s \subseteq 1 .. Last => s \subseteq 1 .. Last'
           /\ 0 \in 0 .. Last' /\ Last \in 0 .. Last'
BY DEF Inv, Types, Last

LEMMA RedirectedInv == ASSUME Inv, NEW n, Redirected(n) PROVE Inv'
<1>1. n \in alive \ answered /\ answered' = answered \cup {n}
    BY DEF Redirected
<1>2. Connecting /\ n = Last /\ alive = {Last} /\ due = {}
    BY <1>1, Fresh
<1>3. redirects' = redirects + 1 /\ UNCHANGED <<options, dying>>
    BY DEF Redirected
<1>4. /\ redirects' \in Nat /\ Last' = redirects + 2
      /\ Last \in 1 .. Last' /\ Last' \in 1 .. Last'
      /\ 0 \in 0 .. Last' /\ Last \in 0 .. Last'
    BY <1>3, MoreRequests
<1>5. answered' \subseteq 1 .. Last'
    <2>1. answered \subseteq 1 .. Last'
        BY <1>3, MoreRequests DEF Inv, Types
    <2> QED
        BY <1>1, <1>2, <1>4, <2>1
<1>6. kAborted = {} /\ req = Last /\ ticks = 0 /\ dying = <<>> /\ emitted = <<>>
    BY <1>2 DEF Connecting
<1>7. CASE AbortRequest(n) /\ UNCHANGED req
    <2>1. kAborted' = {Last} /\ alive' = {} /\ due' \subseteq {Last}
        BY <1>2, <1>6, <1>7 DEF AbortRequest
    <2>2. readyState' = "CLOSING" /\ ticks' = 1 /\ dying' = <<>> /\ emitted' = <<>>
        BY <1>3, <1>6, <1>7 DEF AbortRequest
    <2>3. req' \in 0 .. Last'
        BY <1>4, <1>6, <1>7
    <2>4. Types'
        BY <1>3, <1>4, <1>5, <2>1 DEF Inv, Types
    <2>5. Closing'
        BY <2>1, <2>2, <2>3 DEF Closing, Over
    <2> QED
        BY <2>4, <2>5 DEF Inv
<1>8. CASE alive' = alive \ {n} /\ EmitErrorAndClose /\ UNCHANGED <<req, kAborted, due, ticks>>
    <2>1. alive' = {} /\ due' = {} /\ kAborted' = {} /\ req' \in 0 .. Last' /\ ticks' = 0
        BY <1>2, <1>4, <1>6, <1>8
    <2>2. readyState' = "CLOSED" /\ emitted' = <<"error", "close">> /\ dying' = <<>>
        BY <1>3, <1>6, <1>8, Lists DEF EmitErrorAndClose
    <2>3. Types'
        BY <1>3, <1>4, <1>5, <2>1 DEF Inv, Types
    <2>4. Closed'
        BY <2>1, <2>2 DEF Closed, Over
    <2> QED
        BY <2>3, <2>4 DEF Inv
<1>9. CASE Redirect(n, redirects + 2)
    <2>1. req' = Last' /\ emitted' = <<>> /\ dying' = <<>> /\ Last' \in 0 .. Last'
        BY <1>3, <1>4, <1>6, <1>9 DEF Redirect
    <2>2. PICK closes, destroys \in BOOLEAN :
             /\ IF closes THEN /\ readyState' = "CLOSING"
                               /\ kAborted' = {Last'}
                               /\ ticks' = 1
                ELSE readyState' = "CONNECTING" /\ kAborted' = {} /\ ticks' = 0
             /\ alive' = IF closes \/ destroys THEN {} ELSE {Last'}
             /\ due' = IF closes \/ destroys THEN {Last'} ELSE {}
        BY <1>2, <1>4, <1>6, <1>9 DEF Redirect, Connecting
    <2>3. kAborted' \subseteq {Last'} /\ due' \subseteq {Last'}
        BY <2>2
    <2>4. Types'
        BY <1>3, <1>4, <1>5, <2>3 DEF Inv, Types
    <2>5. CASE closes
        <3>1. Over'
            BY <2>1, <2>2, <2>5 DEF Over
        <3>2. Closing'
            BY <2>1, <2>2, <2>5, <3>1 DEF Closing
        <3> QED
            BY <2>4, <3>2 DEF Inv
    <2>6. CASE ~closes
        <3>1. Connecting'
            BY <2>1, <2>2, <2>6 DEF Connecting
        <3> QED
            BY <2>4, <3>1 DEF Inv
    <2> QED
        BY <2>5, <2>6
<1> QED
    BY <1>7, <1>8, <1>9 DEF Redirected

-----------------------------------------------------------------------------
LEMMA UpgradeInv == ASSUME Inv, NEW n, Upgrade(n) PROVE Inv'
<1>1. n \in alive \ answered /\ answered' = answered \cup {n}
    BY DEF Upgrade
<1>2. Connecting /\ n = Last /\ alive = {Last} /\ due = {}
    BY <1>1, Fresh
<1>3. UNCHANGED <<options, redirects>> /\ Last' = Last
    BY DEF Upgrade, Last
<1>4. Last \in 1 .. Last /\ 0 \in 0 .. Last
    BY DEF Last, Inv, Types
<1>5. answered' \subseteq 1 .. Last
    BY <1>1, <1>2, <1>4 DEF Inv, Types
<1>6. kAborted = {} /\ ticks = 0 /\ dying = <<>> /\ emitted = <<>>
    BY <1>2 DEF Connecting
<1>7. CASE AbortRequest(n) /\ UNCHANGED <<req, dying>>
    BY <1>2, <1>3, <1>5, <1>7, AbortInv
<1>8. CASE /\ req' = 0 /\ UNCHANGED <<kAborted, due, ticks>>
           /\ AbortSocket(n) /\ UNCHANGED emitted
    <2>1. alive' = {} /\ due' = {} /\ readyState' = "CLOSING" /\ dying' = <<"error", "close">>
        BY <1>2, <1>8 DEF AbortSocket
    <2>2. Types'
        BY <1>3, <1>5, <1>6, <1>8, <2>1 DEF Inv, Types
    <2>3. Closing'
        BY <1>3, <1>4, <1>6, <1>8, <2>1 DEF Closing, Over
    <2> QED
        BY <2>2, <2>3 DEF Inv
<1>9. CASE /\ req' = 0 /\ UNCHANGED <<kAborted, due, ticks>>
           /\ readyState' = "OPEN"
           /\ emitted' = Append(emitted, "open")
           /\ UNCHANGED <<alive, dying>>
    <2>1. emitted' = <<"open">>
        BY <1>6, <1>9, Lists
    <2>2. Types'
        BY <1>3, <1>5, <1>9 DEF Inv, Types
    <2>3. Opened'
        BY <1>1, <1>2, <1>3, <1>6, <1>9, <2>1 DEF Opened
    <2> QED
        BY <2>2, <2>3 DEF Inv
<1> QED
    BY <1>7, <1>8, <1>9 DEF Upgrade

LEMMA TickInv == ASSUME Inv, Tick PROVE Inv'
<1>1. Closing /\ ticks = 1 /\ dying = <<>> /\ emitted = <<>>
    BY DEF Inv, Tick, Connecting, Opened, Closing, Closed
<1>2. UNCHANGED <<options, requests, dying>> /\ ticks' = 0
    BY <1>1 DEF Tick
<1>3. readyState' = "CLOSED" /\ emitted' = <<"error", "close">>
    BY <1>1, Lists DEF Tick, EmitErrorAndClose
<1>4. Types' /\ Over'
    BY <1>1, <1>2 DEF Inv, Types, Closing, Over, Last, requests
<1>5. Closed'
    BY <1>1, <1>2, <1>3, <1>4 DEF Closed
<1> QED
    BY <1>4, <1>5 DEF Inv

LEMMA SocketEventInv == ASSUME Inv, SocketEvent PROVE Inv'
<1>1. dying # <<>> /\ dying' = Tail(dying) /\ emitted' = Append(emitted, Head(dying))
    BY DEF SocketEvent
<1>2. Closing /\ ticks = 0
    BY <1>1 DEF Inv, Connecting, Opened, Closing, Closed
<1>3. UNCHANGED <<options, requests, ticks>>
    BY DEF SocketEvent
<1>4. Types' /\ Over'
    BY <1>2, <1>3 DEF Inv, Types, Closing, Over, Last, requests
<1>5. CASE dying = <<"error", "close">> /\ emitted = <<>>
    <2>1. dying' = <<"close">> /\ emitted' = <<"error">> /\ Head(dying) = "error"
        BY <1>1, <1>5, Lists
    <2>2. readyState' = "CLOSING"
        BY <1>2, <2>1 DEF SocketEvent, Closing
    <2>3. Closing'
        BY <1>2, <1>3, <1>4, <2>1, <2>2 DEF Closing
    <2> QED
        BY <1>4, <2>3 DEF Inv
<1>6. CASE dying = <<"close">> /\ emitted = <<"error">>
    <2>1. dying' = <<>> /\ emitted' = <<"error", "close">> /\ Head(dying) = "close"
        BY <1>1, <1>6, Lists
    <2>2. readyState' = "CLOSED"
        BY <2>1 DEF SocketEvent
    <2>3. Closed'
        BY <1>2, <1>3, <1>4, <2>1, <2>2 DEF Closed
    <2> QED
        BY <1>4, <2>3 DEF Inv
<1> QED
    BY <1>1, <1>2, <1>5, <1>6 DEF Closing

(* Who is yet to report is known in every state. *)
THEOREM Invariance == Spec => []Inv
<1>1. Inv /\ [Next]_vars => Inv'
    <2> SUFFICES ASSUME Inv, [Next]_vars PROVE Inv'
        OBVIOUS
    <2>1. CASE Next
        BY <2>1, CloseInv, TimeoutInv, TickInv, SocketEventInv, RequestErrorInv, RedirectedInv,
           ResponseInv, UpgradeInv DEF Next
    <2>2. CASE UNCHANGED vars
        BY <2>2 DEF Inv, Types, Connecting, Opened, Closing, Closed, Over, Last, vars, requests
    <2> QED
        BY <2>1, <2>2
<1> QED
    BY InitInv, <1>1, PTL DEF Spec

(* Types, and somebody will report: initAsClient(), abortHandshake() and    *)
(* emitErrorAndClose() of lib/websocket.js.                                 *)
THEOREM TypeCorrect == Spec => []TypeOK
<1>1. Inv => TypeOK
    <2> SUFFICES ASSUME Inv PROVE TypeOK
        OBVIOUS
    <2>1. Last \in 1 .. Last /\ Last = redirects + 1 /\ Last \in 0 .. Last /\ 0 \in 0 .. Last
        BY DEF Inv, Types, Last
    <2>2. req \in 0 .. Last /\ alive \subseteq 1 .. Last
        BY <2>1 DEF Inv, Connecting, Opened, Closing, Closed, Over
    <2>3. ticks \in Nat /\ dying \in {<<>>, <<"close">>, <<"error", "close">>}
        BY DEF Inv, Connecting, Opened, Closing, Closed
    <2>4. readyState \in {"CONNECTING", "OPEN", "CLOSING", "CLOSED"}
        BY DEF Inv, Connecting, Opened, Closing, Closed
    <2>5. readyState = "CONNECTING" => req = Last /\ req \in (alive \cup due) \ kAborted
        BY DEF Inv, Connecting, Opened, Closing, Closed
    <2>6. readyState = "CLOSING" => ticks > 0 \/ dying # <<>>
        BY ListsDiffer DEF Inv, Connecting, Opened, Closing, Closed
    <2> QED
        BY <2>1, <2>2, <2>3, <2>4, <2>5, <2>6 DEF TypeOK, Inv, Types
<1> QED
    BY Invariance, <1>1, PTL

(* One outcome, told once, whatever aborts, times out or fails late.        *)
THEOREM OutcomeOnce == Spec => []OneOutcome
<1>1. Inv => OneOutcome
    BY ListsDiffer DEF OneOutcome, Inv, Connecting, Opened, Closing, Closed
<1> QED
    BY Invariance, <1>1, PTL

(* Only the last request has a connection, and none once the WebSocket is   *)
(* closing.                                                                 *)
THEOREM NoneLeft == Spec => []NothingLeftOpen
<1>1. Inv => NothingLeftOpen
    BY DEF NothingLeftOpen, Inv, Connecting, Opened, Closing, Closed, Over, Last
<1> QED
    BY Invariance, <1>1, PTL

-----------------------------------------------------------------------------
(* The negotiation. *)
Value == {Undefined, True, False} \cup Windows
Parameters == [server_no_context_takeover : Value, client_no_context_takeover : Value,
               server_max_window_bits : Value, client_max_window_bits : Value]

(* What is sent is what arrives. *)
LEMMA WireNormal ==
    ASSUME NEW p \in Parameters
    PROVE  Normal(Wire(p)) = p
<1> DEFINE w == Wire(p)
<1>1. \A k \in Keys : w[k] = IF p[k] = Undefined THEN <<>> ELSE <<p[k]>>
    BY DEF Wire, Keys
<1> HIDE DEF w
<1>2. \A k \in Keys : (IF w[k] = <<>> THEN Undefined ELSE w[k][1]) = p[k]
    <2> SUFFICES ASSUME NEW k \in Keys
                 PROVE  (IF w[k] = <<>> THEN Undefined ELSE w[k][1]) = p[k]
        OBVIOUS
    <2>1. CASE p[k] = Undefined
        BY <1>1, <2>1
    <2>2. CASE p[k] # Undefined
        <3>1. w[k] = <<p[k]>>
            BY <1>1, <2>2
        <3>2. w[k] # <<>> /\ w[k][1] = p[k]
            BY <3>1
        <3> QED
            BY <3>2
    <2> QED
        BY <2>1, <2>2
<1>3. Normal(w) = [server_no_context_takeover |-> p["server_no_context_takeover"],
                   client_no_context_takeover |-> p["client_no_context_takeover"],
                   server_max_window_bits |-> p["server_max_window_bits"],
                   client_max_window_bits |-> p["client_max_window_bits"]]
    BY <1>2 DEF Normal, Keys
<1> QED
    BY <1>3 DEF w, Parameters

LEMMA OfferParameters ==
    ASSUME NEW c \in AllOptions
    PROVE  Offer(c) \in Parameters
BY DEF Offer, AllOptions, Parameters, Value, Flag, Truthy, Undefined, True, False, Windows

LEMMA GrantedParameters ==
    ASSUME NEW o \in AllOptions, NEW p \in Parameters
    PROVE  Granted(o, p) \in Parameters
BY DEF Granted, AllOptions, Parameters, Value, Truthy, IsNumber, Undefined, True, False, Windows

(* What a server of this package grants to a client. *)
LEMMA ServerGrants ==
    ASSUME NEW o \in AllOptions, NEW c \in AllOptions,
           AcceptAsServer(o, <<Wire(Offer(c))>>) # <<>>
    PROVE  /\ Acceptable(o, Offer(c))
           /\ AcceptAsServer(o, <<Wire(Offer(c))>>) = <<Granted(o, Offer(c))>>
<1> DEFINE offers == <<Wire(Offer(c))>>
           p(i) == Normal(offers[i])
           good == {i \in 1 .. Len(offers) : Acceptable(o, p(i))}
<1>1. Len(offers) = 1 /\ p(1) = Offer(c)
    BY OfferParameters, WireNormal
<1>2. good # {} /\ AcceptAsServer(o, offers) = <<Granted(o, p(CHOOSE i \in good : \A j \in good : i <= j))>>
    <2>1. AcceptAsServer(o, offers) =
             IF (\E i \in 1 .. Len(offers) : ~Valid(TRUE, offers[i])) \/ good = {} THEN <<>>
             ELSE <<Granted(o, p(CHOOSE i \in good : \A j \in good : i <= j))>>
        BY Zenon DEF AcceptAsServer
    <2> QED
        BY <2>1, Zenon
<1>3. good = {1}
    BY <1>1, <1>2
<1>4. (CHOOSE i \in good : \A j \in good : i <= j) = 1
    BY <1>3
<1>5. Acceptable(o, p(1))
    BY <1>3
<1> HIDE DEF good, p
<1> QED
    BY <1>1, <1>2, <1>4, <1>5

(* What is agreed fits at both ends, whatever their options.                *)
LEMMA ClientTakes ==
    ASSUME NEW o \in AllOptions, NEW g \in Parameters, AcceptAsClient(o, <<Wire(g)>>) # <<>>
    PROVE  /\ Truthy(g.client_max_window_bits) => IsNumber(g.client_max_window_bits)
           /\ AcceptAsClient(o, <<Wire(g)>>) =
                 <<[g EXCEPT !.client_max_window_bits =
                      IF ~Truthy(@) /\ IsNumber(o.clientMaxWindowBits)
                        THEN o.clientMaxWindowBits ELSE @]>>
<1> DEFINE response == <<Wire(g)>>
<1>1. Len(response) = 1 /\ response[1] = Wire(g) /\ Normal(response[1]) = g
    BY WireNormal
<1> DEFINE refused ==
             LET bits == Normal(response[1]).client_max_window_bits
             IN \/ \E i \in 1 .. Len(response) : ~Valid(FALSE, response[i])
                \/ /\ o.clientNoContextTakeover = False
                   /\ Truthy(Normal(response[1]).client_no_context_takeover)
                \/ /\ Truthy(bits)
                   /\ \/ o.clientMaxWindowBits = False
                      \/ IsNumber(o.clientMaxWindowBits) /\ bits > o.clientMaxWindowBits
           taken == <<[Normal(response[1]) EXCEPT !.client_max_window_bits =
                         IF ~Truthy(@) /\ IsNumber(o.clientMaxWindowBits)
                           THEN o.clientMaxWindowBits ELSE @]>>
<1>2. /\ \A i \in 1 .. Len(response) : Valid(FALSE, response[i])
      /\ AcceptAsClient(o, response) = taken
    <2>1. AcceptAsClient(o, response) = IF refused THEN <<>> ELSE taken
        BY DEF AcceptAsClient
    <2>2. ~refused
        BY <2>1
    <2> QED
        BY <2>1, <2>2
<1>3. Valid(FALSE, Wire(g))
    <2>1. 1 \in 1 .. Len(response)
        BY <1>1
    <2>2. Valid(FALSE, response[1])
        BY <1>2, <2>1, Zenon
    <2> QED
        BY <1>1, <2>2
<1>4. LET bits == Wire(g)["client_max_window_bits"]
      IN bits = <<>> \/ bits[1] \in Windows
    BY <1>3, Zenon DEF Valid, Keys
<1>5. Wire(g)["client_max_window_bits"] =
         IF g.client_max_window_bits = Undefined THEN <<>> ELSE <<g.client_max_window_bits>>
    BY DEF Wire, Keys
<1>6. Truthy(g.client_max_window_bits) => IsNumber(g.client_max_window_bits)
    BY <1>4, <1>5 DEF Truthy, IsNumber
<1> QED
    BY <1>1, <1>2, <1>6

LEMMA Agreement ==
    ASSUME NEW o \in AllOptions, NEW c \in AllOptions,
           Acceptable(o, Offer(c)),
           NEW g, g = Granted(o, Offer(c)),
           Truthy(g.client_max_window_bits) => IsNumber(g.client_max_window_bits),
           NEW q, q = [g EXCEPT !.client_max_window_bits =
                         IF ~Truthy(@) /\ IsNumber(c.clientMaxWindowBits)
                           THEN c.clientMaxWindowBits ELSE @]
    PROVE  Compatible(q, g) /\ Honoured(c, g)
<1>1. g \in Parameters
    BY OfferParameters, GrantedParameters
<1>2. /\ q.server_max_window_bits = g.server_max_window_bits
      /\ q.server_no_context_takeover = g.server_no_context_takeover
      /\ q.client_no_context_takeover = g.client_no_context_takeover
      /\ q.client_max_window_bits = IF ~Truthy(g.client_max_window_bits) /\ IsNumber(c.clientMaxWindowBits)
                                      THEN c.clientMaxWindowBits ELSE g.client_max_window_bits
    BY <1>1 DEF Parameters
<1>3. Window(q.client_max_window_bits) <= Window(g.client_max_window_bits)
    BY <1>1, <1>2 DEF Window, IsNumber, Truthy, Windows, Undefined, False
<1>4. Window(g.server_max_window_bits) <= Window(q.server_max_window_bits)
    BY <1>1, <1>2 DEF Window, IsNumber, Windows
<1>5. Compatible(q, g)
    BY <1>2, <1>3, <1>4 DEF Compatible, Fits
<1>6. Truthy(c.serverNoContextTakeover) => Truthy(g.server_no_context_takeover)
    BY DEF Granted, Offer, Flag, Truthy, Undefined, True, False
<1>7. IsNumber(c.serverMaxWindowBits) => Window(g.server_max_window_bits) <= c.serverMaxWindowBits
    BY DEF Granted, Offer, Acceptable, Truthy, IsNumber, Window, Windows, AllOptions,
           Undefined, True, False
<1> QED
    BY <1>5, <1>6, <1>7 DEF Honoured

LEMMA UpgradeAgreed == ASSUME Inv, NEW n, Upgrade(n), readyState' = "OPEN" PROVE Agreed'
<1>1. PICK reply \in Replies :
         /\ ReplyOK(reply) /\ params' = Negotiated(reply) /\ peer' = reply.granted
    BY DEF Upgrade, AbortRequest, AbortSocket
<1>2. options' = options
    BY DEF Upgrade
<1> SUFFICES ASSUME peer' # <<>>
             PROVE  /\ params' # <<>>
                    /\ Compatible(params'[1], peer'[1])
                    /\ Honoured(options'.deflate[1], peer'[1])
    BY DEF Agreed
<1>3. PICK deflate \in Servers : reply \in Answers(deflate)
    BY <1>1, HandshakeAssumption DEF Replies
<1>4. ~Refuses(deflate) /\ reply.granted = Accepted(deflate)
    BY <1>3 DEF Answers
<1>5. /\ reply.extensions = IF Accepted(deflate) = <<>> THEN "absent" ELSE "permessage-deflate"
      /\ reply.params = [i \in 1 .. Len(Accepted(deflate)) |-> Wire(Accepted(deflate)[i])]
    BY <1>3 DEF Answers
<1>6. deflate # <<>> /\ options.deflate # <<>> /\ Accepted(deflate) # <<>>
    BY <1>1, <1>4 DEF Accepted
<1>7. deflate \in Deflates /\ options.deflate \in Deflates
    BY HandshakeAssumption DEF Inv, Types, AllClients
<1>8. deflate[1] \in AllOptions /\ options.deflate[1] \in AllOptions
    BY <1>6, <1>7 DEF Deflates
<1> DEFINE o == deflate[1]
           c == options.deflate[1]
           g == Granted(o, Offer(c))
<1>9. Acceptable(o, Offer(c)) /\ Accepted(deflate) = <<g>>
    BY <1>6, <1>8, ServerGrants DEF Accepted
<1>10. peer' = <<g>> /\ reply.params = <<Wire(g)>> /\ reply.extensions = "permessage-deflate"
    BY <1>1, <1>4, <1>5, <1>9
<1>11. params' = AcceptAsClient(c, <<Wire(g)>>) /\ params' # <<>>
    BY <1>1, <1>6, <1>10 DEF Negotiated, ReplyOK
<1>12. g \in Parameters
    BY <1>8, OfferParameters, GrantedParameters
<1> HIDE DEF o, c, g
<1>13. /\ Truthy(g.client_max_window_bits) => IsNumber(g.client_max_window_bits)
       /\ params' = <<[g EXCEPT !.client_max_window_bits =
                         IF ~Truthy(@) /\ IsNumber(c.clientMaxWindowBits)
                           THEN c.clientMaxWindowBits ELSE @]>>
    BY <1>8, <1>11, <1>12, ClientTakes DEF c
<1>14. Compatible(params'[1], g) /\ Honoured(c, g)
    BY <1>8, <1>9, <1>13, Agreement DEF o, c, g
<1> QED
    BY <1>2, <1>10, <1>11, <1>14 DEF c

LEMMA OnlyUpgradeOpens ==
    ASSUME Inv, Next, readyState' = "OPEN"
    PROVE  \E n \in 1 .. redirects + 1 : Upgrade(n)
<1>1. ~Close /\ ~Timeout
    BY DEF Close, Timeout, AbortRequest
<1>2. ~Tick
    BY DEF Tick, EmitErrorAndClose
<1>3. ~SocketEvent
    BY DEF Inv, Connecting, Opened, Closing, Closed, SocketEvent
<1>4. \A n : ~RequestError(n)
    BY DEF Inv, Connecting, Opened, Closing, Closed, RequestError, EmitErrorAndClose
<1>5. ASSUME NEW n, Redirected(n) PROVE FALSE
    <2>1. readyState = "CONNECTING"
        BY <1>5, Fresh DEF Redirected, Connecting
    <2> QED
        BY <1>5, <2>1 DEF Redirected, Redirect, AbortRequest, EmitErrorAndClose
<1>6. ASSUME NEW n, Response(n) PROVE FALSE
    <2>1. readyState = "CONNECTING"
        BY <1>6, Fresh DEF Response, Connecting
    <2> QED
        BY <1>6, <2>1 DEF Response, AbortRequest
<1> QED
    BY <1>1, <1>2, <1>3, <1>4, <1>5, <1>6 DEF Next

(* What the two ends of an open connection took the extension to be fits,   *)
(* for every options of client and server: acceptAsServer() and             *)
(* acceptAsClient() of lib/permessage-deflate.js.                           *)
THEOREM EndsAgree == Spec => []Agreed
<1>1. Init => Agreed
    BY DEF Init, Agreed
<1>2. Inv /\ Agreed /\ [Next]_vars => Agreed'
    <2> SUFFICES ASSUME Inv, Agreed, [Next]_vars, readyState' = "OPEN" PROVE Agreed'
        BY DEF Agreed
    <2>1. CASE UNCHANGED vars
        BY <2>1 DEF Agreed, vars
    <2>2. CASE \E n \in 1 .. redirects + 1 : Upgrade(n)
        BY <2>2, UpgradeAgreed
    <2> QED
        BY <2>1, <2>2, OnlyUpgradeOpens
<1> QED
    BY Invariance, <1>1, <1>2, PTL DEF Spec
=============================================================================
