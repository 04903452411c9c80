--------------------------- MODULE WebSocketServer ---------------------------
(***************************************************************************)
(* The WebSocketServer of lib/websocket-server.js: upgrades, client        *)
(* tracking and close(), in its three modes.  An action is one call of the *)
(* program or one callback of the runtime; an upgrade is two of them,      *)
(* because completeUpgrade() runs code of the program (handleProtocols and *)
(* the listeners of 'headers') between its check of _state and clients.add.*)
(***************************************************************************)
EXTENDS Naturals

CONSTANTS
    Connections,    \* sockets that ask for an upgrade
    Options,        \* the options a server may be made with
    MaxCloses       \* bound: calls of server.close()

(* reentrant: may the code of the program inside an upgrade call close()? *)
AllOptions == [mode : {"port", "server", "noServer"}, clientTracking : BOOLEAN,
               verifyClient : {"sync", "async"}, reentrant : BOOLEAN]

ASSUME ServerAssumption ==
    /\ Options \subseteq AllOptions
    /\ MaxCloses \in Nat

VARIABLES
    options,            \* this.options
    state,              \* _state
    attached,           \* are the listeners of addListeners() on the HTTP server?
    shouldEmitClose,    \* _shouldEmitClose
    clients,            \* clients, empty when they are not tracked
    conn,               \* conn[c]: how far c has got, see Phases
    http,               \* the internal HTTP server (mode "port")
    ticks,              \* emitClose() calls waiting for process.nextTick
    answers,            \* answers[k]: the callback given to the k-th close()
    calls,              \* calls of close() so far
    emitted             \* history: 'close' events

vars == <<options, state, attached, shouldEmitClose, clients, conn, http,
          ticks, answers, calls, emitted>>

(* "hungup": verifying, but the client has sent FIN; "aborting": answered   *)
(* with an error, the socket not yet closed; "ending": the socket of the    *)
(* WebSocket is destroyed, its 'close' event is to come.                    *)
Phases == {"none", "verifying", "hungup", "upgrading", "open", "ending", "aborting", "gone"}

Answers == {"none", "waiting", "waitingClosed", "called", "calledWithError"}

Init ==
    /\ options \in Options
    /\ state = "RUNNING"
    /\ attached = (options.mode # "noServer")
    /\ shouldEmitClose = FALSE
    /\ clients = {}
    /\ conn = [c \in Connections |-> "none"]
    /\ http = "listening"
    /\ ticks = 0
    /\ answers = [k \in 1 .. MaxCloses |-> "none"]
    /\ calls = 0
    /\ emitted = 0

Internal == options.mode = "port"

(* JavaScript inside completeUpgrade(). *)
Upgrading == \E c \in Connections : conn[c] = "upgrading"

Become(c, phase) == conn' = [conn EXCEPT ![c] = phase]

-----------------------------------------------------------------------------
(* Faulty variant: the state of the server is not looked at again. *)
CompleteUpgradeUnchecked(c) ==
    Become(c, IF conn[c] = "hungup" THEN "gone" ELSE "upgrading")

(* completeUpgrade() up to the program's code in it. *)
CompleteUpgrade(c) ==
    Become(c, CASE conn[c] = "hungup" -> "gone"
                [] conn[c] # "hungup" /\ state # "RUNNING" -> "aborting"
                [] OTHER -> "upgrading")

(* handleUpgrade(), called by the HTTP server or, in "noServer" mode, by the *)
(* program.  The request may be refused for what it is.                     *)
Request(c) ==
    /\ ~Upgrading
    /\ conn[c] = "none"
    /\ attached \/ options.mode = "noServer"
    /\ \/ Become(c, "aborting")
       \/ options.verifyClient = "async" /\ Become(c, "verifying")
       \/ options.verifyClient = "sync" /\ CompleteUpgrade(c)
    /\ UNCHANGED <<options, state, attached, shouldEmitClose, clients, http,
                   ticks, answers, calls, emitted>>

(* The program calls back from verifyClient. *)
Verified(c) ==
    /\ ~Upgrading
    /\ conn[c] \in {"verifying", "hungup"}
    /\ Become(c, "aborting") \/ CompleteUpgrade(c)
    /\ UNCHANGED <<options, state, attached, shouldEmitClose, clients, http,
                   ticks, answers, calls, emitted>>

(* Faulty variant: the client is not tracked. *)
AdmitUntracked(c) ==
    /\ conn[c] = "upgrading"
    /\ Become(c, "open")
    /\ UNCHANGED <<options, state, attached, shouldEmitClose, clients, http,
                   ticks, answers, calls, emitted>>

(* The rest of completeUpgrade(). *)
Admit(c) ==
    /\ conn[c] = "upgrading"
    /\ Become(c, "open")
    /\ clients' = IF options.clientTracking THEN clients \cup {c} ELSE clients
    /\ UNCHANGED <<options, state, attached, shouldEmitClose, http, ticks,
                   answers, calls, emitted>>

-----------------------------------------------------------------------------
(* What the program hears when emitClose() runs: every callback waiting. *)
EmitClose ==
    /\ state' = "CLOSED"
    /\ emitted' = emitted + 1
    /\ answers' = [k \in DOMAIN answers |->
                     CASE answers[k] = "waiting" -> "called"
                       [] answers[k] = "waitingClosed" -> "calledWithError"
                       [] OTHER -> answers[k]]

(* Faulty variant: the 'close' event is promised only where there are        *)
(* clients left.                                                            *)
StopForgets ==
    /\ attached' = FALSE
    /\ IF Internal
         THEN http' = "closing" /\ UNCHANGED <<ticks, shouldEmitClose>>
         ELSE /\ shouldEmitClose' = (clients # {})
              /\ UNCHANGED <<http, ticks>>

(* Faulty variant: the 'close' event does not wait for the clients. *)
StopAtOnce ==
    /\ attached' = FALSE
    /\ ticks' = ticks + 1
    /\ IF Internal THEN http' = "closing" ELSE UNCHANGED http
    /\ UNCHANGED shouldEmitClose

(* close() of a running server, after _state is set. *)
Stop ==
    /\ attached' = FALSE
    /\ IF Internal
         THEN http' = "closing" /\ UNCHANGED <<ticks, shouldEmitClose>>
         ELSE /\ UNCHANGED http
              /\ IF clients = {}
                   THEN ticks' = ticks + 1 /\ UNCHANGED shouldEmitClose
                   ELSE shouldEmitClose' = TRUE /\ UNCHANGED ticks

(* close(), with a callback or without. *)
Close ==
    /\ Upgrading => options.reentrant
    /\ calls < MaxCloses
    /\ calls' = calls + 1
    /\ \E cb \in BOOLEAN :
          answers' = [answers EXCEPT ![calls + 1] =
                        CASE ~cb -> "none"
                          [] cb /\ state = "CLOSED" -> "waitingClosed"
                          [] OTHER -> "waiting"]
    /\ CASE state = "CLOSED" ->
              ticks' = ticks + 1 /\ UNCHANGED <<state, attached, http, shouldEmitClose>>
         [] state = "CLOSING" ->
              UNCHANGED <<state, attached, http, shouldEmitClose, ticks>>
         [] OTHER -> state' = "CLOSING" /\ Stop
    /\ UNCHANGED <<options, clients, conn, emitted>>

(* process.nextTick(emitClose, server). *)
Tick ==
    /\ ~Upgrading
    /\ ticks > 0
    /\ ticks' = ticks - 1
    /\ EmitClose
    /\ UNCHANGED <<options, attached, shouldEmitClose, clients, conn, http, calls>>

(* The internal HTTP server has no connection left, the upgraded ones        *)
(* included, and calls back.                                                *)
HttpClosed ==
    /\ http = "closing"
    /\ \A c \in Connections : conn[c] \in {"none", "ending", "gone"}
    /\ http' = "closed"
    /\ EmitClose
    /\ UNCHANGED <<options, attached, shouldEmitClose, clients, conn, ticks, calls>>

-----------------------------------------------------------------------------
(* The client sends FIN while verifyClient is at work. *)
HangUp(c) ==
    /\ ~Upgrading
    /\ conn[c] = "verifying"
    /\ Become(c, "hungup")
    /\ UNCHANGED <<options, state, attached, shouldEmitClose, clients, http,
                   ticks, answers, calls, emitted>>

(* The socket of a connection is destroyed: socketOnError() before it is a   *)
(* WebSocket, for whatever reason later.                                    *)
SocketGone(c) ==
    /\ ~Upgrading
    /\ conn[c] \in {"verifying", "hungup", "open"}
    /\ Become(c, IF conn[c] = "open" THEN "ending" ELSE "gone")
    /\ UNCHANGED <<options, state, attached, shouldEmitClose, clients, http,
                   ticks, answers, calls, emitted>>

(* The answer of abortHandshake() is sent and the socket destroyed. *)
Aborted(c) ==
    /\ ~Upgrading
    /\ conn[c] = "aborting"
    /\ Become(c, "gone")
    /\ UNCHANGED <<options, state, attached, shouldEmitClose, clients, http,
                   ticks, answers, calls, emitted>>

(* Faulty variant: every client that goes makes the server emit 'close'. *)
ClientClosedAny(c) ==
    /\ ~Upgrading
    /\ conn[c] = "ending"
    /\ Become(c, "gone")
    /\ clients' = clients \ {c}
    /\ ticks' = IF shouldEmitClose THEN ticks + 1 ELSE ticks
    /\ UNCHANGED <<options, state, attached, shouldEmitClose, http, answers,
                   calls, emitted>>

(* The 'close' event of a WebSocket, with the listener that tracks it. *)
ClientClosed(c) ==
    /\ ~Upgrading
    /\ conn[c] = "ending"
    /\ Become(c, "gone")
    /\ clients' = clients \ {c}
    /\ ticks' = IF shouldEmitClose /\ clients = {c} THEN ticks + 1 ELSE ticks
    /\ UNCHANGED <<options, state, attached, shouldEmitClose, http, answers,
                   calls, emitted>>

-----------------------------------------------------------------------------
Runtime ==
    \/ Tick
    \/ HttpClosed
    \/ \E c \in Connections : Admit(c) \/ Aborted(c) \/ ClientClosed(c)

Next ==
    \/ Close
    \/ Runtime
    \/ \E c \in Connections : Request(c) \/ Verified(c) \/ HangUp(c) \/ SocketGone(c)

(* The runtime calls back and completeUpgrade() returns.  Neither clients    *)
(* nor the program are assumed to do anything.                              *)
Spec == Init /\ [][Next]_vars /\ WF_vars(Runtime)

-----------------------------------------------------------------------------
(* The types of the variables; clients holds those whose 'connection' event  *)
(* was emitted and whose 'close' event was not, if they are tracked.        *)
TypeOK ==
    /\ options \in Options
    /\ state \in {"RUNNING", "CLOSING", "CLOSED"}
    /\ attached \in BOOLEAN
    /\ shouldEmitClose \in BOOLEAN
    /\ conn \in [Connections -> Phases]
    /\ clients = {c \in Connections : options.clientTracking /\ conn[c] \in {"open", "ending"}}
    /\ http \in {"listening", "closing", "closed"}
    /\ ticks \in Nat
    /\ answers \in [1 .. MaxCloses -> Answers]
    /\ calls \in 0 .. MaxCloses
    /\ emitted \in Nat

(* doc/ws.md: 'close' is emitted when all connections are closed, unless the *)
(* HTTP server is external and the clients are not tracked.  With tracked    *)
(* clients of an external server even their 'close' events are over.        *)
ClosedMeansClosed ==
    state = "CLOSED" =>
        /\ Internal \/ options.clientTracking =>
              \A c \in Connections : conn[c] \notin {"upgrading", "open"}
        /\ ~Internal => clients = {}

(* The same whatever the program calls inside an upgrade, for a server that  *)
(* waits for its own HTTP server (websocket-server.js:187).                  *)
ClosedUnlessReentered == Internal \/ ~options.reentrant => ClosedMeansClosed

(* Once close() was called no connection opens, however long its upgrade     *)
(* has been waiting for verifyClient; but one inside which it was called.   *)
NoLateOpen ==
    [][\A c \in Connections :
          conn'[c] = "open" /\ conn[c] # "open" => calls = 0 \/ options.reentrant]_vars

(* 'close' is emitted at most once for a call of close(), although the       *)
(* nextTick, the last client and the HTTP server may each bring it about.   *)
OneEventPerCall == emitted + ticks <= calls

(* Once every socket is gone, or has only its 'close' event to come, every   *)
(* callback given to close() is called.                                     *)
CloseIsAnswered ==
    \A k \in 1 .. MaxCloses :
        /\ answers[k] \in {"waiting", "waitingClosed"}
        /\ \A c \in Connections : conn[c] \in {"none", "ending", "aborting", "gone"}
        ~> answers[k] \in {"called", "calledWithError"}
=============================================================================
