----------------------------- MODULE WebSocket -----------------------------
(***************************************************************************)
(* Two WebSocket endpoints of lib/websocket.js joined by a TCP connection, *)
(* from the 'open' event to the 'close' events.  Each endpoint is the      *)
(* WebSocket with its sender, its receiver and the net.Socket whose events *)
(* drive it.  An action is one call of the program or one callback of the  *)
(* runtime; the code of an endpoint runs to completion, so its parts are   *)
(* operators from endpoint states to endpoint states, one per function,    *)
(* that call each other as the functions do.                               *)
(*                                                                         *)
(* A frame is indivisible here; a data frame is a whole message.           *)
(***************************************************************************)
EXTENDS Naturals, Sequences

CONSTANTS
    Peers,          \* the two endpoints
    MaxMessages,    \* bound: MaxMessages[e] messages sent by e
    MaxPings,       \* bound: MaxPings[e] pings sent by e
    Kinds,          \* kinds of messages: "data", "big" (over the peer's maxPayload)
    Deflate,        \* is permessage-deflate negotiated?
    Codes,          \* status codes the program closes with (1005: none given)
    HighWaterMark,  \* of the receiver, in frames
    Pausing,        \* the endpoints whose program uses pause() and resume()
    Faults          \* may the network fail?

ASSUME WebSocketAssumption ==
    /\ Peers # {}
    /\ \A e \in Peers : \E o \in Peers : Peers = {e, o} /\ e # o
    /\ MaxMessages \in [Peers -> Nat]
    /\ MaxPings \in [Peers -> Nat]
    /\ Kinds \subseteq {"data", "big"}
    /\ Deflate \in BOOLEAN
    /\ Codes \subseteq {1000, 1005}
    /\ HighWaterMark \in Nat \ {0}
    /\ Pausing \subseteq Peers
    /\ Faults \in BOOLEAN

VARIABLES
    ep,     \* ep[e]: the state of endpoint e
    chan    \* chan[e]: frames of e on the wire, not yet read by its peer

vars == <<ep, chan>>

Other(e) == CHOOSE o \in Peers : o # e

-----------------------------------------------------------------------------
(* Frames.  z: the payload is deflated; code: the status of a close frame. *)
FrameTypes == {"data", "big", "ping", "pong", "close"}
StatusCodes == {1000, 1005, 1009}
Frames == [t : FrameTypes, z : BOOLEAN, code : StatusCodes]

Message(kind, z) == [t |-> kind, z |-> z, code |-> 1005]
Ping == [t |-> "ping", z |-> FALSE, code |-> 1005]
Pong == [t |-> "pong", z |-> FALSE, code |-> 1005]
CloseFrame(code) == [t |-> "close", z |-> FALSE, code |-> code]

(* The state of an endpoint whose socket has just been set up: setSocket(). *)
Opened ==
    [ws   |-> [readyState         |-> "OPEN",     \* _readyState
               closeFrameReceived |-> FALSE,      \* _closeFrameReceived
               closeFrameSent     |-> FALSE,      \* _closeFrameSent
               closeCode          |-> 1006,       \* _closeCode
               closeTimer         |-> FALSE,      \* is _closeTimer armed?
               paused             |-> FALSE],     \* _paused
     outq |-> <<>>,                               \* frames the sender holds back
     sock |-> [wbuf               |-> <<>>,       \* frames still to be sent
               ended              |-> FALSE,      \* end() was called
               rdbuf              |-> <<>>,       \* frames read while paused
               flowing            |-> TRUE,       \* is it in flowing mode?
               dataListener       |-> TRUE,       \* is socketOnData attached?
               endEmitted         |-> FALSE,      \* 'end' was emitted
               destroyed          |-> FALSE,
               phase              |-> "attached"],\* "closing" in socketOnClose,
                                                  \* then "detached"
     rcv  |-> [rbuf               |-> <<>>,       \* frames written, not parsed
               inflating          |-> "no",       \* kind of the message at zlib
               ending             |-> FALSE,      \* end() was called
               finished           |-> FALSE,      \* 'finish' was emitted
               error              |-> "none",     \* "pending", then "emitted"
               needDrain          |-> FALSE],
     log  |-> [sent               |-> 0,          \* history: messages accepted
               pings              |-> 0,          \* pings sent
               delivered          |-> 0,          \* 'message' events
               closes             |-> 0]]         \* 'close' events

Init ==
    /\ ep = [e \in Peers |-> Opened]
    /\ chan = [e \in Peers |-> <<>>]

-----------------------------------------------------------------------------
(* The socket. *)

Destroy(x) == [x EXCEPT !.sock.destroyed = TRUE, !.sock.wbuf = <<>>]

End(x) == [x EXCEPT !.sock.ended = TRUE]

(* socket.write().  After end() the write fails, which destroys the socket  *)
(* and emits 'error': socketOnError().                                      *)
Write(x, fs) ==
    IF x.sock.destroyed THEN x
    ELSE IF x.sock.ended THEN Destroy([x EXCEPT !.ws.readyState = "CLOSING"])
    ELSE [x EXCEPT !.sock.wbuf = @ \o fs]

(* The sender, as Sender.tla proves it to behave: a frame is held back when *)
(* it needs compression or others are held back, else it is written.        *)
Submit(x, f) ==
    IF x.outq # <<>> \/ f.z
      THEN [x EXCEPT !.outq = Append(@, f)]
      ELSE Write(x, <<f>>)

-----------------------------------------------------------------------------
(* WebSocket methods. *)

(* The closing handshake is over as far as our side has to wait for it. *)
PeerIsDone(x) == x.ws.closeFrameReceived \/ x.rcv.error = "emitted"

(* Faulty variant: no timeout for the closing handshake. *)
CloseUntimed(x, code) ==
    CASE x.ws.readyState = "CLOSED" -> x
      [] x.ws.readyState = "CLOSING" ->
            IF x.ws.closeFrameSent /\ PeerIsDone(x) THEN End(x) ELSE x
      [] OTHER -> Submit([x EXCEPT !.ws.readyState = "CLOSING"], CloseFrame(code))

Close(x, code) ==
    CASE x.ws.readyState = "CLOSED" -> x
      [] x.ws.readyState = "CLOSING" ->
            IF x.ws.closeFrameSent /\ PeerIsDone(x) THEN End(x) ELSE x
      [] OTHER ->
            [Submit([x EXCEPT !.ws.readyState = "CLOSING"], CloseFrame(code))
                EXCEPT !.ws.closeTimer = TRUE]

(* Faulty variant of the callback below: the peer is not waited for. *)
CloseFrameFlushedEnds(x) == End([x EXCEPT !.ws.closeFrameSent = TRUE])

(* The callback given to sender.close(). *)
CloseFrameFlushed(x) ==
    LET y == [x EXCEPT !.ws.closeFrameSent = TRUE]
    IN IF PeerIsDone(y) THEN End(y) ELSE y

EmitClose(x) ==
    [x EXCEPT !.ws.readyState = "CLOSED", !.log.closes = @ + 1, !.outq = <<>>]

-----------------------------------------------------------------------------
(* The receiver and its listeners. *)

(* Bytes in the receiver: what is being inflated counts until it is done. *)
Held(x) == Len(x.rcv.rbuf) + (IF x.rcv.inflating = "no" THEN 0 ELSE 1)

(* socketOnData(): write to the receiver, pause when it is full or has      *)
(* failed; what follows a failure is dropped, its 'error' event may be due. *)
OnData(x, chunk) ==
    LET full   == Held(x) + Len(chunk) >= HighWaterMark
        failed == x.rcv.error # "none"
    IN IF ~x.sock.dataListener THEN x
       ELSE [x EXCEPT !.rcv.rbuf = IF failed THEN @ ELSE @ \o chunk,
                      !.rcv.needDrain = @ \/ full,
                      !.sock.flowing = @ /\ ~full /\ ~failed]

(* Faulty variants: the 'data' listener stays; the reply carries the status *)
(* kept before this one arrived.                                            *)
OnConcludeListening(x, code) ==
    LET y == [x EXCEPT !.ws.closeFrameReceived = TRUE, !.ws.closeCode = code]
        z == IF x.sock.phase = "detached" THEN y ELSE Close([y EXCEPT !.sock.flowing = TRUE], code)
    IN [z EXCEPT !.rcv.rbuf = <<>>, !.rcv.ending = TRUE]

OnConcludeRepliesDefault(x, code) ==
    LET y == [x EXCEPT !.ws.closeFrameReceived = TRUE, !.ws.closeCode = code]
        z == IF x.sock.phase = "detached" THEN y
             ELSE Close([y EXCEPT !.sock.dataListener = FALSE, !.sock.flowing = TRUE], x.ws.closeCode)
    IN [z EXCEPT !.rcv.rbuf = <<>>, !.rcv.ending = TRUE]

(* receiverOnConclude(), then end() of the receiver: what follows a close   *)
(* frame is dropped.                                                        *)
OnConclude(x, code) ==
    LET y == [x EXCEPT !.ws.closeFrameReceived = TRUE, !.ws.closeCode = code]
        z == IF x.sock.phase = "detached" THEN y
             ELSE Close([y EXCEPT !.sock.dataListener = FALSE, !.sock.flowing = TRUE], code)
    IN [z EXCEPT !.rcv.rbuf = <<>>, !.rcv.ending = TRUE]

(* A frame that violates the limits destroys the receiver. *)
Fail(x) == [x EXCEPT !.rcv.rbuf = <<>>, !.rcv.error = "pending"]

(* One frame of the buffer: the events of startLoop(). *)
Receive(x) ==
    LET f == Head(x.rcv.rbuf)
        y == [x EXCEPT !.rcv.rbuf = Tail(@)]
    IN CASE f.t \in {"data", "big"} /\ f.z -> [y EXCEPT !.rcv.inflating = f.t]
         [] f.t = "data" /\ ~f.z -> [y EXCEPT !.log.delivered = @ + 1]
         [] f.t = "big" /\ ~f.z  -> Fail(y)
         [] f.t = "ping"  -> IF y.ws.readyState = "OPEN" THEN Submit(y, Pong) ELSE y
         [] f.t = "pong"  -> y
         [] f.t = "close" -> OnConclude(y, f.code)

(* receiverOnError(), then receiverOnFinish() where it is a listener. *)
OnReceiverError(x) ==
    LET y == [x EXCEPT !.rcv.error = "emitted"]
    IN IF x.sock.phase = "detached" THEN EmitClose(y)
       ELSE Close([y EXCEPT !.sock.dataListener = FALSE, !.sock.flowing = TRUE], 1009)

-----------------------------------------------------------------------------
(* What the event loop has to do first: frames to parse and nextTicks. *)

(* Faulty variant: parsing goes on while a message is inflated. *)
ParsingAhead(x) == x.rcv.rbuf # <<>> /\ x.rcv.error = "none"

Parsing(x) == x.rcv.rbuf # <<>> /\ x.rcv.inflating = "no" /\ x.rcv.error = "none"

Idle(x) == x.rcv.rbuf = <<>> /\ x.rcv.inflating = "no" /\ x.rcv.error = "none"

Drainable(x) == x.rcv.needDrain /\ Idle(x) /\ ~x.rcv.ending
Finishable(x) == x.rcv.ending /\ ~x.rcv.finished /\ Idle(x)
Flowable(x) == x.sock.flowing /\ x.sock.rdbuf # <<>> /\ x.sock.phase = "attached"

Ticks(x) == Drainable(x) \/ Finishable(x) \/ Flowable(x) \/ x.rcv.error = "pending"

(* JavaScript of the endpoint is running. *)
Running(x) == Parsing(x) \/ x.sock.phase = "closing"

(* No event of the outside world is handled before that is done. *)
Busy(x) == Running(x) \/ Ticks(x)

Become(e, y) == ep' = [ep EXCEPT ![e] = y] /\ UNCHANGED chan

-----------------------------------------------------------------------------
(* Calls of the program, possibly from a listener of an event. *)

UserSend(e, kind, z) ==
    /\ ep[e].ws.readyState = "OPEN"
    /\ ep[e].log.sent < MaxMessages[e]
    /\ Become(e, Submit([ep[e] EXCEPT !.log.sent = @ + 1], Message(kind, z)))

UserPing(e) ==
    /\ ep[e].ws.readyState = "OPEN"
    /\ ep[e].log.pings < MaxPings[e]
    /\ Become(e, Submit([ep[e] EXCEPT !.log.pings = @ + 1], Ping))

UserClose(e, code) == Become(e, Close(ep[e], code))

(* close() with a code or a reason that sender.close() refuses: it throws,  *)
(* but only after the state was set.                                        *)
UserCloseInvalid(e) ==
    /\ ep[e].ws.readyState = "OPEN"
    /\ Become(e, [ep[e] EXCEPT !.ws.readyState = "CLOSING"])

(* Faulty variant: terminate() of a closed WebSocket reopens its closing. *)
UserTerminateAnyState(e) ==
    Become(e, Destroy([ep[e] EXCEPT !.ws.readyState = "CLOSING"]))

UserTerminate(e) ==
    /\ ep[e].ws.readyState # "CLOSED"
    /\ Become(e, Destroy([ep[e] EXCEPT !.ws.readyState = "CLOSING"]))

UserPause(e) ==
    /\ ep[e].ws.readyState # "CLOSED"
    /\ Become(e, [ep[e] EXCEPT !.ws.paused = TRUE, !.sock.flowing = FALSE])

UserResume(e) ==
    /\ ep[e].ws.readyState # "CLOSED"
    /\ Become(e, [ep[e] EXCEPT !.ws.paused = FALSE, !.sock.flowing = @ \/ ~ep[e].rcv.needDrain])

User(e) ==
    \/ \E kind \in Kinds, z \in {FALSE, Deflate} : UserSend(e, kind, z)
    \/ UserPing(e)
    \/ \E code \in Codes : UserClose(e, code)
    \/ UserTerminate(e)
    \/ e \in Pausing /\ (UserPause(e) \/ UserResume(e))

-----------------------------------------------------------------------------
(* Steps of the receiver. *)

ReceiveFrame(e) ==
    /\ Parsing(ep[e])
    /\ Become(e, Receive(ep[e]))

(* zlib hands back a message. *)
InflateDone(e) ==
    /\ ep[e].rcv.inflating # "no"
    /\ ~Busy(ep[e])
    /\ LET y == [ep[e] EXCEPT !.rcv.inflating = "no"]
       IN Become(e, IF ep[e].rcv.inflating = "big" THEN Fail(y)
                    ELSE [y EXCEPT !.log.delivered = @ + 1])

ReceiverError(e) ==
    /\ ep[e].rcv.error = "pending"
    /\ ~Running(ep[e])
    /\ Become(e, OnReceiverError(ep[e]))

(* Faulty variant: a paused WebSocket is resumed. *)
ReceiverDrainResumes(e) ==
    /\ Drainable(ep[e])
    /\ ~Running(ep[e])
    /\ Become(e, [ep[e] EXCEPT !.rcv.needDrain = FALSE, !.sock.flowing = TRUE])

ReceiverDrain(e) ==
    /\ Drainable(ep[e])
    /\ ~Running(ep[e])
    /\ Become(e, [ep[e] EXCEPT !.rcv.needDrain = FALSE, !.sock.flowing = @ \/ ~ep[e].ws.paused])

ReceiverFinish(e) ==
    /\ Finishable(ep[e])
    /\ ~Running(ep[e])
    /\ LET y == [ep[e] EXCEPT !.rcv.finished = TRUE]
       IN Become(e, IF y.sock.phase = "detached" THEN EmitClose(y) ELSE y)

-----------------------------------------------------------------------------
(* Steps of the sender and of the socket. *)

(* The compressor hands back the oldest frame; it goes out with frames      *)
(* behind it, up to one that needs compression.                             *)
CompressDone(e) ==
    /\ ~Busy(ep[e])
    /\ \E n \in 1 .. Len(ep[e].outq) :
          LET x == ep[e] IN
          /\ n < Len(x.outq) => x.outq[n + 1].z
          /\ \A i \in 2 .. n : ~x.outq[i].z
          /\ Become(e, Write([x EXCEPT !.outq = SubSeq(@, n + 1, Len(@))],
                             SubSeq(x.outq, 1, n)))

(* The kernel takes the oldest frame and the socket calls back. *)
Flush(e) ==
    /\ ep[e].sock.wbuf # <<>>
    /\ ~Running(ep[e])
    /\ LET f == Head(ep[e].sock.wbuf)
           y == [ep[e] EXCEPT !.sock.wbuf = Tail(@)]
       IN /\ chan' = [chan EXCEPT ![e] = Append(@, f)]
          /\ ep' = [ep EXCEPT ![e] = IF f.t = "close" THEN CloseFrameFlushed(y) ELSE y]

(* Frames arrive in one chunk; a paused socket keeps them. *)
Arrive(e) ==
    /\ ~Busy(ep[e])
    /\ ~ep[e].sock.destroyed
    /\ \E n \in 1 .. Len(chan[Other(e)]) :
          LET chunk == SubSeq(chan[Other(e)], 1, n)
              rest  == SubSeq(chan[Other(e)], n + 1, Len(chan[Other(e)]))
          IN /\ chan' = [chan EXCEPT ![Other(e)] = rest]
             /\ ep' = [ep EXCEPT ![e] = IF ep[e].sock.flowing THEN OnData(ep[e], chunk)
                                        ELSE [ep[e] EXCEPT !.sock.rdbuf = @ \o chunk]]

(* A resumed socket emits what it kept, chunk by chunk. *)
ReadKept(e) ==
    /\ Flowable(ep[e])
    /\ ~Running(ep[e])
    /\ \E n \in 1 .. Len(ep[e].sock.rdbuf) :
          Become(e, OnData([ep[e] EXCEPT !.sock.rdbuf = SubSeq(@, n + 1, Len(@))],
                           SubSeq(ep[e].sock.rdbuf, 1, n)))

(* Nothing of e is left on the wire and no more will come. *)
PeerIsGone(e) ==
    LET p == ep[Other(e)]
    IN chan[Other(e)] = <<>> /\ p.sock.wbuf = <<>> /\ (p.sock.ended \/ p.sock.destroyed)

(* Faulty variant: our side of the connection stays open. *)
SocketEndHalf(e) ==
    /\ ~Busy(ep[e])
    /\ ~ep[e].sock.destroyed /\ ~ep[e].sock.endEmitted
    /\ ep[e].sock.flowing
    /\ PeerIsGone(e)
    /\ Become(e, [ep[e] EXCEPT !.sock.endEmitted = TRUE, !.ws.readyState = "CLOSING",
                               !.rcv.ending = TRUE])

(* socketOnEnd(). *)
SocketEnd(e) ==
    /\ ~Busy(ep[e])
    /\ ~ep[e].sock.destroyed /\ ~ep[e].sock.endEmitted
    /\ ep[e].sock.flowing
    /\ PeerIsGone(e)
    /\ Become(e, End([ep[e] EXCEPT !.sock.endEmitted = TRUE, !.ws.readyState = "CLOSING",
                                   !.rcv.ending = TRUE]))

(* A socket that has ended both ways is destroyed by the runtime. *)
AutoDestroy(e) ==
    /\ ~Busy(ep[e])
    /\ ~ep[e].sock.destroyed
    /\ ep[e].sock.endEmitted /\ ep[e].sock.ended /\ ep[e].sock.wbuf = <<>>
    /\ Become(e, Destroy(ep[e]))

(* The network fails: socketOnError(). *)
SocketError(e) ==
    /\ Faults
    /\ ~Busy(ep[e])
    /\ ~ep[e].sock.destroyed
    /\ Become(e, Destroy([ep[e] EXCEPT !.ws.readyState = "CLOSING"]))

CloseTimeout(e) ==
    /\ ep[e].ws.closeTimer
    /\ ~Busy(ep[e])
    /\ ~ep[e].sock.destroyed
    /\ Become(e, Destroy(ep[e]))

(* socketOnClose(), first half: what the socket kept goes to the receiver,  *)
(* unless that has concluded or failed.                                     *)
Unread(x) == ~x.sock.endEmitted /\ ~x.ws.closeFrameReceived /\ x.rcv.error # "emitted"
             /\ x.sock.rdbuf # <<>>

FinalRead(e) ==
    /\ ep[e].sock.destroyed /\ ep[e].sock.phase = "attached"
    /\ ~Busy(ep[e])
    /\ Unread(ep[e])
    /\ Become(e, [ep[e] EXCEPT !.sock.phase = "closing", !.ws.readyState = "CLOSING",
                               !.sock.dataListener = FALSE,
                               !.rcv.rbuf = @ \o ep[e].sock.rdbuf, !.sock.rdbuf = <<>>])

(* Faulty variant: 'close' is emitted without waiting for the receiver. *)
SocketCloseHasty(e) ==
    /\ ep[e].sock.destroyed
    /\ \/ ep[e].sock.phase = "attached" /\ ~Busy(ep[e]) /\ ~Unread(ep[e])
       \/ ep[e].sock.phase = "closing" /\ ~Parsing(ep[e])
    /\ Become(e, EmitClose([ep[e] EXCEPT !.sock.phase = "detached", !.ws.readyState = "CLOSING",
                               !.sock.dataListener = FALSE, !.rcv.ending = TRUE,
                               !.ws.closeTimer = FALSE, !.sock.rdbuf = <<>>]))

(* Second half: the receiver is ended, the socket let go, and 'close' is    *)
(* emitted now or when the receiver has finished or failed.                 *)
SocketClose(e) ==
    /\ ep[e].sock.destroyed
    /\ \/ ep[e].sock.phase = "attached" /\ ~Busy(ep[e]) /\ ~Unread(ep[e])
       \/ ep[e].sock.phase = "closing" /\ ~Parsing(ep[e])
    /\ LET y == [ep[e] EXCEPT !.sock.phase = "detached", !.ws.readyState = "CLOSING",
                              !.sock.dataListener = FALSE, !.rcv.ending = TRUE,
                              !.ws.closeTimer = FALSE, !.sock.rdbuf = <<>>]
       IN Become(e, IF y.rcv.finished \/ y.rcv.error = "emitted" THEN EmitClose(y) ELSE y)

-----------------------------------------------------------------------------
Runtime(e) ==
    \/ ReceiveFrame(e) \/ InflateDone(e) \/ ReceiverError(e)
    \/ ReceiverDrain(e) \/ ReceiverFinish(e)
    \/ CompressDone(e) \/ Flush(e) \/ Arrive(e) \/ ReadKept(e)
    \/ SocketEnd(e) \/ AutoDestroy(e) \/ FinalRead(e) \/ SocketClose(e)

Next == \E e \in Peers : User(e) \/ Runtime(e) \/ SocketError(e) \/ CloseTimeout(e)

Spec == Init /\ [][Next]_vars

(* The runtime of an endpoint does what it can: zlib and the kernel answer, *)
(* data on the wire arrives.  Every such step uses something up, so an      *)
(* endpoint is not kept from one kind of step by the others.  The program   *)
(* does nothing it does not want to, and the timer is not relied on.        *)
FairSpec == Spec /\ \A e \in Peers : WF_vars(Runtime(e))

(* The program may also pass close() arguments that are refused. *)
InvalidSpec ==
    /\ Init
    /\ [][Next \/ \E e \in Peers : UserCloseInvalid(e)]_vars
    /\ \A e \in Peers : WF_vars(Runtime(e)) /\ SF_vars(CloseTimeout(e))

-----------------------------------------------------------------------------
CloseCodes == StatusCodes \cup {1006}
WsStates ==
    [readyState : {"OPEN", "CLOSING", "CLOSED"}, closeFrameReceived : BOOLEAN,
     closeFrameSent : BOOLEAN, closeCode : CloseCodes,
     closeTimer : BOOLEAN, paused : BOOLEAN]
SockStates ==
    [wbuf : Seq(Frames), ended : BOOLEAN, rdbuf : Seq(Frames), flowing : BOOLEAN,
     dataListener : BOOLEAN, endEmitted : BOOLEAN, destroyed : BOOLEAN,
     phase : {"attached", "closing", "detached"}]
RcvStates ==
    [rbuf : Seq(Frames), inflating : {"no", "data", "big"}, ending : BOOLEAN,
     finished : BOOLEAN, error : {"none", "pending", "emitted"}, needDrain : BOOLEAN]
LogStates == [sent : Nat, pings : Nat, delivered : Nat, closes : Nat]
Endpoint == [ws : WsStates, outq : Seq(Frames), sock : SockStates,
             rcv : RcvStates, log : LogStates]

(* The types of all variables; no frame carries a status that may not be    *)
(* sent, 1006 in particular.                                                *)
TypeOK == /\ ep \in [Peers -> Endpoint]
          /\ chan \in [Peers -> Seq(Frames)]

(* What the handlers of one endpoint maintain together, and what makes the  *)
(* properties below hold: how far the socket's end has got (phase), what    *)
(* may still come out of the receiver, and when 'close' is due.             *)
Coherent(x) ==
    /\ x.sock.phase # "attached" => x.sock.destroyed /\ ~x.sock.dataListener /\ x.ws.readyState # "OPEN"
    /\ x.sock.phase = "detached" => x.rcv.ending /\ ~x.ws.closeTimer
    /\ x.ws.readyState = "CLOSED" <=>
          x.sock.phase = "detached" /\ (x.rcv.finished \/ x.rcv.error = "emitted")
    /\ x.log.closes = (IF x.ws.readyState = "CLOSED" THEN 1 ELSE 0)
    /\ x.rcv.finished => x.rcv.ending /\ Idle(x)
    /\ x.rcv.error # "none" => x.rcv.rbuf = <<>> /\ x.rcv.inflating = "no"
    /\ x.rcv.error = "emitted" => ~x.sock.dataListener
    /\ x.ws.closeFrameReceived => x.rcv.ending /\ ~x.sock.dataListener
    /\ x.rcv.ending /\ x.sock.phase = "attached" => x.ws.closeFrameReceived \/ x.sock.endEmitted
    /\ x.sock.endEmitted => x.rcv.ending /\ x.sock.rdbuf = <<>>

(* Every endpoint is coherent, and 'end' is emitted only for a peer that    *)
(* can send nothing more.                                                   *)
ConnectionOK ==
    \A e \in Peers : Coherent(ep[e]) /\ (ep[e].sock.endEmitted => PeerIsGone(e))

(* The connection state only moves forward, although six handlers assign    *)
(* _readyState, some of them after the 'close' event of the same socket.    *)
Rank == [s \in {"OPEN", "CLOSING", "CLOSED"} |->
            CASE s = "OPEN" -> 0 [] s = "CLOSING" -> 1 [] s = "CLOSED" -> 2]

ReadyStateMonotone ==
    [][\A e \in Peers : Rank[ep'[e].ws.readyState] >= Rank[ep[e].ws.readyState]]_vars

(* 'close' is emitted exactly once, when the state becomes CLOSED: emitClose *)
(* is reached from socketOnClose() and from two events of the receiver.     *)
CloseOnce ==
    \A e \in Peers : ep[e].log.closes = (IF ep[e].ws.readyState = "CLOSED" THEN 1 ELSE 0)

(* After 'close' the program hears nothing more of the connection: no       *)
(* message and no second 'close' (log), its state and status code stay as   *)
(* they are (ws), and the receiver, from whose steps a ping, a pong, a      *)
(* close frame and an error are reported, takes none (rcv).                 *)
SilentAfterClose ==
    [][\A e \in Peers : ep[e].ws.readyState = "CLOSED" =>
          /\ ep'[e].log = ep[e].log
          /\ ep'[e].ws = ep[e].ws
          /\ ep'[e].rcv = ep[e].rcv]_vars

(* A status code other than 1006 means that every message the peer sent     *)
(* before its close frame was delivered, through compression, pauses and    *)
(* the last read of a closed socket.                                        *)
CleanDelivery ==
    \A e \in Peers : ep[e].ws.closeFrameReceived =>
        ep[e].log.delivered = ep[Other(e)].log.sent

(* When 'close' is emitted the socket is gone, its timer cleared, and no    *)
(* message is being inflated by the zlib stream that cleanup() closes.      *)
CleanupIsSafe ==
    \A e \in Peers : ep[e].ws.readyState = "CLOSED" =>
        /\ ep[e].sock.destroyed /\ ep[e].sock.phase = "detached"
        /\ ep[e].rcv.inflating = "no"
        /\ ~ep[e].ws.closeTimer

(* While frames are wanted the socket flows exactly when neither the        *)
(* program nor the receiver's buffer holds it: the two reasons to pause do  *)
(* not cancel or outlive each other, in whatever order pause(), resume() of *)
(* the program and 'drain' of the receiver come.                            *)
FlowMatchesDemand ==
    \A e \in Peers : ep[e].sock.dataListener /\ ep[e].rcv.error = "none" =>
        (ep[e].sock.flowing <=> ~ep[e].ws.paused /\ ~ep[e].rcv.needDrain)

(* Our side ends the socket only after the peer did, or after our close     *)
(* frame was flushed and the peer's arrived or could not be understood.     *)
EndIsEarned ==
    \A e \in Peers : ep[e].sock.ended =>
        ep[e].sock.endEmitted \/ (ep[e].ws.closeFrameSent /\ PeerIsDone(ep[e]))

(* Nothing is written to a receiver that was ended: socketOnData is removed *)
(* or has seen its last chunk by then.                                      *)
NoWriteAfterEnd ==
    \A e \in Peers : ep[e].rcv.ending =>
        ~ep[e].sock.dataListener \/ ep[e].sock.endEmitted

(* The closing timer fires once it is due: due, it stays due until it is     *)
(* cleared, however often calls of the program keep the loop busy.          *)
TimersFire == \A e \in Peers : SF_vars(CloseTimeout(e))

NeverPaused == \A e \in Peers : []~ep[e].ws.paused

(* A connection that starts closing is closed, by the handshake, the end of *)
(* the connection or the timer of close().                                  *)
ClosingCompletes ==
    \A e \in Peers : ep[e].ws.readyState = "CLOSING" ~> ep[e].ws.readyState = "CLOSED"

(* With timers that is so even where a program pauses and never resumes.    *)
ClosesWithTimer == TimersFire => ClosingCompletes

(* Where no program pauses it needs no timer, and when one side is closed   *)
(* the other side follows.                                                  *)
ClosesUnpaused ==
    NeverPaused =>
        /\ ClosingCompletes
        /\ \A e \in Peers :
              ep[e].ws.readyState = "CLOSED" ~> ep[Other(e)].ws.readyState = "CLOSED"
=============================================================================
