-------------------------- MODULE WebSocketStream --------------------------
(***************************************************************************)
(* createWebSocketStream() of lib/stream.js: a duplex stream on a          *)
(* WebSocket.  The WebSocket is what module WebSocket and module           *)
(* ClientHandshake make of it, seen through its events and its methods;    *)
(* the machinery of Duplex is Node's and external: buffers, the flags of   *)
(* a stream, and its events, which it emits from process.nextTick.  _final *)
(* is called without a tick, as since Node 15.                             *)
(*                                                                         *)
(* An action is one event of the WebSocket or its socket, one callback of  *)
(* nextTick or one call of the program; calls of the program may come from *)
(* a listener, before the ticks are served, events of the WebSocket not.   *)
(***************************************************************************)
EXTENDS Naturals, Sequences

CONSTANTS
    HighWaterMark,  \* of the readable side, in messages
    MaxMessages     \* bound: messages the peer sends

ASSUME StreamAssumption == HighWaterMark \in Nat \ {0} /\ MaxMessages \in Nat

VARIABLES
    ws,     \* the WebSocket
    duplex  \* the stream

vars == <<ws, duplex>>

(* socket: "none" before it is set up, "lost" when it is destroyed before   *)
(* its 'finish'; inside: messages the receiver has not emitted yet.         *)
NewSocket(state) ==
    [readyState |-> state, socket |-> IF state = "OPEN" THEN "open" ELSE "none",
     paused |-> FALSE, failed |-> FALSE, arrived |-> 0, inside |-> 0]

NewDuplex ==
    [terminateOnDestroy |-> TRUE,
     listening |-> {},          \* the listeners of _destroy() on the WebSocket
     cause     |-> FALSE,       \* did _destroy() get an error?
     destroyed |-> FALSE,
     errored   |-> FALSE,
     closed    |-> FALSE,       \* the callback of _destroy() has taken effect
     buffered  |-> 0,           \* messages pushed and not read
     got       |-> 0,           \* history: messages read
     reading   |-> FALSE,       \* _read() was called, nothing pushed since
     ended     |-> FALSE,       \* null was pushed
     writing   |-> "idle",      \* _write(): "waiting" for 'open', "sending"
     ending    |-> FALSE,       \* end() was called
     final     |-> "no",        \* _final(): "waiting", "dropped", "socket", "done"
     finished  |-> FALSE,
     ticks     |-> <<>>,        \* callbacks waiting for process.nextTick
     events    |-> <<>>]        \* history: 'end', 'finish', 'error' and 'close'

Init ==
    /\ \E state \in {"CONNECTING", "OPEN"} : ws = NewSocket(state)
    /\ duplex = NewDuplex

(* The functions below go from states to states of both, x.ws and x.d. *)
Both == [ws |-> ws, d |-> duplex]
Become(x) == ws' = x.ws /\ duplex' = x.d

-----------------------------------------------------------------------------
(* Methods of the WebSocket. *)
Terminate(x) ==
    IF x.ws.readyState = "CLOSED" THEN x
    ELSE [x EXCEPT !.ws.readyState = "CLOSING", !.ws.socket = IF @ = "open" THEN "lost" ELSE @]

Close(x) == [x EXCEPT !.ws.readyState = IF @ = "OPEN" THEN "CLOSING" ELSE @]

Pause(x) ==
    [x EXCEPT !.ws.paused = @ \/ x.ws.readyState \in {"OPEN", "CLOSING"}]

Resume(x) ==
    [x EXCEPT !.ws.paused = @ /\ x.ws.readyState \notin {"OPEN", "CLOSING"}]

-----------------------------------------------------------------------------
(* Node's streams. *)
In(event, list) == \E i \in 1 .. Len(list) : list[i] = event
Has(d, event) == In(event, d.events)

NextTick(x, callbacks) == [x EXCEPT !.d.ticks = @ \o callbacks]

(* The callback of _destroy(). *)
DestroyCallback(x, failed) == NextTick(x, <<IF failed THEN "failed" ELSE "closed">>)

(* Faulty variant: it does not wait for the WebSocket to close. *)
_destroyAtOnce(x, failed) ==
    LET y == NextTick(DestroyCallback(x, failed), <<"close">>)
    IN IF y.d.terminateOnDestroy THEN Terminate(y) ELSE y

(* Faulty variant: it listens to 'close' only. *)
_destroyDeaf(x, failed) ==
    IF x.ws.readyState = "CLOSED" THEN NextTick(DestroyCallback(x, failed), <<"close">>)
    ELSE LET y == [x EXCEPT !.d.listening = {"close"}, !.d.cause = failed]
         IN IF y.d.terminateOnDestroy THEN Terminate(y) ELSE y

_destroy(x, failed) ==
    IF x.ws.readyState = "CLOSED" THEN NextTick(DestroyCallback(x, failed), <<"close">>)
    ELSE LET y == [x EXCEPT !.d.listening = {"error", "close"}, !.d.cause = failed]
         IN IF y.d.terminateOnDestroy THEN Terminate(y) ELSE y

Destroy(x, failed) ==
    IF x.d.destroyed THEN x
    ELSE _destroy([x EXCEPT !.d.destroyed = TRUE, !.d.errored = @ \/ failed], failed)

Emit(x, event) == [x EXCEPT !.d.events = Append(@, event)]

(* 'error' is emitted once; duplexOnError(). *)
EmitError(x) ==
    IF Has(x.d, "error") THEN x ELSE Destroy(Emit(x, "error"), FALSE)

(* end(), or the last write: is it time for _final()? *)
NeedFinish(d) ==
    d.ending /\ d.writing = "idle" /\ ~d.destroyed /\ ~d.errored

FinalCallback(x) ==
    LET y == [x EXCEPT !.d.final = "done"]
    IN IF NeedFinish(y.d) THEN NextTick(y, <<"finish">>) ELSE y

(* Faulty variant: a stream that ended before is not destroyed. *)
_finalOnly(x) ==
    CASE x.ws.readyState = "CONNECTING" -> [x EXCEPT !.d.final = "waiting"]
      [] x.ws.readyState # "CONNECTING" /\ x.ws.socket = "none" -> [x EXCEPT !.d.final = "dropped"]
      [] x.ws.socket = "finished" -> FinalCallback(x)
      [] OTHER -> Close([x EXCEPT !.d.final = "socket"])

_final(x) ==
    CASE x.ws.readyState = "CONNECTING" -> [x EXCEPT !.d.final = "waiting"]
      [] x.ws.readyState # "CONNECTING" /\ x.ws.socket = "none" -> [x EXCEPT !.d.final = "dropped"]
      [] x.ws.socket = "finished" ->
            LET y == FinalCallback(x) IN IF Has(x.d, "end") THEN Destroy(y, FALSE) ELSE y
      [] OTHER -> Close([x EXCEPT !.d.final = "socket"])

FinishMaybe(x) ==
    IF NeedFinish(x.d) /\ x.d.final = "no" THEN _final(x) ELSE x

(* A failed write: an 'error', unless the stream is destroyed. *)
WriteError(x) == IF x.d.destroyed THEN x ELSE EmitError(x)

WriteCallback(x, failed) ==
    IF failed THEN WriteError([x EXCEPT !.d.writing = "idle", !.d.errored = TRUE])
    ELSE FinishMaybe([x EXCEPT !.d.writing = "idle"])

(* _write(); send() calls back at once when the WebSocket is closing. *)
_write(x) ==
    CASE x.ws.readyState = "CONNECTING" -> [x EXCEPT !.d.writing = "waiting"]
      [] x.ws.readyState = "OPEN" -> [x EXCEPT !.d.writing = "sending"]
      [] OTHER -> NextTick([x EXCEPT !.d.writing = "idle", !.d.errored = TRUE], <<"error">>)

_read(x) == Resume(x)

(* endReadable(); a second "end" in the queue would do nothing. *)
EndReadable(x) ==
    IF x.d.ended /\ x.d.buffered = 0 /\ ~Has(x.d, "end") /\ ~In("end", x.d.ticks) THEN NextTick(x, <<"end">>) ELSE x

-----------------------------------------------------------------------------
(* Calls of the program.  Read: read() of n messages, or a step of the      *)
(* flowing mode; it calls _read() when there is room.                       *)
Read(n) ==
    /\ n <= duplex.buffered
    /\ LET x == [Both EXCEPT !.d.buffered = @ - n, !.d.got = @ + n]
           d == x.d
       IN Become(IF d.buffered < HighWaterMark /\ ~d.ended /\ ~d.reading /\ ~d.destroyed /\ ~d.errored
                   THEN _read([x EXCEPT !.d.reading = TRUE])
                   ELSE EndReadable(x))

Write ==
    /\ ~duplex.ending /\ ~duplex.destroyed /\ ~duplex.errored
    /\ duplex.writing = "idle"
    /\ Become(_write(Both))

End ==
    /\ ~duplex.ending /\ ~duplex.destroyed
    /\ Become(FinishMaybe([Both EXCEPT !.d.ending = TRUE]))

DestroyCall ==
    /\ ~duplex.destroyed
    /\ \E failed \in BOOLEAN : Become(Destroy(Both, failed))

-----------------------------------------------------------------------------
(* Callbacks of process.nextTick. *)

(* endReadable(), then duplexOnEnd(). *)
OnEnd(x) ==
    IF x.d.errored \/ x.d.closed \/ x.d.buffered > 0 \/ Has(x.d, "end") THEN x
    ELSE LET y == Emit(x, "end")
         IN IF y.d.finished THEN Destroy(y, FALSE) ELSE y

Called(x, callback) ==
    CASE callback = "end" -> OnEnd(x)
      [] callback = "finish" -> Emit([x EXCEPT !.d.finished = TRUE], "finish")
      [] callback = "error" -> WriteError(x)
      [] callback = "closed" -> [x EXCEPT !.d.closed = TRUE]
      [] callback = "failed" -> EmitError([x EXCEPT !.d.closed = TRUE])
      [] callback = "close" -> Emit(x, "close")

Tick ==
    /\ duplex.ticks # <<>>
    /\ Become(Called([Both EXCEPT !.d.ticks = Tail(@)], Head(duplex.ticks)))

-----------------------------------------------------------------------------
(* The WebSocket and its socket.  Their events find no tick waiting. *)
Quiet == duplex.ticks = <<>>

(* 'open'; a listener that runs before those of the stream may call close(). *)
Open ==
    /\ Quiet
    /\ ws.readyState = "CONNECTING"
    /\ \E state \in {"OPEN", "CLOSING"} :
          LET x == [Both EXCEPT !.ws.readyState = state, !.ws.socket = "open"]
          IN Become(IF duplex.writing = "waiting" THEN
                       IF state = "OPEN" THEN _write(x) ELSE WriteCallback(x, TRUE)
                    ELSE IF duplex.final = "waiting" THEN _final(x)
                    ELSE x)

(* The callback of send(). *)
SendCallback ==
    /\ Quiet
    /\ duplex.writing = "sending"
    /\ Become(WriteCallback(Both, ws.socket # "open"))

(* A message reaches the receiver: a paused socket keeps it, until it is    *)
(* destroyed.                                                               *)
Arrive ==
    /\ Quiet
    /\ ws.socket = (IF ws.paused THEN "lost" ELSE "open")
    /\ ws.readyState # "CLOSED"
    /\ ~ws.failed
    /\ ws.arrived < MaxMessages
    /\ ws' = [ws EXCEPT !.arrived = @ + 1, !.inside = @ + 1]
    /\ UNCHANGED duplex

(* 'message'.  A flowing stream with an empty buffer hands the data on. *)
Message ==
    /\ Quiet
    /\ ws.inside > 0
    /\ LET x == [Both EXCEPT !.ws.inside = @ - 1]
           y == [x EXCEPT !.d.reading = FALSE, !.d.buffered = @ + 1]
       IN \/ (duplex.destroyed \/ duplex.errored) /\ Become(Pause(x))
          \/ /\ ~duplex.destroyed /\ ~duplex.errored
             /\ Become(IF y.d.buffered < HighWaterMark THEN y ELSE Pause(y))
          \/ /\ ~duplex.destroyed /\ ~duplex.errored
             /\ duplex.buffered = 0
             /\ Become([x EXCEPT !.d.reading = FALSE, !.d.got = @ + 1])

(* 'error': of the handshake, or of the receiver, which emits nothing more. *)
Error ==
    /\ Quiet
    /\ ws.readyState # "CLOSED"
    /\ ~ws.failed
    /\ LET x == [Both EXCEPT !.ws.readyState = "CLOSING", !.ws.failed = TRUE, !.ws.inside = 0]
       IN Become(IF ~duplex.destroyed THEN Destroy([x EXCEPT !.d.terminateOnDestroy = FALSE], TRUE)
                 ELSE IF "error" \in duplex.listening
                   THEN DestroyCallback([x EXCEPT !.d.listening = {"close"}], TRUE)
                 ELSE x)

(* The WebSocket starts to close: the program or the peer does it. *)
Closing ==
    /\ ws.readyState \in {"CONNECTING", "OPEN"}
    /\ ws' = [ws EXCEPT !.readyState = "CLOSING"]
    /\ UNCHANGED duplex

(* The 'finish' of the socket. *)
SocketFinish ==
    /\ Quiet
    /\ ws.readyState = "CLOSING" /\ ws.socket = "open"
    /\ LET x == [Both EXCEPT !.ws.socket = "finished"]
       IN Become(IF duplex.final = "socket" THEN FinalCallback(x) ELSE x)

(* The socket is destroyed: it failed, or by terminate() or the timer. *)
SocketLost ==
    /\ Quiet
    /\ ws.socket = "open"
    /\ ws' = [ws EXCEPT !.readyState = "CLOSING", !.socket = "lost"]
    /\ UNCHANGED duplex

(* 'close', when the socket is closed and the receiver done, or after the   *)
(* 'error' of the handshake; a flowing stream with an empty buffer ends.    *)
Closed ==
    /\ Quiet
    /\ ws.readyState = "CLOSING"
    /\ IF ws.socket = "none" THEN ws.failed ELSE ws.socket # "open" /\ ws.inside = 0
    /\ LET x == [Both EXCEPT !.ws.readyState = "CLOSED"]
           y == [x EXCEPT !.d.ended = TRUE]
           z == IF "error" \in x.d.listening THEN DestroyCallback(x, x.d.cause) ELSE x
       IN \/ ~duplex.destroyed /\ (Become(y) \/ Become(EndReadable(y)))
          \/ duplex.destroyed /\ Become(NextTick([z EXCEPT !.d.listening = {}], <<"close">>))

Program == Write \/ End \/ DestroyCall \/ \E n \in 0 .. MaxMessages : Read(n)

Next ==
    \/ Program \/ Tick
    \/ Open \/ SendCallback \/ Arrive \/ Message \/ Error \/ Closing
    \/ SocketFinish \/ SocketLost \/ Closed

Spec == Init /\ [][Next]_vars

(* The runtime serves its queue, the WebSocket delivers what it has got and *)
(* completes its closing, as ClosesUnpaused and ClosesWithTimer of an open  *)
(* one and Settles of a handshake say, and the program reads what there is  *)
(* to read.                                                                 *)
FairSpec ==
    /\ Spec
    /\ WF_vars(Tick) /\ WF_vars(Message) /\ WF_vars(SendCallback)
    /\ WF_vars(ws.readyState = "CLOSING" /\ (SocketFinish \/ SocketLost))
    /\ WF_vars(ws.readyState = "CLOSING" /\ ws.socket = "none" /\ Error)
    /\ WF_vars(Closed)
    /\ WF_vars(Read(duplex.buffered))

-----------------------------------------------------------------------------
(* Types; and _destroy() listens as long as the WebSocket may tell it       *)
(* something that the stream has not been told.                             *)
TypeOK ==
    /\ ws \in [readyState : {"CONNECTING", "OPEN", "CLOSING", "CLOSED"},
               socket : {"none", "open", "finished", "lost"}, paused : BOOLEAN,
               failed : BOOLEAN, arrived : 0 .. MaxMessages, inside : 0 .. MaxMessages]
    /\ duplex \in [terminateOnDestroy : BOOLEAN, listening : SUBSET {"error", "close"},
                   cause : BOOLEAN, destroyed : BOOLEAN, errored : BOOLEAN, closed : BOOLEAN,
                   buffered : 0 .. MaxMessages, got : 0 .. MaxMessages, reading : BOOLEAN,
                   ended : BOOLEAN, writing : {"idle", "waiting", "sending"},
                   ending : BOOLEAN, final : {"no", "waiting", "dropped", "socket", "done"},
                   finished : BOOLEAN,
                   ticks : Seq({"end", "finish", "error", "closed", "failed", "close"}),
                   events : Seq({"end", "finish", "error", "close"})]
    /\ duplex.destroyed /\ ws.readyState # "CLOSED" =>
          "close" \in duplex.listening /\ (ws.failed \/ "error" \in duplex.listening)

(* The events of a stream: each at most once, and 'close' last, when the    *)
(* WebSocket is closed.  Before 'close' an error of the WebSocket has been  *)
(* told; 'end' comes when every message of the peer was read, and 'finish'  *)
(* when the socket has finished and nothing is being written.               *)
OrderlyEvents ==
    LET events == duplex.events IN
    /\ \A i, j \in 1 .. Len(events) : events[i] = events[j] => i = j
    /\ Has(duplex, "close") =>
          /\ events[Len(events)] = "close"
          /\ ws.readyState = "CLOSED" /\ duplex.destroyed
          /\ ws.failed => Has(duplex, "error")
    /\ Has(duplex, "end") => ws.readyState = "CLOSED" /\ duplex.got = ws.arrived
    /\ Has(duplex, "finish") => ws.socket = "finished" /\ duplex.writing = "idle"

(* A destroyed stream closes; so does one that finished before its 'end',   *)
(* or whose end() comes after its 'end' and the 'finish' of the socket; and *)
(* a reader who reads frees the WebSocket that waits for it.                *)
Completes ==
    /\ duplex.destroyed ~> Has(duplex, "close")
    /\ Has(duplex, "finish") /\ ~Has(duplex, "end") ~> Has(duplex, "close")
    /\ [](Has(duplex, "end") /\ ~duplex.ending /\ ws.socket = "finished" =>
              [](duplex.ending => <>Has(duplex, "close")))
    /\ ws.paused ~> ~ws.paused \/ ws.readyState = "CLOSED"
=============================================================================
