-------------------------- MODULE WebSocketProofs --------------------------
(***************************************************************************)
(* Proofs about WebSocket.tla.  First what the handlers of one endpoint    *)
(* maintain (Inv: Coherent and two more facts about its socket), then what *)
(* both maintain about the frames between them (CleanInv: no message is    *)
(* missing), and last the theorems that follow.                            *)
(***************************************************************************)
EXTENDS WebSocket, SequenceTheorems, FiniteSetTheorems, TLAPS

(* The flow of data and the end of the socket, for one endpoint. *)
FlowOK(x) ==
    x.sock.dataListener /\ x.rcv.error = "none" =>
        (x.sock.flowing <=> ~x.ws.paused /\ ~x.rcv.needDrain)
EndOK(x) == x.sock.ended => x.sock.endEmitted \/ (x.ws.closeFrameSent /\ PeerIsDone(x))

Local(x) == Coherent(x) /\ FlowOK(x) /\ EndOK(x)

(* Nothing will be written by the endpoint any more. *)
Gone(x) == x.sock.wbuf = <<>> /\ (x.sock.ended \/ x.sock.destroyed)

(* What a step of an endpoint must do: keep its invariant, its being gone,  *)
(* and the direction of its state; no step but socketOnEnd() ends the input. *)
Keeps(x, y) ==
    /\ y \in Endpoint
    /\ Local(y)
    /\ Gone(x) => Gone(y)
    /\ Rank[y.ws.readyState] >= Rank[x.ws.readyState]

StepOK(x, y) == Keeps(x, y) /\ y.sock.endEmitted = x.sock.endEmitted

-----------------------------------------------------------------------------
(* The order of the three states. *)
LEMMA RankFacts ==
    /\ \A s \in {"OPEN", "CLOSING", "CLOSED"} : Rank[s] \in Nat
    /\ \A s \in {"OPEN", "CLOSING", "CLOSED"} : Rank[s] >= Rank[s]
    /\ Rank["CLOSING"] >= Rank["OPEN"]
    /\ Rank["CLOSED"] >= Rank["CLOSING"]
    /\ Rank["CLOSED"] >= Rank["OPEN"]
BY DEF Rank

(* Steps compose. *)
LEMMA StepTrans ==
    ASSUME NEW x \in Endpoint, NEW y, NEW z, StepOK(x, y), StepOK(y, z)
    PROVE  StepOK(x, z)
<1>1. /\ Rank[x.ws.readyState] \in Nat
      /\ Rank[y.ws.readyState] \in Nat
      /\ Rank[z.ws.readyState] \in Nat
  BY RankFacts DEF StepOK, Keeps, Endpoint, WsStates
<1>2. Rank[z.ws.readyState] >= Rank[x.ws.readyState]
  <2>1. \A i, j, k \in Nat : k >= j /\ j >= i => k >= i
    OBVIOUS
  <2> QED BY <1>1, <2>1 DEF StepOK, Keeps
<1> QED BY <1>2 DEF StepOK, Keeps

(* destroy() of the socket. *)
LEMMA DestroyOK ==
    ASSUME NEW x \in Endpoint, Local(x)
    PROVE  StepOK(x, Destroy(x))
<1> DEFINE y == Destroy(x)
<1>1. /\ y.ws = x.ws /\ y.outq = x.outq /\ y.rcv = x.rcv /\ y.log = x.log
      /\ y.sock = [x.sock EXCEPT !.destroyed = TRUE, !.wbuf = <<>>]
      /\ x.ws \in WsStates /\ x.outq \in Seq(Frames) /\ x.sock \in SockStates
      /\ x.rcv \in RcvStates /\ x.log \in LogStates
  BY DEF Destroy, Endpoint
<1>2. /\ y.sock \in SockStates
      /\ y.sock.destroyed /\ y.sock.wbuf = <<>>
      /\ y.sock.ended = x.sock.ended /\ y.sock.rdbuf = x.sock.rdbuf
      /\ y.sock.flowing = x.sock.flowing /\ y.sock.dataListener = x.sock.dataListener
      /\ y.sock.endEmitted = x.sock.endEmitted /\ y.sock.phase = x.sock.phase
  <2>1. <<>> \in Seq(Frames)
    OBVIOUS
  <2> QED BY <1>1, <2>1 DEF SockStates
<1>3. y \in Endpoint
  BY <1>1, <1>2 DEF Destroy, Endpoint
<1> HIDE DEF y
<1>4. Local(y)
  BY <1>1, <1>2 DEF Local, Coherent, FlowOK, EndOK, PeerIsDone, Idle
<1>5. Rank[y.ws.readyState] >= Rank[x.ws.readyState]
  BY <1>1, RankFacts DEF WsStates
<1> QED BY <1>1, <1>2, <1>3, <1>4, <1>5 DEF StepOK, Keeps, Gone, y
-----------------------------------------------------------------------------
(* What sending may change, whatever the state it is called in: the         *)
(* sender's queue, the socket's buffer and fate, and _readyState.           *)
Sends(x, y) ==
    /\ y \in Endpoint
    /\ y.rcv = x.rcv /\ y.log = x.log
    /\ y.ws.closeFrameReceived = x.ws.closeFrameReceived
    /\ y.ws.closeFrameSent = x.ws.closeFrameSent
    /\ y.ws.paused = x.ws.paused
    /\ y.sock.rdbuf = x.sock.rdbuf /\ y.sock.flowing = x.sock.flowing
    /\ y.sock.dataListener = x.sock.dataListener
    /\ y.sock.endEmitted = x.sock.endEmitted
    /\ y.sock.phase = x.sock.phase
    /\ x.sock.destroyed => y.sock.destroyed
    /\ Gone(x) => Gone(y)

(* Of a frame that is written: a socket that has ended is destroyed. *)
Writes(x, y) ==
    /\ Sends(x, y)
    /\ y.ws.closeTimer = x.ws.closeTimer
    /\ y.sock.ended = x.sock.ended
    /\ \/ y.ws.readyState = x.ws.readyState
       \/ ~x.sock.destroyed /\ y.ws.readyState = "CLOSING"

(* socket.write(). *)
LEMMA WriteEffect ==
    ASSUME NEW x \in Endpoint, NEW fs \in Seq(Frames)
    PROVE  Writes(x, Write(x, fs))
<1> DEFINE y == Write(x, fs)
<1>0. /\ x.ws \in WsStates /\ x.outq \in Seq(Frames) /\ x.sock \in SockStates
      /\ x.rcv \in RcvStates /\ x.log \in LogStates
  BY DEF Endpoint
<1>1. CASE x.sock.destroyed
  BY <1>1 DEF Write, Writes, Sends
<1>2. CASE ~x.sock.destroyed /\ x.sock.ended
  <2>1. /\ y.outq = x.outq /\ y.rcv = x.rcv /\ y.log = x.log
        /\ y.ws = [x.ws EXCEPT !.readyState = "CLOSING"]
        /\ y.sock = [x.sock EXCEPT !.destroyed = TRUE, !.wbuf = <<>>]
        /\ y = [x EXCEPT !.ws = y.ws, !.sock = y.sock]
    BY <1>2 DEF Write, Destroy, Endpoint
  <2> HIDE DEF y
  <2>2. /\ y.ws \in WsStates /\ y.ws.readyState = "CLOSING"
        /\ y.ws.closeFrameReceived = x.ws.closeFrameReceived
        /\ y.ws.closeFrameSent = x.ws.closeFrameSent
        /\ y.ws.paused = x.ws.paused /\ y.ws.closeTimer = x.ws.closeTimer
    BY <1>0, <2>1 DEF WsStates
  <2>3. /\ y.sock \in SockStates
        /\ y.sock.destroyed /\ y.sock.wbuf = <<>>
        /\ y.sock.rdbuf = x.sock.rdbuf /\ y.sock.flowing = x.sock.flowing
        /\ y.sock.dataListener = x.sock.dataListener
        /\ y.sock.endEmitted = x.sock.endEmitted
        /\ y.sock.phase = x.sock.phase /\ y.sock.ended = x.sock.ended
    <3>1. <<>> \in Seq(Frames)
      OBVIOUS
    <3> QED BY <1>0, <2>1, <3>1 DEF SockStates
  <2>4. y \in Endpoint
    BY <1>0, <2>1, <2>2, <2>3 DEF Endpoint
  <2> QED BY <1>2, <2>1, <2>2, <2>3, <2>4 DEF Writes, Sends, Gone, y
<1>3. CASE ~x.sock.destroyed /\ ~x.sock.ended
  <2>1. /\ y.outq = x.outq /\ y.rcv = x.rcv /\ y.log = x.log /\ y.ws = x.ws
        /\ y.sock = [x.sock EXCEPT !.wbuf = @ \o fs]
        /\ y = [x EXCEPT !.sock = y.sock]
    BY <1>3 DEF Write, Endpoint
  <2> HIDE DEF y
  <2>2. /\ y.sock \in SockStates
        /\ y.sock.rdbuf = x.sock.rdbuf /\ y.sock.flowing = x.sock.flowing
        /\ y.sock.dataListener = x.sock.dataListener
        /\ y.sock.endEmitted = x.sock.endEmitted
        /\ y.sock.phase = x.sock.phase /\ y.sock.ended = x.sock.ended
    <3>1. x.sock.wbuf \o fs \in Seq(Frames)
      BY <1>0 DEF SockStates
    <3> QED BY <1>0, <2>1, <3>1 DEF SockStates
  <2>3. y \in Endpoint
    BY <1>0, <2>1, <2>2 DEF Endpoint
  <2> QED BY <1>3, <2>1, <2>2, <2>3 DEF Writes, Sends, Gone, y
<1> QED BY <1>1, <1>2, <1>3

(* A frame handed to the sender. *)
LEMMA SubmitEffect ==
    ASSUME NEW x \in Endpoint, NEW f \in Frames
    PROVE  Writes(x, Submit(x, f))
<1> DEFINE y == Submit(x, f)
<1>1. CASE x.outq # <<>> \/ f.z
  <2>1. /\ y.rcv = x.rcv /\ y.log = x.log /\ y.ws = x.ws /\ y.sock = x.sock
        /\ y = [x EXCEPT !.outq = Append(@, f)]
    BY <1>1 DEF Submit, Endpoint
  <2> HIDE DEF y
  <2>2. y \in Endpoint
    <3>1. Append(x.outq, f) \in Seq(Frames)
      BY DEF Endpoint
    <3> QED BY <2>1, <3>1 DEF Endpoint
  <2> QED BY <2>1, <2>2 DEF Writes, Sends, Gone, y
<1>2. CASE ~(x.outq # <<>> \/ f.z)
  <2>1. <<f>> \in Seq(Frames)
    OBVIOUS
  <2> QED BY <1>2, <2>1, WriteEffect DEF Submit
<1> QED BY <1>1, <1>2

(* Sending keeps the invariant. *)
LEMMA WritesOK ==
    ASSUME NEW x \in Endpoint, NEW y, Local(x), Writes(x, y)
    PROVE  StepOK(x, y)
<1>1. Local(y)
  BY DEF Local, Coherent, FlowOK, EndOK, PeerIsDone, Idle, Writes, Sends
<1>2. Rank[y.ws.readyState] >= Rank[x.ws.readyState]
  <2>1. x.ws.readyState \in {"OPEN", "CLOSING", "CLOSED"}
    BY DEF Endpoint, WsStates
  <2>2. x.ws.readyState = "CLOSED" => x.sock.destroyed
    BY DEF Local, Coherent
  <2> QED BY <2>1, <2>2, RankFacts DEF Writes
<1> QED BY <1>1, <1>2 DEF StepOK, Keeps, Writes, Sends
-----------------------------------------------------------------------------
(* Of close(): the state becomes CLOSING unless it is CLOSED, the timer is  *)
(* armed only by an open WebSocket, the socket ended only after the         *)
(* handshake.                                                               *)
Closes(x, y) ==
    /\ Sends(x, y)
    /\ y.ws.readyState = (IF x.ws.readyState = "CLOSED" THEN "CLOSED" ELSE "CLOSING")
    /\ y.ws.closeTimer => x.ws.closeTimer \/ x.ws.readyState = "OPEN"
    /\ y.sock.ended => x.sock.ended \/ (x.ws.closeFrameSent /\ PeerIsDone(x))

(* Assignments to the fields of ws keep its type. *)
LEMMA WsFields ==
    ASSUME NEW w \in WsStates, NEW b \in BOOLEAN
    PROVE  /\ [w EXCEPT !.closeTimer = b] \in WsStates
           /\ [w EXCEPT !.closeFrameSent = b] \in WsStates
BY DEF WsStates

(* So does what receiverOnConclude() assigns. *)
LEMMA WsCodeFields ==
    ASSUME NEW w \in WsStates, NEW c \in StatusCodes
    PROVE  [w EXCEPT !.closeFrameReceived = TRUE, !.closeCode = c] \in WsStates
<1>1. c \in CloseCodes
  BY DEF CloseCodes
<1>2. \A b \in BOOLEAN : [w EXCEPT !.closeFrameReceived = b, !.closeCode = c] \in WsStates
  BY <1>1 DEF WsStates
<1> QED BY <1>2, Zenon

(* WebSocket.close(). *)
LEMMA CloseEffect ==
    ASSUME NEW x \in Endpoint, NEW code \in StatusCodes
    PROVE  Closes(x, Close(x, code))
<1> DEFINE y == Close(x, code)
<1>0. /\ x.ws \in WsStates /\ x.outq \in Seq(Frames) /\ x.sock \in SockStates
      /\ x.rcv \in RcvStates /\ x.log \in LogStates
      /\ x.ws.readyState \in {"OPEN", "CLOSING", "CLOSED"}
  BY DEF Endpoint, WsStates
<1>1. CASE x.ws.readyState = "CLOSED"
  BY <1>0, <1>1 DEF Close, Closes, Sends
<1>2. CASE x.ws.readyState = "CLOSING" /\ ~(x.ws.closeFrameSent /\ PeerIsDone(x))
  BY <1>0, <1>2 DEF Close, Closes, Sends
<1>3. CASE x.ws.readyState = "CLOSING" /\ x.ws.closeFrameSent /\ PeerIsDone(x)
  <2>1. /\ y.outq = x.outq /\ y.rcv = x.rcv /\ y.log = x.log /\ y.ws = x.ws
        /\ y.sock = [x.sock EXCEPT !.ended = TRUE]
        /\ y = [x EXCEPT !.sock = y.sock]
    BY <1>3 DEF Close, End, Endpoint
  <2> HIDE DEF y
  <2>2. /\ y.sock \in SockStates
        /\ y.sock.wbuf = x.sock.wbuf /\ y.sock.ended
        /\ y.sock.rdbuf = x.sock.rdbuf /\ y.sock.flowing = x.sock.flowing
        /\ y.sock.dataListener = x.sock.dataListener
        /\ y.sock.endEmitted = x.sock.endEmitted
        /\ y.sock.phase = x.sock.phase /\ y.sock.destroyed = x.sock.destroyed
    BY <1>0, <2>1 DEF SockStates
  <2>3. y \in Endpoint
    BY <1>0, <2>1, <2>2 DEF Endpoint
  <2> QED BY <1>3, <2>1, <2>2, <2>3 DEF Closes, Sends, Gone, y
<1>4. CASE x.ws.readyState = "OPEN"
  <2> DEFINE a == [x EXCEPT !.ws.readyState = "CLOSING"]
             b == Submit(a, CloseFrame(code))
  <2>1. /\ a.outq = x.outq /\ a.rcv = x.rcv /\ a.log = x.log /\ a.sock = x.sock
        /\ a.ws = [x.ws EXCEPT !.readyState = "CLOSING"]
        /\ a = [x EXCEPT !.ws = a.ws]
    BY DEF Endpoint
  <2> HIDE DEF a
  <2>2. /\ a.ws \in WsStates /\ a.ws.readyState = "CLOSING"
        /\ a.ws.closeFrameReceived = x.ws.closeFrameReceived
        /\ a.ws.closeFrameSent = x.ws.closeFrameSent
        /\ a.ws.paused = x.ws.paused /\ a.ws.closeTimer = x.ws.closeTimer
    BY <1>0, <2>1 DEF WsStates
  <2>3. a \in Endpoint
    BY <1>0, <2>1, <2>2 DEF Endpoint
  <2>4. CloseFrame(code) \in Frames
    BY DEF CloseFrame, Frames, FrameTypes
  <2>5. Writes(a, b)
    BY <2>3, <2>4, SubmitEffect
  <2>6. y = [b EXCEPT !.ws.closeTimer = TRUE]
    BY <1>4 DEF Close, a
  <2> HIDE DEF b, y
  <2>7. b \in Endpoint /\ b.ws \in WsStates
    BY <2>5 DEF Writes, Sends, Endpoint
  <2>8. /\ y.outq = b.outq /\ y.rcv = b.rcv /\ y.log = b.log /\ y.sock = b.sock
        /\ y.ws = [b.ws EXCEPT !.closeTimer = TRUE]
        /\ y = [b EXCEPT !.ws = y.ws]
    BY <2>6, <2>7 DEF Endpoint
  <2>9. /\ y.ws \in WsStates /\ y.ws.readyState = b.ws.readyState
        /\ y.ws.closeFrameReceived = b.ws.closeFrameReceived
        /\ y.ws.closeFrameSent = b.ws.closeFrameSent
        /\ y.ws.paused = b.ws.paused
    <3>1. y.ws \in WsStates
      BY <2>7, <2>8, WsFields
    <3>2. /\ y.ws.readyState = b.ws.readyState
          /\ y.ws.closeFrameReceived = b.ws.closeFrameReceived
          /\ y.ws.closeFrameSent = b.ws.closeFrameSent
          /\ y.ws.paused = b.ws.paused
      BY <2>7, <2>8 DEF WsStates
    <3> QED BY <3>1, <3>2
  <2>10. y \in Endpoint
    BY <2>7, <2>8, <2>9 DEF Endpoint
  <2> QED BY <1>4, <2>1, <2>2, <2>5, <2>8, <2>9, <2>10 DEF Closes, Writes, Sends, Gone, y
<1> QED BY <1>0, <1>1, <1>2, <1>3, <1>4

(* close() keeps the invariant. *)
LEMMA ClosesOK ==
    ASSUME NEW x \in Endpoint, NEW y, Local(x), Closes(x, y)
    PROVE  StepOK(x, y)
<1>1. x.ws.readyState \in {"OPEN", "CLOSING", "CLOSED"}
  BY DEF Endpoint, WsStates
<1>2. Local(y)
  BY <1>1 DEF Local, Coherent, FlowOK, EndOK, PeerIsDone, Idle, Closes, Sends
<1>3. Rank[y.ws.readyState] >= Rank[x.ws.readyState]
  BY <1>1, RankFacts DEF Closes
<1> QED BY <1>2, <1>3 DEF StepOK, Keeps, Closes, Sends

(* The callback of the close frame. *)
LEMMA CloseFrameFlushedOK ==
    ASSUME NEW x \in Endpoint, Local(x)
    PROVE  StepOK(x, CloseFrameFlushed(x))
<1> DEFINE y == CloseFrameFlushed(x)
<1>1. /\ y.outq = x.outq /\ y.rcv = x.rcv /\ y.log = x.log
      /\ y.ws = [x.ws EXCEPT !.closeFrameSent = TRUE]
      /\ y.sock = (IF PeerIsDone(x) THEN [x.sock EXCEPT !.ended = TRUE] ELSE x.sock)
      /\ y = [x EXCEPT !.ws = y.ws, !.sock = y.sock]
      /\ x.ws \in WsStates /\ x.sock \in SockStates
  <2> DEFINE a == [x EXCEPT !.ws.closeFrameSent = TRUE]
  <2>1. /\ a.outq = x.outq /\ a.rcv = x.rcv /\ a.log = x.log /\ a.sock = x.sock
        /\ a.ws = [x.ws EXCEPT !.closeFrameSent = TRUE]
        /\ a = [x EXCEPT !.ws = a.ws]
        /\ x.ws \in WsStates /\ x.sock \in SockStates
    BY DEF Endpoint
  <2>2. y = IF PeerIsDone(a) THEN End(a) ELSE a
    BY DEF CloseFrameFlushed
  <2> HIDE DEF a, y
  <2>3. PeerIsDone(a) <=> PeerIsDone(x)
    BY <2>1 DEF PeerIsDone, WsStates
  <2>4. a \in Endpoint
    BY <2>1, WsFields DEF Endpoint
  <2> QED BY <2>1, <2>2, <2>3, <2>4 DEF End, Endpoint
<1> HIDE DEF y
<1>2. /\ y.ws \in WsStates /\ y.ws.readyState = x.ws.readyState
      /\ y.ws.closeFrameReceived = x.ws.closeFrameReceived
      /\ y.ws.closeFrameSent
      /\ y.ws.paused = x.ws.paused /\ y.ws.closeTimer = x.ws.closeTimer
  <2>1. y.ws \in WsStates
    BY <1>1, WsFields
  <2>2. y.ws.readyState = x.ws.readyState
    BY <1>1 DEF WsStates
  <2>3. y.ws.closeFrameReceived = x.ws.closeFrameReceived
    BY <1>1 DEF WsStates
  <2>4. y.ws.closeFrameSent
    BY <1>1 DEF WsStates
  <2>5. y.ws.paused = x.ws.paused /\ y.ws.closeTimer = x.ws.closeTimer
    BY <1>1 DEF WsStates
  <2> QED BY <2>1, <2>2, <2>3, <2>4, <2>5
<1>3. /\ y.sock \in SockStates
      /\ y.sock.wbuf = x.sock.wbuf
      /\ x.sock.ended => y.sock.ended
      /\ y.sock.ended => x.sock.ended \/ PeerIsDone(x)
      /\ y.sock.rdbuf = x.sock.rdbuf /\ y.sock.flowing = x.sock.flowing
      /\ y.sock.dataListener = x.sock.dataListener
      /\ y.sock.endEmitted = x.sock.endEmitted
      /\ y.sock.phase = x.sock.phase /\ y.sock.destroyed = x.sock.destroyed
  BY <1>1 DEF SockStates
<1>4. y \in Endpoint
  BY <1>1, <1>2, <1>3 DEF Endpoint
<1>5. Local(y)
  BY <1>1, <1>2, <1>3 DEF Local, Coherent, FlowOK, EndOK, PeerIsDone, Idle
<1>6. Rank[y.ws.readyState] >= Rank[x.ws.readyState]
  BY <1>1, <1>2, RankFacts DEF WsStates
<1> QED BY <1>1, <1>2, <1>3, <1>4, <1>5, <1>6 DEF StepOK, Keeps, Gone, y
-----------------------------------------------------------------------------
(* 'close' is emitted: only the state, the count and the queue change. *)
LEMMA EmitCloseEffect ==
    ASSUME NEW x \in Endpoint
    PROVE  LET y == EmitClose(x) IN
           /\ y \in Endpoint
           /\ y.sock = x.sock /\ y.rcv = x.rcv
           /\ y.ws.readyState = "CLOSED"
           /\ y.ws.closeFrameReceived = x.ws.closeFrameReceived
           /\ y.ws.closeFrameSent = x.ws.closeFrameSent
           /\ y.ws.closeTimer = x.ws.closeTimer /\ y.ws.paused = x.ws.paused
           /\ y.log.closes = x.log.closes + 1
<1> DEFINE y == EmitClose(x)
<1>1. /\ y.outq = <<>> /\ y.rcv = x.rcv /\ y.sock = x.sock
      /\ y.ws = [x.ws EXCEPT !.readyState = "CLOSED"]
      /\ y.log = [x.log EXCEPT !.closes = @ + 1]
      /\ y = [x EXCEPT !.ws = y.ws, !.log = y.log, !.outq = y.outq]
      /\ x.ws \in WsStates /\ x.log \in LogStates
  BY DEF EmitClose, Endpoint
<1> HIDE DEF y
<1>2. /\ y.ws \in WsStates /\ y.ws.readyState = "CLOSED"
      /\ y.ws.closeFrameReceived = x.ws.closeFrameReceived
      /\ y.ws.closeFrameSent = x.ws.closeFrameSent
      /\ y.ws.closeTimer = x.ws.closeTimer /\ y.ws.paused = x.ws.paused
  BY <1>1 DEF WsStates
<1>3. y.log \in LogStates /\ y.log.closes = x.log.closes + 1
  BY <1>1 DEF LogStates
<1>4. <<>> \in Seq(Frames)
  OBVIOUS
<1>5. y \in Endpoint
  BY <1>1, <1>2, <1>3, <1>4 DEF Endpoint
<1> QED BY <1>1, <1>2, <1>3, <1>5 DEF y

(* Data reach the receiver only while the socket has more to read. *)
LEMMA OnDataOK ==
    ASSUME NEW x \in Endpoint, Local(x), NEW chunk \in Seq(Frames),
           x.sock.flowing, ~x.sock.endEmitted
    PROVE  StepOK(x, OnData(x, chunk))
<1> DEFINE y == OnData(x, chunk)
           full == Held(x) + Len(chunk) >= HighWaterMark
           failed == x.rcv.error # "none"
           need == x.rcv.needDrain \/ full
           flow == x.sock.flowing /\ ~full /\ ~failed
           buf == IF failed THEN x.rcv.rbuf ELSE x.rcv.rbuf \o chunk
<1>0. /\ x.ws \in WsStates /\ x.outq \in Seq(Frames) /\ x.sock \in SockStates
      /\ x.rcv \in RcvStates /\ x.log \in LogStates
      /\ x.rcv.rbuf \in Seq(Frames)
  BY DEF Endpoint, RcvStates
<1>1. CASE ~x.sock.dataListener
  <2>1. y = x
    BY <1>1 DEF OnData
  <2> QED BY <1>0, <2>1, RankFacts DEF StepOK, Keeps, Gone, WsStates
<1>2. CASE x.sock.dataListener
  <2>1. need \in BOOLEAN /\ flow \in BOOLEAN /\ buf \in Seq(Frames)
    BY <1>0
  <2>2. /\ failed <=> x.rcv.error # "none"
        /\ failed => buf = x.rcv.rbuf
        /\ ~failed => (need <=> x.rcv.needDrain \/ full) /\ (flow <=> ~full)
    OBVIOUS
  <2>3. y = [x EXCEPT !.rcv.rbuf = buf, !.rcv.needDrain = need, !.sock.flowing = flow]
    BY <1>2 DEF OnData
  <2> HIDE DEF buf, need, flow, full, failed, y
  <2>4. /\ y.outq = x.outq /\ y.log = x.log /\ y.ws = x.ws
        /\ y.sock = [x.sock EXCEPT !.flowing = flow]
        /\ y.rcv = [x.rcv EXCEPT !.rbuf = buf, !.needDrain = need]
        /\ y = [x EXCEPT !.rcv = y.rcv, !.sock = y.sock]
    BY <2>3 DEF Endpoint
  <2>5. /\ y.sock \in SockStates
        /\ y.sock.wbuf = x.sock.wbuf /\ y.sock.ended = x.sock.ended
        /\ y.sock.rdbuf = x.sock.rdbuf /\ y.sock.flowing = flow
        /\ y.sock.dataListener = x.sock.dataListener
        /\ y.sock.endEmitted = x.sock.endEmitted
        /\ y.sock.phase = x.sock.phase /\ y.sock.destroyed = x.sock.destroyed
    BY <1>0, <2>1, <2>4 DEF SockStates
  <2>6. /\ y.rcv \in RcvStates
        /\ y.rcv.rbuf = buf /\ y.rcv.needDrain = need
        /\ y.rcv.inflating = x.rcv.inflating /\ y.rcv.error = x.rcv.error
        /\ y.rcv.ending = x.rcv.ending /\ y.rcv.finished = x.rcv.finished
    BY <1>0, <2>1, <2>4 DEF RcvStates
  <2>7. y \in Endpoint
    BY <1>0, <2>4, <2>5, <2>6 DEF Endpoint
  <2>8. ~x.rcv.finished
    <3>1. ~x.rcv.ending
      BY <1>2 DEF Local, Coherent
    <3> QED BY <3>1 DEF Local, Coherent
  <2>9. FlowOK(y)
    BY <1>2, <2>2, <2>4, <2>5, <2>6 DEF Local, FlowOK
  <2>10. Coherent(y)
    BY <2>2, <2>4, <2>5, <2>6, <2>8 DEF Local, Coherent
  <2>11. EndOK(y)
    BY <2>4, <2>5, <2>6 DEF Local, EndOK, PeerIsDone
  <2>12. Rank[y.ws.readyState] >= Rank[x.ws.readyState]
    BY <1>0, <2>4, RankFacts DEF WsStates
  <2> QED BY <2>4, <2>5, <2>7, <2>9, <2>10, <2>11, <2>12 DEF StepOK, Keeps, Gone, Local, y
<1> QED BY <1>1, <1>2
-----------------------------------------------------------------------------
(* The listeners of the receiver answer a close frame, or a failure, alike: *)
(* no more data is wanted, the socket flows, the WebSocket is closed.       *)
Stop(x) == [x EXCEPT !.sock.dataListener = FALSE, !.sock.flowing = TRUE]

(* What that leaves alone. *)
LEMMA StopEffect ==
    ASSUME NEW x \in Endpoint
    PROVE  LET y == Stop(x) IN
           /\ y \in Endpoint
           /\ y.ws = x.ws /\ y.rcv = x.rcv /\ y.log = x.log
           /\ ~y.sock.dataListener
           /\ y.sock.wbuf = x.sock.wbuf /\ y.sock.ended = x.sock.ended
           /\ y.sock.rdbuf = x.sock.rdbuf /\ y.sock.endEmitted = x.sock.endEmitted
           /\ y.sock.phase = x.sock.phase /\ y.sock.destroyed = x.sock.destroyed
<1> DEFINE y == Stop(x)
<1>1. /\ y.outq = x.outq /\ y.rcv = x.rcv /\ y.ws = x.ws /\ y.log = x.log
      /\ y.sock = [x.sock EXCEPT !.dataListener = FALSE, !.flowing = TRUE]
      /\ y = [x EXCEPT !.sock = y.sock]
      /\ x.sock \in SockStates
  BY DEF Stop, Endpoint
<1> HIDE DEF y
<1>2. /\ y.sock \in SockStates /\ ~y.sock.dataListener
      /\ y.sock.wbuf = x.sock.wbuf /\ y.sock.ended = x.sock.ended
      /\ y.sock.rdbuf = x.sock.rdbuf /\ y.sock.endEmitted = x.sock.endEmitted
      /\ y.sock.phase = x.sock.phase /\ y.sock.destroyed = x.sock.destroyed
  BY <1>1 DEF SockStates
<1>3. y \in Endpoint
  BY <1>1, <1>2 DEF Endpoint
<1> QED BY <1>1, <1>2, <1>3 DEF y

(* The receiver has concluded. *)
LEMMA OnConcludeOK ==
    ASSUME NEW x \in Endpoint, Local(x), NEW code \in StatusCodes,
           x.rcv.inflating = "no", x.rcv.error = "none", ~x.rcv.finished
    PROVE  StepOK(x, OnConclude(x, code))
<1> DEFINE a == [x EXCEPT !.ws.closeFrameReceived = TRUE, !.ws.closeCode = code]
           z == IF x.sock.phase = "detached" THEN a
                ELSE Close([a EXCEPT !.sock.dataListener = FALSE, !.sock.flowing = TRUE], code)
           y == OnConclude(x, code)
<1>0. /\ x.ws \in WsStates /\ x.sock \in SockStates /\ x.rcv \in RcvStates
      /\ x.ws.readyState \in {"OPEN", "CLOSING", "CLOSED"}
  BY DEF Endpoint, WsStates
<1>1. /\ a.outq = x.outq /\ a.rcv = x.rcv /\ a.log = x.log /\ a.sock = x.sock
      /\ a.ws = [x.ws EXCEPT !.closeFrameReceived = TRUE, !.closeCode = code]
      /\ a = [x EXCEPT !.ws = a.ws]
  BY DEF Endpoint
<1>2. z = IF x.sock.phase = "detached" THEN a ELSE Close(Stop(a), code)
  BY DEF Stop
<1>3. y = [z EXCEPT !.rcv.rbuf = <<>>, !.rcv.ending = TRUE]
  BY DEF OnConclude
<1> HIDE DEF a, z, y
<1>4. /\ a.ws \in WsStates /\ a.ws.readyState = x.ws.readyState
      /\ a.ws.closeFrameReceived /\ a.ws.closeFrameSent = x.ws.closeFrameSent
      /\ a.ws.closeTimer = x.ws.closeTimer /\ a.ws.paused = x.ws.paused
  <2>1. a.ws \in WsStates
    <3>1. [x.ws EXCEPT !.closeFrameReceived = TRUE, !.closeCode = code] \in WsStates
      BY <1>0, WsCodeFields, Zenon
    <3> QED BY <1>1, <3>1, Zenon
  <2>2. a.ws.closeFrameReceived
    BY <1>0, <1>1 DEF WsStates
  <2>3. /\ a.ws.readyState = x.ws.readyState
        /\ a.ws.closeFrameSent = x.ws.closeFrameSent
        /\ a.ws.closeTimer = x.ws.closeTimer /\ a.ws.paused = x.ws.paused
    BY <1>0, <1>1 DEF WsStates
  <2> QED BY <2>1, <2>2, <2>3
<1>5. a \in Endpoint
  BY <1>0, <1>1, <1>4 DEF Endpoint
<1>6. x.ws.readyState # "CLOSED"
  BY DEF Local, Coherent
<1>7. (* What z is in both cases. *)
      /\ z \in Endpoint /\ z.rcv = x.rcv /\ z.log = x.log
      /\ z.ws.closeFrameReceived /\ z.ws.readyState = "CLOSING"
      /\ x.sock.phase = "detached" => ~z.ws.closeTimer
      /\ ~z.sock.dataListener
      /\ z.sock.rdbuf = x.sock.rdbuf /\ z.sock.endEmitted = x.sock.endEmitted
      /\ z.sock.phase = x.sock.phase
      /\ x.sock.destroyed => z.sock.destroyed
      /\ z.sock.ended => z.sock.endEmitted \/ z.ws.closeFrameSent
      /\ Gone(x) => Gone(z)
  <2>1. CASE x.sock.phase = "detached"
    <3>1. z = a
      BY <1>2, <2>1
    <3> QED BY <1>0, <1>1, <1>4, <1>5, <1>6, <2>1, <3>1 DEF Local, Coherent, EndOK, Gone
  <2>2. CASE x.sock.phase # "detached"
    <3> DEFINE b == Stop(a)
    <3>1. /\ b \in Endpoint /\ b.ws = a.ws /\ b.rcv = x.rcv /\ b.log = x.log
          /\ ~b.sock.dataListener
          /\ b.sock.wbuf = x.sock.wbuf /\ b.sock.ended = x.sock.ended
          /\ b.sock.rdbuf = x.sock.rdbuf /\ b.sock.endEmitted = x.sock.endEmitted
          /\ b.sock.phase = x.sock.phase /\ b.sock.destroyed = x.sock.destroyed
      BY <1>1, <1>5, StopEffect
    <3> HIDE DEF b
    <3>2. Closes(b, z)
      BY <1>2, <2>2, <3>1, CloseEffect DEF b
    <3> QED BY <1>0, <1>4, <1>6, <2>2, <3>1, <3>2 DEF Closes, Sends, Local, EndOK, Gone
  <2> QED BY <2>1, <2>2
<1>8. /\ y.outq = z.outq /\ y.log = z.log /\ y.ws = z.ws /\ y.sock = z.sock
      /\ y.rcv = [x.rcv EXCEPT !.rbuf = <<>>, !.ending = TRUE]
      /\ y = [z EXCEPT !.rcv = y.rcv]
  BY <1>3, <1>7 DEF Endpoint
<1>9. /\ y.rcv \in RcvStates /\ y.rcv.rbuf = <<>> /\ y.rcv.ending
      /\ y.rcv.inflating = x.rcv.inflating /\ y.rcv.error = x.rcv.error
      /\ y.rcv.finished = x.rcv.finished
  <2>1. <<>> \in Seq(Frames)
    OBVIOUS
  <2> QED BY <1>0, <1>8, <2>1 DEF RcvStates
<1>10. y \in Endpoint
  BY <1>7, <1>8, <1>9 DEF Endpoint
<1>11. Local(y)
  BY <1>0, <1>6, <1>7, <1>8, <1>9 DEF Local, Coherent, FlowOK, EndOK, PeerIsDone, Idle
<1>12. Rank[y.ws.readyState] >= Rank[x.ws.readyState]
  BY <1>0, <1>6, <1>7, <1>8, RankFacts
<1> QED BY <1>7, <1>8, <1>10, <1>11, <1>12 DEF StepOK, Keeps, Gone, y

(* The receiver's 'error' event. *)
LEMMA OnReceiverErrorOK ==
    ASSUME NEW x \in Endpoint, Local(x), x.rcv.error = "pending"
    PROVE  StepOK(x, OnReceiverError(x))
<1> DEFINE a == [x EXCEPT !.rcv.error = "emitted"]
           y == OnReceiverError(x)
<1>0. /\ x.ws \in WsStates /\ x.sock \in SockStates /\ x.rcv \in RcvStates
      /\ x.log \in LogStates
      /\ x.ws.readyState \in {"OPEN", "CLOSING", "CLOSED"}
  BY DEF Endpoint, WsStates
<1>1. /\ a.outq = x.outq /\ a.log = x.log /\ a.ws = x.ws /\ a.sock = x.sock
      /\ a.rcv = [x.rcv EXCEPT !.error = "emitted"]
      /\ a = [x EXCEPT !.rcv = a.rcv]
  BY DEF Endpoint
<1>2. y = IF x.sock.phase = "detached" THEN EmitClose(a) ELSE Close(Stop(a), 1009)
  BY DEF OnReceiverError, Stop
<1> HIDE DEF a, y
<1>3. /\ a.rcv \in RcvStates /\ a.rcv.error = "emitted"
      /\ a.rcv.rbuf = x.rcv.rbuf /\ a.rcv.inflating = x.rcv.inflating
      /\ a.rcv.ending = x.rcv.ending /\ a.rcv.finished = x.rcv.finished
  BY <1>0, <1>1 DEF RcvStates
<1>4. a \in Endpoint
  BY <1>0, <1>1, <1>3 DEF Endpoint
<1>5. /\ ~x.rcv.finished
      /\ x.ws.readyState # "CLOSED" /\ x.log.closes = 0
  BY DEF Local, Coherent, Idle
<1>6. CASE x.sock.phase = "detached"
  <2>1. /\ y \in Endpoint /\ y.sock = x.sock /\ y.rcv = a.rcv
        /\ y.ws.readyState = "CLOSED"
        /\ y.ws.closeFrameReceived = x.ws.closeFrameReceived
        /\ y.ws.closeFrameSent = x.ws.closeFrameSent
        /\ y.ws.closeTimer = x.ws.closeTimer /\ y.ws.paused = x.ws.paused
        /\ y.log.closes = 1
    BY <1>1, <1>2, <1>4, <1>5, <1>6, EmitCloseEffect
  <2>2. Local(y)
    BY <1>3, <1>5, <1>6, <2>1 DEF Local, Coherent, FlowOK, EndOK, PeerIsDone
  <2>3. Rank[y.ws.readyState] >= Rank[x.ws.readyState]
    BY <1>0, <2>1, RankFacts
  <2> QED BY <2>1, <2>2, <2>3 DEF StepOK, Keeps, Gone, y
<1>7. CASE x.sock.phase # "detached"
  <2> DEFINE b == Stop(a)
  <2>1. /\ b \in Endpoint /\ b.ws = x.ws /\ b.rcv = a.rcv /\ b.log = x.log
        /\ ~b.sock.dataListener
        /\ b.sock.wbuf = x.sock.wbuf /\ b.sock.ended = x.sock.ended
        /\ b.sock.rdbuf = x.sock.rdbuf /\ b.sock.endEmitted = x.sock.endEmitted
        /\ b.sock.phase = x.sock.phase /\ b.sock.destroyed = x.sock.destroyed
    BY <1>1, <1>4, StopEffect
  <2> HIDE DEF b
  <2>2. Closes(b, y)
    BY <1>2, <1>7, <2>1, CloseEffect DEF b, StatusCodes
  <2>3. Local(y)
    <3>1. Coherent(y)
      BY <1>0, <1>3, <1>5, <1>7, <2>1, <2>2 DEF Local, Coherent, Closes, Sends, Idle
    <3>2. FlowOK(y)
      BY <2>1, <2>2 DEF FlowOK, Closes, Sends
    <3>3. EndOK(y)
      BY <1>3, <2>1, <2>2 DEF Local, EndOK, PeerIsDone, Closes, Sends
    <3> QED BY <3>1, <3>2, <3>3 DEF Local
  <2>4. Rank[y.ws.readyState] >= Rank[x.ws.readyState]
    BY <1>0, <1>5, <2>1, <2>2, RankFacts DEF Closes
  <2> QED BY <2>1, <2>2, <2>3, <2>4 DEF StepOK, Keeps, Gone, Closes, Sends, y
<1> QED BY <1>6, <1>7
-----------------------------------------------------------------------------
(* Assignments to one component each, and what they need. *)

(* The history, but for the 'close' events counted in it. *)
LEMMA LogOK ==
    ASSUME NEW x \in Endpoint, Local(x), NEW l \in LogStates, l.closes = x.log.closes
    PROVE  StepOK(x, [x EXCEPT !.log = l])
<1> DEFINE y == [x EXCEPT !.log = l]
<1>1. /\ y \in Endpoint /\ y.ws = x.ws /\ y.sock = x.sock /\ y.rcv = x.rcv /\ y.log = l
      /\ x.ws.readyState \in {"OPEN", "CLOSING", "CLOSED"}
  BY DEF Endpoint, WsStates
<1> HIDE DEF y
<1>2. Local(y)
  BY <1>1 DEF Local, Coherent, FlowOK, EndOK, PeerIsDone, Idle
<1> QED BY <1>1, <1>2, RankFacts DEF StepOK, Keeps, Gone, y

(* The sender's queue. *)
LEMMA OutqOK ==
    ASSUME NEW x \in Endpoint, Local(x), NEW q \in Seq(Frames)
    PROVE  StepOK(x, [x EXCEPT !.outq = q])
<1> DEFINE y == [x EXCEPT !.outq = q]
<1>1. /\ y \in Endpoint /\ y.ws = x.ws /\ y.sock = x.sock /\ y.rcv = x.rcv /\ y.log = x.log
      /\ x.ws.readyState \in {"OPEN", "CLOSING", "CLOSED"}
  BY DEF Endpoint, WsStates
<1> HIDE DEF y
<1>2. Local(y)
  BY <1>1 DEF Local, Coherent, FlowOK, EndOK, PeerIsDone, Idle
<1> QED BY <1>1, <1>2, RankFacts DEF StepOK, Keeps, Gone, y

(* A receiver with something to do may be left in any state with no event   *)
(* of its end emitted, if it has nothing more to parse once it failed.      *)
LEMMA RcvOK ==
    ASSUME NEW x \in Endpoint, Local(x), NEW r \in RcvStates,
           x.rcv.rbuf # <<>> \/ x.rcv.inflating # "no", x.rcv.error = "none",
           r.ending = x.rcv.ending, r.finished = x.rcv.finished,
           r.needDrain = x.rcv.needDrain,
           r.error # "emitted",
           r.error = "pending" => r.rbuf = <<>> /\ r.inflating = "no"
    PROVE  StepOK(x, [x EXCEPT !.rcv = r])
<1> DEFINE y == [x EXCEPT !.rcv = r]
<1>1. /\ y \in Endpoint /\ y.ws = x.ws /\ y.sock = x.sock /\ y.rcv = r /\ y.log = x.log
      /\ x.ws.readyState \in {"OPEN", "CLOSING", "CLOSED"}
      /\ r.error \in {"none", "pending", "emitted"}
  BY DEF Endpoint, WsStates, RcvStates
<1> HIDE DEF y
<1>2. ~x.rcv.finished
  BY DEF Local, Coherent, Idle
<1>3. Local(y)
  BY <1>1, <1>2 DEF Local, Coherent, FlowOK, EndOK, PeerIsDone, Idle
<1> QED BY <1>1, <1>3, RankFacts DEF StepOK, Keeps, Gone, y

(* _readyState, in any handler that runs before 'close'. *)
LEMMA ClosingOK ==
    ASSUME NEW x \in Endpoint, Local(x), x.ws.readyState # "CLOSED"
    PROVE  StepOK(x, [x EXCEPT !.ws.readyState = "CLOSING"])
<1> DEFINE y == [x EXCEPT !.ws.readyState = "CLOSING"]
<1>1. /\ y.outq = x.outq /\ y.rcv = x.rcv /\ y.log = x.log /\ y.sock = x.sock
      /\ y.ws = [x.ws EXCEPT !.readyState = "CLOSING"]
      /\ y = [x EXCEPT !.ws = y.ws]
      /\ x.ws \in WsStates /\ x.ws.readyState \in {"OPEN", "CLOSING", "CLOSED"}
  BY DEF Endpoint, WsStates
<1> HIDE DEF y
<1>2. /\ y.ws \in WsStates /\ y.ws.readyState = "CLOSING"
      /\ y.ws.closeFrameReceived = x.ws.closeFrameReceived
      /\ y.ws.closeFrameSent = x.ws.closeFrameSent
      /\ y.ws.paused = x.ws.paused /\ y.ws.closeTimer = x.ws.closeTimer
  BY <1>1 DEF WsStates
<1>3. y \in Endpoint
  BY <1>1, <1>2 DEF Endpoint
<1>4. Local(y)
  BY <1>1, <1>2 DEF Local, Coherent, FlowOK, EndOK, PeerIsDone, Idle
<1>5. Rank[y.ws.readyState] >= Rank[x.ws.readyState]
  BY <1>1, <1>2, RankFacts
<1> QED BY <1>1, <1>3, <1>4, <1>5 DEF StepOK, Keeps, Gone, y

(* The two kinds of pause: by the program and by the receiver. *)
LEMMA FlowUpdateOK ==
    ASSUME NEW x \in Endpoint, Local(x), NEW p \in BOOLEAN, NEW n \in BOOLEAN, NEW f \in BOOLEAN,
           x.sock.dataListener /\ x.rcv.error = "none" => (f <=> ~p /\ ~n)
    PROVE  StepOK(x, [x EXCEPT !.ws.paused = p, !.rcv.needDrain = n, !.sock.flowing = f])
<1> DEFINE y == [x EXCEPT !.ws.paused = p, !.rcv.needDrain = n, !.sock.flowing = f]
<1>1. /\ y.outq = x.outq /\ y.log = x.log
      /\ y.ws = [x.ws EXCEPT !.paused = p]
      /\ y.rcv = [x.rcv EXCEPT !.needDrain = n]
      /\ y.sock = [x.sock EXCEPT !.flowing = f]
      /\ y = [x EXCEPT !.ws = y.ws, !.rcv = y.rcv, !.sock = y.sock]
      /\ x.ws \in WsStates /\ x.rcv \in RcvStates /\ x.sock \in SockStates
      /\ x.ws.readyState \in {"OPEN", "CLOSING", "CLOSED"}
  BY DEF Endpoint, WsStates
<1> HIDE DEF y
<1>2. /\ y.ws \in WsStates /\ y.ws.readyState = x.ws.readyState
      /\ y.ws.closeFrameReceived = x.ws.closeFrameReceived
      /\ y.ws.closeFrameSent = x.ws.closeFrameSent
      /\ y.ws.paused = p /\ y.ws.closeTimer = x.ws.closeTimer
  BY <1>1 DEF WsStates
<1>3. /\ y.rcv \in RcvStates /\ y.rcv.needDrain = n
      /\ y.rcv.rbuf = x.rcv.rbuf /\ y.rcv.inflating = x.rcv.inflating
      /\ y.rcv.error = x.rcv.error
      /\ y.rcv.ending = x.rcv.ending /\ y.rcv.finished = x.rcv.finished
  BY <1>1 DEF RcvStates
<1>4. /\ y.sock \in SockStates /\ y.sock.flowing = f
      /\ y.sock.wbuf = x.sock.wbuf /\ y.sock.ended = x.sock.ended
      /\ y.sock.rdbuf = x.sock.rdbuf /\ y.sock.dataListener = x.sock.dataListener
      /\ y.sock.endEmitted = x.sock.endEmitted
      /\ y.sock.phase = x.sock.phase /\ y.sock.destroyed = x.sock.destroyed
  BY <1>1 DEF SockStates
<1>5. y \in Endpoint
  BY <1>1, <1>2, <1>3, <1>4 DEF Endpoint
<1>6. Local(y)
  <2>1. Coherent(y)
    BY <1>1, <1>2, <1>3, <1>4 DEF Local, Coherent, Idle
  <2>2. FlowOK(y)
    BY <1>2, <1>3, <1>4 DEF FlowOK
  <2>3. EndOK(y)
    BY <1>2, <1>3, <1>4 DEF Local, EndOK, PeerIsDone
  <2> QED BY <2>1, <2>2, <2>3 DEF Local
<1>7. Rank[y.ws.readyState] >= Rank[x.ws.readyState]
  BY <1>1, <1>2, RankFacts
<1> QED BY <1>1, <1>4, <1>5, <1>6, <1>7 DEF StepOK, Keeps, Gone, y
(* Frames that leave the socket's buffers, or that it keeps. *)
LEMMA BuffersOK ==
    ASSUME NEW x \in Endpoint, Local(x), NEW w \in Seq(Frames), NEW k \in Seq(Frames),
           Gone(x) => w = <<>>,
           x.sock.endEmitted => k = <<>>
    PROVE  StepOK(x, [x EXCEPT !.sock.wbuf = w, !.sock.rdbuf = k])
<1> DEFINE y == [x EXCEPT !.sock.wbuf = w, !.sock.rdbuf = k]
<1>1. /\ y.outq = x.outq /\ y.log = x.log /\ y.ws = x.ws /\ y.rcv = x.rcv
      /\ y.sock = [x.sock EXCEPT !.wbuf = w, !.rdbuf = k]
      /\ y = [x EXCEPT !.sock = y.sock]
      /\ x.sock \in SockStates
      /\ x.ws.readyState \in {"OPEN", "CLOSING", "CLOSED"}
  BY DEF Endpoint, WsStates
<1> HIDE DEF y
<1>2. /\ y.sock \in SockStates /\ y.sock.wbuf = w /\ y.sock.rdbuf = k
      /\ y.sock.flowing = x.sock.flowing /\ y.sock.ended = x.sock.ended
      /\ y.sock.dataListener = x.sock.dataListener
      /\ y.sock.endEmitted = x.sock.endEmitted
      /\ y.sock.phase = x.sock.phase /\ y.sock.destroyed = x.sock.destroyed
  BY <1>1 DEF SockStates
<1>3. y \in Endpoint
  BY <1>1, <1>2 DEF Endpoint
<1>4. Local(y)
  BY <1>1, <1>2 DEF Local, Coherent, FlowOK, EndOK, PeerIsDone, Idle
<1>5. Rank[y.ws.readyState] >= Rank[x.ws.readyState]
  BY <1>1, RankFacts
<1> QED BY <1>1, <1>2, <1>3, <1>4, <1>5 DEF StepOK, Keeps, Gone, y

(* A failure of the receiver, from a state that parses or inflates. *)
LEMMA FailOK ==
    ASSUME NEW x \in Endpoint, Local(x), NEW b \in Seq(Frames), x.rcv.error = "none",
           x.rcv.rbuf # <<>> \/ x.rcv.inflating # "no"
    PROVE  StepOK(x, Fail([x EXCEPT !.rcv.rbuf = b, !.rcv.inflating = "no"]))
<1> DEFINE r == [x.rcv EXCEPT !.rbuf = <<>>, !.inflating = "no", !.error = "pending"]
<1>0. x.rcv \in RcvStates /\ <<>> \in Seq(Frames)
  BY DEF Endpoint
<1>1. Fail([x EXCEPT !.rcv.rbuf = b, !.rcv.inflating = "no"]) = [x EXCEPT !.rcv = r]
  BY <1>0 DEF Fail, Endpoint
<1>2. /\ r \in RcvStates
      /\ r.ending = x.rcv.ending /\ r.finished = x.rcv.finished
      /\ r.needDrain = x.rcv.needDrain
      /\ r.error = "pending" /\ r.rbuf = <<>> /\ r.inflating = "no"
  BY <1>0 DEF RcvStates
<1> HIDE DEF r
<1> QED BY <1>1, <1>2, RcvOK

(* A message handed over. *)
LEMMA DeliverOK ==
    ASSUME NEW x \in Endpoint, Local(x)
    PROVE  StepOK(x, [x EXCEPT !.log.delivered = @ + 1])
<1> DEFINE l == [x.log EXCEPT !.delivered = @ + 1]
<1>1. [x EXCEPT !.log.delivered = @ + 1] = [x EXCEPT !.log = l]
  BY DEF Endpoint
<1>2. l \in LogStates /\ l.closes = x.log.closes
  BY DEF Endpoint, LogStates
<1> HIDE DEF l
<1> QED BY <1>1, <1>2, LogOK

(* One frame parsed. *)
LEMMA ReceiveOK ==
    ASSUME NEW x \in Endpoint, Local(x), Parsing(x)
    PROVE  StepOK(x, Receive(x))
<1> DEFINE f == Head(x.rcv.rbuf)
           r == [x.rcv EXCEPT !.rbuf = Tail(@)]
           y == [x EXCEPT !.rcv.rbuf = Tail(@)]
<1>0. /\ x.rcv \in RcvStates /\ x.rcv.rbuf \in Seq(Frames) /\ x.rcv.rbuf # <<>>
      /\ x.rcv.inflating = "no" /\ x.rcv.error = "none"
      /\ f \in Frames /\ Tail(x.rcv.rbuf) \in Seq(Frames)
  <2>1. x.rcv \in RcvStates /\ x.rcv.rbuf \in Seq(Frames)
    BY DEF Endpoint, RcvStates
  <2>2. x.rcv.rbuf # <<>> /\ x.rcv.inflating = "no" /\ x.rcv.error = "none"
    BY DEF Parsing
  <2> QED BY <2>1, <2>2
<1>1. /\ f.t \in FrameTypes /\ f.z \in BOOLEAN /\ f.code \in StatusCodes
  BY <1>0 DEF Frames
<1>2. /\ r \in RcvStates /\ r.rbuf = Tail(x.rcv.rbuf)
      /\ r.inflating = "no" /\ r.error = "none"
      /\ r.ending = x.rcv.ending /\ r.finished = x.rcv.finished
      /\ r.needDrain = x.rcv.needDrain
  BY <1>0 DEF RcvStates
<1>3. y = [x EXCEPT !.rcv = r]
  BY DEF Endpoint
<1>4. StepOK(x, y)
  <2> HIDE DEF r, y
  <2> QED BY <1>0, <1>2, <1>3, RcvOK
<1>5. y \in Endpoint /\ Local(y) /\ y.rcv = r /\ ~y.rcv.finished
  <2>1. ~x.rcv.finished
    BY <1>0 DEF Local, Coherent, Idle
  <2>2. y.rcv = r
    BY <1>3 DEF Endpoint
  <2> HIDE DEF r, y
  <2> QED BY <1>2, <1>4, <2>1, <2>2 DEF StepOK, Keeps
<1>6. CASE f.t \in {"data", "big"} /\ f.z
  <2> DEFINE s == [x.rcv EXCEPT !.rbuf = Tail(@), !.inflating = f.t]
  <2>1. Receive(x) = [x EXCEPT !.rcv = s]
    BY <1>0, <1>6 DEF Receive, Endpoint
  <2>2. /\ s \in RcvStates /\ s.error = "none"
        /\ s.ending = x.rcv.ending /\ s.finished = x.rcv.finished
        /\ s.needDrain = x.rcv.needDrain
    <3> HIDE DEF f
    <3> QED BY <1>0, <1>6 DEF RcvStates
  <2> HIDE DEF s
  <2> QED BY <1>0, <2>1, <2>2, RcvOK
<1>7. CASE f.t = "data" /\ ~f.z
  <2>1. Receive(x) = [y EXCEPT !.log.delivered = @ + 1]
    BY <1>7 DEF Receive
  <2> HIDE DEF y
  <2> QED BY <1>4, <1>5, <2>1, DeliverOK, StepTrans
<1>8. CASE f.t = "big" /\ ~f.z
  <2>1. Receive(x) = Fail(y)
    BY <1>8 DEF Receive
  <2>2. /\ Fail(y) = [x EXCEPT !.rcv = [y.rcv EXCEPT !.rbuf = <<>>, !.error = "pending"]]
        /\ y.rcv = r
    BY DEF Fail, Endpoint
  <2> DEFINE q == [x EXCEPT !.rcv.rbuf = Tail(x.rcv.rbuf), !.rcv.inflating = "no"]
  <2>3. /\ Fail(q) = [x EXCEPT !.rcv = [q.rcv EXCEPT !.rbuf = <<>>, !.error = "pending"]]
        /\ q.rcv = [x.rcv EXCEPT !.rbuf = Tail(x.rcv.rbuf), !.inflating = "no"]
    BY DEF Fail, Endpoint
  <2>4. q.rcv = r
    <3> HIDE DEF q
    <3> QED BY <1>0, <2>3 DEF RcvStates
  <2>5. Receive(x) = Fail(q)
    <3> HIDE DEF q, r, y
    <3> QED BY <2>1, <2>2, <2>3, <2>4, Zenon
  <2> QED BY <1>0, <2>5, FailOK
<1>9. CASE f.t = "ping"
  <2>1. Receive(x) = IF y.ws.readyState = "OPEN" THEN Submit(y, Pong) ELSE y
    BY <1>9 DEF Receive
  <2>2. Pong \in Frames
    BY DEF Pong, Frames, FrameTypes, StatusCodes
  <2> HIDE DEF y
  <2>3. StepOK(y, Submit(y, Pong))
    BY <1>5, <2>2, SubmitEffect, WritesOK
  <2> QED BY <1>4, <2>1, <2>3, StepTrans
<1>10. CASE f.t = "pong"
  <2>1. Receive(x) = y
    BY <1>10 DEF Receive
  <2> QED BY <1>4, <2>1
<1>11. CASE f.t = "close"
  <2>1. Receive(x) = OnConclude(y, f.code)
    BY <1>11 DEF Receive
  <2> HIDE DEF y, f, r
  <2>2. StepOK(y, OnConclude(y, f.code))
    BY <1>1, <1>2, <1>5, OnConcludeOK
  <2> QED BY <1>4, <2>1, <2>2, StepTrans
<1> HIDE DEF f, r, y
<1> QED BY <1>1, <1>6, <1>7, <1>8, <1>9, <1>10, <1>11 DEF FrameTypes
-----------------------------------------------------------------------------
(* The inductive invariant of the connection. *)
Inv ==
    /\ TypeOK
    /\ \A e \in Peers : Local(ep[e])
    /\ \A e \in Peers : ep[e].sock.endEmitted => PeerIsGone(e)

(* What every step of the connection does. *)
Advances ==
    /\ Inv'
    /\ \A e \in Peers : Rank[ep'[e].ws.readyState] >= Rank[ep[e].ws.readyState]

(* What the proofs use of the constants. *)
LEMMA TwoPeers ==
    \A e \in Peers : \E o \in Peers : Peers = {e, o} /\ e # o
BY ZenonT(60), WebSocketAssumption

(* Messages and status codes of the program make frames. *)
LEMMA KindsAndCodes ==
    /\ \A kind \in Kinds : kind \in FrameTypes
    /\ \A code \in Codes : code \in StatusCodes
<1>1. Kinds \subseteq {"data", "big"} /\ Codes \subseteq {1000, 1005}
  BY ZenonT(60), WebSocketAssumption
<1> QED BY <1>1 DEF FrameTypes, StatusCodes

(* Whether a message is compressed. *)
LEMMA DeflateType ==
    \A z \in {FALSE, Deflate} : z \in BOOLEAN
<1>1. Deflate \in BOOLEAN
  BY ZenonT(60), WebSocketAssumption
<1> QED BY <1>1, Zenon

(* There are two endpoints. *)
LEMMA OtherFacts ==
    ASSUME NEW e \in Peers
    PROVE  Other(e) \in Peers /\ Other(e) # e /\ Peers = {e, Other(e)}
<1>1. PICK o \in Peers : Peers = {e, o} /\ e # o
  BY TwoPeers
<1>2. \E p \in Peers : p # e
  BY <1>1
<1>3. Other(e) \in Peers /\ Other(e) # e
  BY <1>2 DEF Other
<1> QED BY <1>1, <1>3

(* A step of one endpoint that treats the wire as it may. *)
LEMMA WireOK ==
    ASSUME Inv, NEW e \in Peers, NEW y, Keeps(ep[e], y),
           ep' = [ep EXCEPT ![e] = y],
           chan' \in [Peers -> Seq(Frames)],
           y.sock.endEmitted => chan'[Other(e)] = <<>> /\ Gone(ep[Other(e)]),
           chan[e] = <<>> /\ Gone(ep[e]) => chan'[e] = <<>>
    PROVE  Advances
<1> DEFINE o == Other(e)
<1>1. o \in Peers /\ o # e /\ Peers = {e, o}
  BY OtherFacts
<1>2. Other(o) = e
  BY <1>1, OtherFacts
<1>3. /\ ep'[e] = y /\ ep'[o] = ep[o]
      /\ ep' \in [Peers -> Endpoint]
      /\ ep[o] \in Endpoint
  BY <1>1 DEF Inv, TypeOK, Keeps
<1>4. TypeOK'
  BY <1>3 DEF TypeOK
<1> HIDE DEF o
<1>5. \A p \in Peers : Local(ep[p])'
  <2>1. Local(ep'[e]) /\ Local(ep'[o])
    BY <1>1, <1>3 DEF Inv, Keeps
  <2>2. \A p \in Peers : Local(ep'[p])
    BY <1>1, <2>1
  <2> QED BY <2>2
<1>6. \A p \in Peers : (ep[p].sock.endEmitted => PeerIsGone(p))'
  <2>1. ep'[e].sock.endEmitted => PeerIsGone(e)'
    BY <1>1, <1>3 DEF PeerIsGone, Gone, o
  <2>2. ep'[o].sock.endEmitted => PeerIsGone(o)'
    <3>1. ep[o].sock.endEmitted => chan[e] = <<>> /\ Gone(ep[e])
      BY <1>1, <1>2 DEF Inv, PeerIsGone, Gone
    <3> QED BY <1>2, <1>3, <3>1 DEF Keeps, PeerIsGone, Gone
  <2> QED BY <1>1, <2>1, <2>2
<1>7. \A p \in Peers : Rank[ep'[p].ws.readyState] >= Rank[ep[p].ws.readyState]
  <2>1. ep[o].ws.readyState \in {"OPEN", "CLOSING", "CLOSED"}
    BY <1>3 DEF Endpoint, WsStates
  <2>2. Rank[ep'[o].ws.readyState] >= Rank[ep[o].ws.readyState]
    BY <1>3, <2>1, RankFacts
  <2>3. Rank[ep'[e].ws.readyState] >= Rank[ep[e].ws.readyState]
    BY <1>3 DEF Keeps
  <2> QED BY <1>1, <2>2, <2>3
<1> QED BY <1>4, <1>5, <1>6, <1>7 DEF Inv, Advances

(* A step of one endpoint that leaves the wire alone. *)
LEMMA BecomeOK ==
    ASSUME Inv, NEW e \in Peers, NEW y, StepOK(ep[e], y), Become(e, y)
    PROVE  Advances
<1>1. y.sock.endEmitted => chan[Other(e)] = <<>> /\ Gone(ep[Other(e)])
  BY DEF Inv, StepOK, PeerIsGone, Gone
<1>2. chan' = chan /\ ep' = [ep EXCEPT ![e] = y] /\ chan \in [Peers -> Seq(Frames)]
  BY DEF Become, Inv, TypeOK
<1> QED BY <1>1, <1>2, WireOK DEF StepOK

-----------------------------------------------------------------------------
(* The calls of the program. *)
LEMMA UserAdvances ==
    ASSUME Inv, NEW e \in Peers, User(e)
    PROVE  Advances
<1> DEFINE x == ep[e]
<1>0. /\ x \in Endpoint /\ Local(x)
      /\ x.log \in LogStates /\ x.ws.paused \in BOOLEAN
      /\ x.rcv.needDrain \in BOOLEAN /\ x.sock.flowing \in BOOLEAN
  BY DEF Inv, TypeOK, Endpoint, WsStates, RcvStates, SockStates
<1>1. ASSUME NEW kind \in Kinds, NEW z \in {FALSE, Deflate}, UserSend(e, kind, z)
      PROVE  Advances
  <2> DEFINE l == [x.log EXCEPT !.sent = @ + 1]
             y == [x EXCEPT !.log.sent = @ + 1]
  <2>1. y = [x EXCEPT !.log = l]
    BY <1>0 DEF Endpoint
  <2>2. l \in LogStates /\ l.closes = x.log.closes
    BY <1>0 DEF LogStates
  <2>3. Message(kind, z) \in Frames
    <3>1. z \in BOOLEAN
      BY DeflateType
    <3>2. kind \in FrameTypes
      BY KindsAndCodes
    <3> QED BY <3>1, <3>2 DEF Message, Frames, StatusCodes
  <2>4. Become(e, Submit(y, Message(kind, z)))
    BY <1>1 DEF UserSend
  <2> HIDE DEF l, y, x
  <2>5. StepOK(x, y)
    BY <1>0, <2>1, <2>2, LogOK
  <2>6. StepOK(y, Submit(y, Message(kind, z)))
    BY <2>3, <2>5, SubmitEffect, WritesOK DEF StepOK, Keeps
  <2>7. StepOK(x, Submit(y, Message(kind, z)))
    BY <1>0, <2>5, <2>6, StepTrans
  <2> QED BY <2>4, <2>7, BecomeOK DEF x
<1>2. CASE UserPing(e)
  <2> DEFINE l == [x.log EXCEPT !.pings = @ + 1]
             y == [x EXCEPT !.log.pings = @ + 1]
  <2>1. y = [x EXCEPT !.log = l]
    BY <1>0 DEF Endpoint
  <2>2. l \in LogStates /\ l.closes = x.log.closes
    BY <1>0 DEF LogStates
  <2>3. Ping \in Frames
    BY DEF Ping, Frames, FrameTypes, StatusCodes
  <2>4. Become(e, Submit(y, Ping))
    BY <1>2 DEF UserPing
  <2> HIDE DEF l, y, x
  <2>5. StepOK(x, y)
    BY <1>0, <2>1, <2>2, LogOK
  <2>6. StepOK(y, Submit(y, Ping))
    BY <2>3, <2>5, SubmitEffect, WritesOK DEF StepOK, Keeps
  <2>7. StepOK(x, Submit(y, Ping))
    BY <1>0, <2>5, <2>6, StepTrans
  <2> QED BY <2>4, <2>7, BecomeOK DEF x
<1>3. ASSUME NEW code \in Codes, UserClose(e, code)
      PROVE  Advances
  <2>1. code \in StatusCodes
    BY KindsAndCodes
  <2>2. StepOK(x, Close(x, code))
    BY <1>0, <2>1, CloseEffect, ClosesOK
  <2> QED BY <1>3, <2>2, BecomeOK DEF UserClose
<1>4. CASE UserTerminate(e)
  <2> DEFINE y == [x EXCEPT !.ws.readyState = "CLOSING"]
  <2>1. x.ws.readyState # "CLOSED" /\ Become(e, Destroy(y))
    BY <1>4 DEF UserTerminate
  <2>2. StepOK(x, y)
    BY <1>0, <2>1, ClosingOK
  <2> HIDE DEF y, x
  <2>3. StepOK(y, Destroy(y))
    BY <2>2, DestroyOK DEF StepOK, Keeps
  <2>4. StepOK(x, Destroy(y))
    BY <1>0, <2>2, <2>3, StepTrans
  <2> QED BY <2>1, <2>4, BecomeOK DEF x
<1>5. CASE UserPause(e)
  <2> DEFINE y == [x EXCEPT !.ws.paused = TRUE, !.sock.flowing = FALSE]
             v == [x EXCEPT !.ws.paused = TRUE, !.rcv.needDrain = x.rcv.needDrain,
                            !.sock.flowing = FALSE]
  <2>1. Become(e, y)
    BY <1>5 DEF UserPause
  <2>2. y = v
    BY <1>0 DEF Endpoint, RcvStates
  <2>3. StepOK(x, v)
    BY <1>0, FlowUpdateOK
  <2> HIDE DEF x, y, v
  <2> QED BY <2>1, <2>2, <2>3, BecomeOK DEF x
<1>6. CASE UserResume(e)
  <2> DEFINE f == x.sock.flowing \/ ~x.rcv.needDrain
             y == [x EXCEPT !.ws.paused = FALSE, !.sock.flowing = f]
             v == [x EXCEPT !.ws.paused = FALSE, !.rcv.needDrain = x.rcv.needDrain,
                            !.sock.flowing = f]
  <2>1. Become(e, y)
    BY <1>6 DEF UserResume
  <2>2. y = v
    BY <1>0 DEF Endpoint, RcvStates
  <2>3. f \in BOOLEAN
    OBVIOUS
  <2>4. x.sock.dataListener /\ x.rcv.error = "none" => (f <=> ~FALSE /\ ~x.rcv.needDrain)
    BY <1>0 DEF Local, FlowOK
  <2> HIDE DEF f
  <2>5. StepOK(x, v)
    BY <1>0, <2>3, <2>4, FlowUpdateOK
  <2> HIDE DEF x, y, v
  <2> QED BY <2>1, <2>2, <2>5, BecomeOK DEF x
<1> QED BY <1>1, <1>2, <1>3, <1>4, <1>5, <1>6 DEF User
-----------------------------------------------------------------------------
(* The steps of the receiver. *)
LEMMA ReceiverAdvances ==
    ASSUME Inv, NEW e \in Peers,
           \/ ReceiveFrame(e) \/ InflateDone(e) \/ ReceiverError(e)
           \/ ReceiverDrain(e) \/ ReceiverFinish(e)
    PROVE  Advances
<1> DEFINE x == ep[e]
<1>0. /\ x \in Endpoint /\ Local(x)
      /\ x.ws \in WsStates /\ x.sock \in SockStates /\ x.rcv \in RcvStates
      /\ x.log \in LogStates /\ x.rcv.rbuf \in Seq(Frames)
      /\ x.ws.readyState \in {"OPEN", "CLOSING", "CLOSED"}
      /\ x.rcv.inflating \in {"no", "data", "big"}
      /\ x.ws.paused \in BOOLEAN
  BY DEF Inv, TypeOK, Endpoint, WsStates, RcvStates
<1>1. CASE ReceiveFrame(e)
  BY <1>0, <1>1, ReceiveOK, BecomeOK DEF ReceiveFrame
<1>2. CASE InflateDone(e)
  <2> DEFINE r == [x.rcv EXCEPT !.inflating = "no"]
             y == [x EXCEPT !.rcv.inflating = "no"]
  <2>1. /\ x.rcv.inflating # "no"
        /\ Become(e, IF x.rcv.inflating = "big" THEN Fail(y) ELSE [y EXCEPT !.log.delivered = @ + 1])
    BY <1>2 DEF InflateDone
  <2>2. x.rcv.error = "none"
    BY <1>0, <2>1 DEF Local, Coherent, RcvStates
  <2>3. CASE x.rcv.inflating = "big"
    <3>1. Fail(y) = Fail([x EXCEPT !.rcv.rbuf = x.rcv.rbuf, !.rcv.inflating = "no"])
      BY <1>0 DEF Fail, Endpoint, RcvStates
    <3>2. StepOK(x, Fail(y))
      BY <1>0, <2>1, <2>2, <3>1, FailOK
    <3> HIDE DEF x, y
    <3> QED BY <2>1, <2>3, <3>2, BecomeOK DEF x
  <2>4. CASE x.rcv.inflating # "big"
    <3>1. y = [x EXCEPT !.rcv = r]
      BY <1>0 DEF Endpoint
    <3>2. /\ r \in RcvStates /\ r.error = "none"
          /\ r.ending = x.rcv.ending /\ r.finished = x.rcv.finished
          /\ r.needDrain = x.rcv.needDrain
      BY <1>0, <2>2 DEF RcvStates
    <3> HIDE DEF r, y, x
    <3>3. StepOK(x, y)
      BY <1>0, <2>1, <2>2, <3>1, <3>2, RcvOK
    <3>4. StepOK(y, [y EXCEPT !.log.delivered = @ + 1])
      BY <3>3, DeliverOK DEF StepOK, Keeps
    <3>5. StepOK(x, [y EXCEPT !.log.delivered = @ + 1])
      BY <1>0, <3>3, <3>4, StepTrans
    <3> QED BY <2>1, <2>4, <3>5, BecomeOK DEF x
  <2> QED BY <2>3, <2>4
<1>3. CASE ReceiverError(e)
  BY <1>0, <1>3, OnReceiverErrorOK, BecomeOK DEF ReceiverError
<1>4. CASE ReceiverDrain(e)
  <2> DEFINE f == x.sock.flowing \/ ~x.ws.paused
             y == [x EXCEPT !.rcv.needDrain = FALSE, !.sock.flowing = f]
             v == [x EXCEPT !.ws.paused = x.ws.paused, !.rcv.needDrain = FALSE,
                            !.sock.flowing = f]
  <2>1. Become(e, y)
    BY <1>4 DEF ReceiverDrain
  <2>2. y = v
    BY <1>0 DEF Endpoint, WsStates
  <2>3. f \in BOOLEAN
    OBVIOUS
  <2>4. x.sock.dataListener /\ x.rcv.error = "none" => (f <=> ~x.ws.paused /\ ~FALSE)
    BY <1>0 DEF Local, FlowOK
  <2> HIDE DEF f
  <2>5. StepOK(x, v)
    BY <1>0, <2>3, <2>4, FlowUpdateOK
  <2> HIDE DEF x, y, v
  <2> QED BY <2>1, <2>2, <2>5, BecomeOK DEF x
<1>5. CASE ReceiverFinish(e)
  <2> DEFINE a == [x EXCEPT !.rcv.finished = TRUE]
             y == IF a.sock.phase = "detached" THEN EmitClose(a) ELSE a
  <2>1. Finishable(x) /\ Become(e, y)
    BY <1>5 DEF ReceiverFinish
  <2>2. /\ a.outq = x.outq /\ a.ws = x.ws /\ a.sock = x.sock /\ a.log = x.log
        /\ a.rcv = [x.rcv EXCEPT !.finished = TRUE]
        /\ a = [x EXCEPT !.rcv = a.rcv]
    BY <1>0 DEF Endpoint
  <2> HIDE DEF a, y
  <2>3. /\ a.rcv \in RcvStates /\ a.rcv.finished
        /\ a.rcv.rbuf = x.rcv.rbuf /\ a.rcv.inflating = x.rcv.inflating
        /\ a.rcv.error = x.rcv.error /\ a.rcv.ending = x.rcv.ending
        /\ a.rcv.needDrain = x.rcv.needDrain
    BY <1>0, <2>2 DEF RcvStates
  <2>4. a \in Endpoint
    BY <1>0, <2>2, <2>3 DEF Endpoint
  <2>5. x.ws.readyState # "CLOSED" /\ x.log.closes = 0
    BY <1>0, <2>1 DEF Finishable, Idle, Local, Coherent
  <2>6. CASE x.sock.phase = "detached"
    <3>1. /\ y \in Endpoint /\ y.sock = x.sock /\ y.rcv = a.rcv
          /\ y.ws.readyState = "CLOSED"
          /\ y.ws.closeFrameReceived = x.ws.closeFrameReceived
          /\ y.ws.closeFrameSent = x.ws.closeFrameSent
          /\ y.ws.closeTimer = x.ws.closeTimer /\ y.ws.paused = x.ws.paused
          /\ y.log.closes = 1
      BY <2>2, <2>4, <2>5, <2>6, EmitCloseEffect DEF y
    <3>2. Local(y)
      BY <1>0, <2>1, <2>3, <2>6, <3>1
         DEF Finishable, Idle, Local, Coherent, FlowOK, EndOK, PeerIsDone
    <3>3. Rank[y.ws.readyState] >= Rank[x.ws.readyState]
      BY <1>0, <3>1, RankFacts
    <3>4. StepOK(x, y)
      BY <3>1, <3>2, <3>3 DEF StepOK, Keeps, Gone
    <3> QED BY <2>1, <3>4, BecomeOK
  <2>7. CASE x.sock.phase # "detached"
    <3>1. y = a
      BY <2>2, <2>7 DEF y
    <3>2. Local(a)
      BY <1>0, <2>1, <2>2, <2>3, <2>7
         DEF Finishable, Idle, Local, Coherent, FlowOK, EndOK, PeerIsDone
    <3>3. Rank[a.ws.readyState] >= Rank[x.ws.readyState]
      BY <1>0, <2>2, RankFacts
    <3>4. StepOK(x, a)
      BY <2>2, <2>4, <3>2, <3>3 DEF StepOK, Keeps, Gone
    <3> QED BY <2>1, <3>1, <3>4, BecomeOK
  <2> QED BY <2>6, <2>7
<1> QED BY <1>1, <1>2, <1>3, <1>4, <1>5
-----------------------------------------------------------------------------
(* The steps of the sender and of the socket. *)

(* Both parts of a sequence of frames cut in two. *)
LEMMA SubSeqType ==
    ASSUME NEW s \in Seq(Frames), NEW n \in 1 .. Len(s)
    PROVE  SubSeq(s, 1, n) \in Seq(Frames) /\ SubSeq(s, n + 1, Len(s)) \in Seq(Frames)
<1>1. Len(s) \in Nat /\ n \in Nat
  OBVIOUS
<1>2. \A i \in 1 .. Len(s) : s[i] \in Frames
  OBVIOUS
<1>3. \A i \in 1 .. n : s[i] \in Frames
  BY <1>1, <1>2
<1>4. \A i \in (n + 1) .. Len(s) : s[i] \in Frames
  BY <1>1, <1>2
<1>5. SubSeq(s, 1, n) \in Seq(Frames)
  BY <1>1, <1>3, SubSeqProperties
<1>6. SubSeq(s, n + 1, Len(s)) \in Seq(Frames)
  BY <1>1, <1>4, SubSeqProperties
<1> QED BY <1>5, <1>6

(* The compressor's callback, then dequeue(). *)
LEMMA CompressDoneAdvances ==
    ASSUME Inv, NEW e \in Peers, CompressDone(e)
    PROVE  Advances
<1> DEFINE x == ep[e]
<1>1. PICK n \in 1 .. Len(x.outq) :
         Become(e, Write([x EXCEPT !.outq = SubSeq(@, n + 1, Len(@))], SubSeq(x.outq, 1, n)))
  BY DEF CompressDone
<1> DEFINE y == [x EXCEPT !.outq = SubSeq(@, n + 1, Len(@))]
<1>2. x \in Endpoint /\ Local(x) /\ x.outq \in Seq(Frames)
  BY DEF Inv, TypeOK, Endpoint
<1>3. SubSeq(x.outq, 1, n) \in Seq(Frames) /\ SubSeq(x.outq, n + 1, Len(x.outq)) \in Seq(Frames)
  BY <1>2, SubSeqType
<1>4. y = [x EXCEPT !.outq = SubSeq(x.outq, n + 1, Len(x.outq))]
  OBVIOUS
<1> HIDE DEF x, y
<1>5. StepOK(x, y)
  BY <1>2, <1>3, <1>4, OutqOK
<1>6. StepOK(y, Write(y, SubSeq(x.outq, 1, n)))
  BY <1>3, <1>5, WriteEffect, WritesOK DEF StepOK, Keeps
<1>7. StepOK(x, Write(y, SubSeq(x.outq, 1, n)))
  BY <1>2, <1>5, <1>6, StepTrans
<1> QED BY <1>1, <1>7, BecomeOK DEF x, y

(* The write callback; of a close frame it may end the socket. *)
LEMMA FlushAdvances ==
    ASSUME Inv, NEW e \in Peers, Flush(e)
    PROVE  Advances
<1> DEFINE x == ep[e]
           f == Head(x.sock.wbuf)
           y == [x EXCEPT !.sock.wbuf = Tail(@)]
           z == IF f.t = "close" THEN CloseFrameFlushed(y) ELSE y
<1>1. /\ x.sock.wbuf # <<>>
      /\ chan' = [chan EXCEPT ![e] = Append(@, f)]
      /\ ep' = [ep EXCEPT ![e] = z]
  BY DEF Flush
<1>2. /\ x \in Endpoint /\ Local(x)
      /\ x.sock \in SockStates /\ x.sock.wbuf \in Seq(Frames) /\ x.sock.rdbuf \in Seq(Frames)
      /\ chan \in [Peers -> Seq(Frames)]
  BY DEF Inv, TypeOK, Endpoint, SockStates
<1>3. f \in Frames /\ Tail(x.sock.wbuf) \in Seq(Frames)
  <2> HIDE DEF x
  <2> QED BY <1>1, <1>2
<1>4. y = [x EXCEPT !.sock.wbuf = Tail(x.sock.wbuf), !.sock.rdbuf = x.sock.rdbuf]
  BY <1>2 DEF Endpoint, SockStates
<1>5. ~Gone(x)
  BY <1>1 DEF Gone
<1>6. x.sock.endEmitted => x.sock.rdbuf = <<>>
  BY <1>2 DEF Local, Coherent
<1> HIDE DEF x, y, f
<1>7. StepOK(x, y)
  BY <1>2, <1>3, <1>4, <1>5, <1>6, BuffersOK
<1>8. StepOK(x, z)
  <2>1. StepOK(y, CloseFrameFlushed(y))
    BY <1>7, CloseFrameFlushedOK DEF StepOK, Keeps
  <2>2. StepOK(x, CloseFrameFlushed(y))
    BY <1>2, <1>7, <2>1, StepTrans
  <2> QED BY <1>7, <2>2
<1> HIDE DEF z
<1>9. chan' \in [Peers -> Seq(Frames)]
  BY <1>1, <1>2, <1>3
<1>10. Other(e) \in Peers /\ Other(e) # e
  BY OtherFacts
<1>11. chan'[Other(e)] = chan[Other(e)]
  BY <1>1, <1>2, <1>10
<1>12. z.sock.endEmitted => chan'[Other(e)] = <<>> /\ Gone(ep[Other(e)])
  BY <1>8, <1>11 DEF Inv, StepOK, PeerIsGone, Gone, x
<1>13. Keeps(ep[e], z) /\ ~Gone(ep[e])
  BY <1>5, <1>8 DEF StepOK, x
<1> QED BY <1>1, <1>9, <1>12, <1>13, WireOK

(* Frames arrive, so the peer's end has not been seen. *)
LEMMA ArriveAdvances ==
    ASSUME Inv, NEW e \in Peers, Arrive(e)
    PROVE  Advances
<1> DEFINE x == ep[e]
           o == Other(e)
<1>1. PICK n \in 1 .. Len(chan[o]) :
        /\ chan' = [chan EXCEPT ![o] = SubSeq(chan[o], n + 1, Len(chan[o]))]
        /\ ep' = [ep EXCEPT ![e] =
                     IF x.sock.flowing THEN OnData(x, SubSeq(chan[o], 1, n))
                     ELSE [x EXCEPT !.sock.rdbuf = @ \o SubSeq(chan[o], 1, n)]]
  BY DEF Arrive
<1> DEFINE chunk == SubSeq(chan[o], 1, n)
           rest == SubSeq(chan[o], n + 1, Len(chan[o]))
           a == [x EXCEPT !.sock.rdbuf = @ \o chunk]
           z == IF x.sock.flowing THEN OnData(x, chunk) ELSE a
<1>2. /\ x \in Endpoint /\ Local(x)
      /\ x.sock \in SockStates /\ x.sock.wbuf \in Seq(Frames) /\ x.sock.rdbuf \in Seq(Frames)
      /\ chan \in [Peers -> Seq(Frames)]
  BY DEF Inv, TypeOK, Endpoint, SockStates
<1>3. o \in Peers /\ o # e
  BY OtherFacts
<1>4. chan[o] \in Seq(Frames) /\ chan[o] # <<>>
  BY <1>1, <1>2, <1>3
<1>5. chunk \in Seq(Frames) /\ rest \in Seq(Frames)
  BY <1>1, <1>4, SubSeqType
<1>6. ~x.sock.endEmitted
  BY <1>4 DEF Inv, PeerIsGone
<1>7. a = [x EXCEPT !.sock.wbuf = x.sock.wbuf, !.sock.rdbuf = x.sock.rdbuf \o chunk]
  BY <1>2 DEF Endpoint, SockStates
<1>8. chan' = [chan EXCEPT ![o] = rest] /\ ep' = [ep EXCEPT ![e] = z]
  BY <1>1
<1> HIDE DEF x, a, chunk, rest, o
<1>9. StepOK(x, z)
  <2>1. x.sock.flowing => StepOK(x, OnData(x, chunk))
    BY <1>2, <1>5, <1>6, OnDataOK
  <2>2. x.sock.rdbuf \o chunk \in Seq(Frames)
    BY <1>2, <1>5
  <2>3. Gone(x) => x.sock.wbuf = <<>>
    BY DEF Gone
  <2>4. StepOK(x, a)
    BY <1>2, <1>6, <1>7, <2>2, <2>3, BuffersOK
  <2> QED BY <2>1, <2>4
<1> HIDE DEF z
<1>10. chan' \in [Peers -> Seq(Frames)] /\ chan'[e] = chan[e]
  BY <1>2, <1>3, <1>5, <1>8
<1>11. ~z.sock.endEmitted
  BY <1>6, <1>9 DEF StepOK
<1>12. Keeps(ep[e], z)
  BY <1>9 DEF StepOK, x
<1> QED BY <1>8, <1>10, <1>11, <1>12, WireOK

(* A resumed socket emits what it kept. *)
LEMMA ReadKeptAdvances ==
    ASSUME Inv, NEW e \in Peers, ReadKept(e)
    PROVE  Advances
<1> DEFINE x == ep[e]
<1>1. PICK n \in 1 .. Len(x.sock.rdbuf) :
         Become(e, OnData([x EXCEPT !.sock.rdbuf = SubSeq(@, n + 1, Len(@))],
                          SubSeq(x.sock.rdbuf, 1, n)))
  BY DEF ReadKept
<1> DEFINE chunk == SubSeq(x.sock.rdbuf, 1, n)
           rest == SubSeq(x.sock.rdbuf, n + 1, Len(x.sock.rdbuf))
           a == [x EXCEPT !.sock.rdbuf = SubSeq(@, n + 1, Len(@))]
<1>2. /\ x \in Endpoint /\ Local(x)
      /\ x.sock \in SockStates /\ x.sock.wbuf \in Seq(Frames) /\ x.sock.rdbuf \in Seq(Frames)
  BY DEF Inv, TypeOK, Endpoint, SockStates
<1>3. chunk \in Seq(Frames) /\ rest \in Seq(Frames)
  BY <1>2, SubSeqType
<1>4. x.sock.flowing /\ x.sock.rdbuf # <<>>
  BY DEF ReadKept, Flowable
<1>5. ~x.sock.endEmitted
  BY <1>2, <1>4 DEF Local, Coherent
<1>6. a = [x EXCEPT !.sock.wbuf = x.sock.wbuf, !.sock.rdbuf = rest]
  BY <1>2 DEF Endpoint, SockStates
<1>7. a.sock.flowing
  BY <1>2, <1>4 DEF Endpoint, SockStates
<1> HIDE DEF x, a, chunk, rest
<1>8. StepOK(x, a)
  <2>1. Gone(x) => x.sock.wbuf = <<>>
    BY DEF Gone
  <2> QED BY <1>2, <1>3, <1>5, <1>6, <2>1, BuffersOK
<1>9. StepOK(a, OnData(a, chunk))
  BY <1>3, <1>5, <1>7, <1>8, OnDataOK DEF StepOK, Keeps
<1>10. StepOK(x, OnData(a, chunk))
  BY <1>2, <1>8, <1>9, StepTrans
<1> QED BY <1>1, <1>10, BecomeOK DEF x, a, chunk

(* socketOnEnd(): nothing is kept when the socket flows. *)
LEMMA SocketEndAdvances ==
    ASSUME Inv, NEW e \in Peers, SocketEnd(e)
    PROVE  Advances
<1> DEFINE x == ep[e]
           y == End([x EXCEPT !.sock.endEmitted = TRUE, !.ws.readyState = "CLOSING",
                              !.rcv.ending = TRUE])
<1>1. /\ Become(e, y) /\ PeerIsGone(e)
      /\ ~x.sock.destroyed /\ x.sock.flowing /\ ~Busy(x)
  BY DEF SocketEnd
<1>2. /\ x \in Endpoint /\ Local(x)
      /\ x.ws \in WsStates /\ x.sock \in SockStates /\ x.rcv \in RcvStates
      /\ x.ws.readyState \in {"OPEN", "CLOSING", "CLOSED"}
      /\ x.sock.phase \in {"attached", "closing", "detached"}
  BY DEF Inv, TypeOK, Endpoint, WsStates, SockStates
<1>3. /\ y.outq = x.outq /\ y.log = x.log
      /\ y.ws = [x.ws EXCEPT !.readyState = "CLOSING"]
      /\ y.sock = [x.sock EXCEPT !.endEmitted = TRUE, !.ended = TRUE]
      /\ y.rcv = [x.rcv EXCEPT !.ending = TRUE]
      /\ y = [x EXCEPT !.ws = y.ws, !.sock = y.sock, !.rcv = y.rcv]
  BY <1>2 DEF End, Endpoint, SockStates
<1> HIDE DEF x, y
<1>4. /\ y.ws \in WsStates /\ y.ws.readyState = "CLOSING"
      /\ y.ws.closeFrameReceived = x.ws.closeFrameReceived
      /\ y.ws.closeFrameSent = x.ws.closeFrameSent
      /\ y.ws.paused = x.ws.paused /\ y.ws.closeTimer = x.ws.closeTimer
  BY <1>2, <1>3 DEF WsStates
<1>5. /\ y.sock \in SockStates /\ y.sock.endEmitted /\ y.sock.ended
      /\ y.sock.wbuf = x.sock.wbuf /\ y.sock.rdbuf = x.sock.rdbuf
      /\ y.sock.flowing = x.sock.flowing
      /\ y.sock.dataListener = x.sock.dataListener
      /\ y.sock.phase = x.sock.phase /\ y.sock.destroyed = x.sock.destroyed
  BY <1>2, <1>3 DEF SockStates
<1>6. /\ y.rcv \in RcvStates /\ y.rcv.ending
      /\ y.rcv.rbuf = x.rcv.rbuf /\ y.rcv.inflating = x.rcv.inflating
      /\ y.rcv.error = x.rcv.error /\ y.rcv.finished = x.rcv.finished
      /\ y.rcv.needDrain = x.rcv.needDrain
  BY <1>2, <1>3 DEF RcvStates
<1>7. y \in Endpoint
  BY <1>2, <1>3, <1>4, <1>5, <1>6 DEF Endpoint
<1>8. x.sock.phase = "attached" /\ x.sock.rdbuf = <<>>
  <2>1. x.sock.phase = "attached"
    BY <1>1, <1>2 DEF Local, Coherent
  <2> QED BY <1>1, <2>1 DEF Busy, Ticks, Flowable
<1>9. Local(y)
  <2>1. Coherent(y)
    BY <1>2, <1>3, <1>4, <1>5, <1>6, <1>8 DEF Local, Coherent, Idle
  <2>2. FlowOK(y) /\ EndOK(y)
    BY <1>2, <1>4, <1>5, <1>6 DEF Local, FlowOK, EndOK
  <2> QED BY <2>1, <2>2 DEF Local
<1>10. Rank[y.ws.readyState] >= Rank[x.ws.readyState]
  <2>1. x.ws.readyState # "CLOSED"
    BY <1>2, <1>8 DEF Local, Coherent
  <2> QED BY <1>2, <1>4, <2>1, RankFacts
<1>11. Keeps(ep[e], y)
  BY <1>5, <1>7, <1>9, <1>10 DEF Keeps, Gone, x
<1>12. chan' = chan /\ ep' = [ep EXCEPT ![e] = y] /\ chan \in [Peers -> Seq(Frames)]
  BY <1>1 DEF Become, Inv, TypeOK
<1>13. chan[Other(e)] = <<>> /\ Gone(ep[Other(e)])
  BY <1>1 DEF PeerIsGone, Gone
<1> QED BY <1>11, <1>12, <1>13, WireOK

(* The three ways a socket is destroyed from outside. *)
LEMMA DestroyAdvances ==
    ASSUME Inv, NEW e \in Peers,
           AutoDestroy(e) \/ SocketError(e) \/ CloseTimeout(e)
    PROVE  Advances
<1> DEFINE x == ep[e]
           y == [x EXCEPT !.ws.readyState = "CLOSING"]
<1>1. x \in Endpoint /\ Local(x)
  BY DEF Inv, TypeOK
<1>2. CASE Become(e, Destroy(x))
  BY <1>1, <1>2, DestroyOK, BecomeOK
<1>3. CASE Become(e, Destroy(y)) /\ ~x.sock.destroyed
  <2>1. x.ws.readyState # "CLOSED"
    BY <1>1, <1>3 DEF Local, Coherent
  <2>2. StepOK(x, y)
    BY <1>1, <2>1, ClosingOK
  <2> HIDE DEF y, x
  <2>3. StepOK(y, Destroy(y))
    BY <2>2, DestroyOK DEF StepOK, Keeps
  <2>4. StepOK(x, Destroy(y))
    BY <1>1, <2>2, <2>3, StepTrans
  <2> QED BY <1>3, <2>4, BecomeOK DEF x
<1> QED BY <1>2, <1>3 DEF AutoDestroy, SocketError, CloseTimeout

(* socketOnClose(), first half. *)
LEMMA FinalReadAdvances ==
    ASSUME Inv, NEW e \in Peers, FinalRead(e)
    PROVE  Advances
<1> DEFINE x == ep[e]
           y == [x EXCEPT !.sock.phase = "closing", !.ws.readyState = "CLOSING",
                          !.sock.dataListener = FALSE,
                          !.rcv.rbuf = @ \o x.sock.rdbuf, !.sock.rdbuf = <<>>]
<1>1. /\ Become(e, y)
      /\ x.sock.destroyed /\ x.sock.phase = "attached" /\ ~Busy(x) /\ Unread(x)
  BY DEF FinalRead
<1>2. /\ x \in Endpoint /\ Local(x)
      /\ x.ws \in WsStates /\ x.sock \in SockStates /\ x.rcv \in RcvStates
      /\ x.ws.readyState \in {"OPEN", "CLOSING", "CLOSED"}
      /\ x.rcv.error \in {"none", "pending", "emitted"}
      /\ x.rcv.rbuf \in Seq(Frames) /\ x.sock.rdbuf \in Seq(Frames)
  BY DEF Inv, TypeOK, Endpoint, WsStates, SockStates, RcvStates
<1>3. /\ y.outq = x.outq /\ y.log = x.log
      /\ y.ws = [x.ws EXCEPT !.readyState = "CLOSING"]
      /\ y.sock = [x.sock EXCEPT !.phase = "closing", !.dataListener = FALSE, !.rdbuf = <<>>]
      /\ y.rcv = [x.rcv EXCEPT !.rbuf = @ \o x.sock.rdbuf]
      /\ y = [x EXCEPT !.ws = y.ws, !.sock = y.sock, !.rcv = y.rcv]
  BY <1>2 DEF Endpoint, SockStates
<1>4. x.rcv.rbuf \o x.sock.rdbuf \in Seq(Frames) /\ <<>> \in Seq(Frames)
  BY <1>2
<1> HIDE DEF x, y
<1>5. /\ y.ws \in WsStates /\ y.ws.readyState = "CLOSING"
      /\ y.ws.closeFrameReceived = x.ws.closeFrameReceived
      /\ y.ws.closeFrameSent = x.ws.closeFrameSent
      /\ y.ws.paused = x.ws.paused /\ y.ws.closeTimer = x.ws.closeTimer
  BY <1>2, <1>3 DEF WsStates
<1>6. /\ y.sock \in SockStates /\ y.sock.phase = "closing" /\ ~y.sock.dataListener
      /\ y.sock.rdbuf = <<>> /\ y.sock.wbuf = x.sock.wbuf
      /\ y.sock.ended = x.sock.ended /\ y.sock.endEmitted = x.sock.endEmitted
      /\ y.sock.destroyed = x.sock.destroyed
  BY <1>2, <1>3, <1>4 DEF SockStates
<1>7. /\ y.rcv \in RcvStates
      /\ y.rcv.inflating = x.rcv.inflating /\ y.rcv.ending = x.rcv.ending
      /\ y.rcv.error = x.rcv.error /\ y.rcv.finished = x.rcv.finished
  BY <1>2, <1>3, <1>4 DEF RcvStates
<1>8. y \in Endpoint
  BY <1>2, <1>3, <1>5, <1>6, <1>7 DEF Endpoint
<1>9. /\ x.rcv.error = "none" /\ ~x.rcv.ending /\ ~x.rcv.finished
      /\ x.ws.readyState # "CLOSED"
  <2>1. x.rcv.error = "none"
    BY <1>1, <1>2 DEF Busy, Ticks, Unread
  <2>2. ~x.rcv.ending
    BY <1>1, <1>2 DEF Unread, Local, Coherent
  <2> QED BY <1>1, <1>2, <2>1, <2>2 DEF Local, Coherent
<1>10. Local(y)
  <2>1. Coherent(y)
    BY <1>1, <1>2, <1>3, <1>5, <1>6, <1>7, <1>9 DEF Local, Coherent
  <2>2. FlowOK(y) /\ EndOK(y)
    BY <1>2, <1>5, <1>6, <1>7 DEF Local, FlowOK, EndOK, PeerIsDone
  <2> QED BY <2>1, <2>2 DEF Local
<1>11. Rank[y.ws.readyState] >= Rank[x.ws.readyState]
  BY <1>2, <1>5, <1>9, RankFacts
<1>12. StepOK(x, y)
  BY <1>6, <1>8, <1>10, <1>11 DEF StepOK, Keeps, Gone
<1> QED BY <1>1, <1>12, BecomeOK DEF x

(* Second half. *)
LEMMA SocketCloseAdvances ==
    ASSUME Inv, NEW e \in Peers, SocketClose(e)
    PROVE  Advances
<1> DEFINE x == ep[e]
           a == [x EXCEPT !.sock.phase = "detached", !.ws.readyState = "CLOSING",
                          !.sock.dataListener = FALSE, !.rcv.ending = TRUE,
                          !.ws.closeTimer = FALSE, !.sock.rdbuf = <<>>]
           y == IF a.rcv.finished \/ a.rcv.error = "emitted" THEN EmitClose(a) ELSE a
<1>1. /\ Become(e, y) /\ x.sock.destroyed /\ x.sock.phase # "detached"
  BY DEF SocketClose
<1>2. /\ x \in Endpoint /\ Local(x)
      /\ x.ws \in WsStates /\ x.sock \in SockStates /\ x.rcv \in RcvStates
      /\ x.ws.readyState \in {"OPEN", "CLOSING", "CLOSED"}
      /\ <<>> \in Seq(Frames)
  BY DEF Inv, TypeOK, Endpoint, WsStates
<1>3. /\ a.outq = x.outq /\ a.log = x.log
      /\ a.ws = [x.ws EXCEPT !.readyState = "CLOSING", !.closeTimer = FALSE]
      /\ a.sock = [x.sock EXCEPT !.phase = "detached", !.dataListener = FALSE, !.rdbuf = <<>>]
      /\ a.rcv = [x.rcv EXCEPT !.ending = TRUE]
      /\ a = [x EXCEPT !.ws = a.ws, !.sock = a.sock, !.rcv = a.rcv]
  BY <1>2, ZenonT(60) DEF Endpoint, WsStates, SockStates
<1> HIDE DEF x, a
<1>4. /\ a.ws \in WsStates /\ a.ws.readyState = "CLOSING" /\ ~a.ws.closeTimer
      /\ a.ws.closeFrameReceived = x.ws.closeFrameReceived
      /\ a.ws.closeFrameSent = x.ws.closeFrameSent
      /\ a.ws.paused = x.ws.paused
  BY <1>2, <1>3 DEF WsStates
<1>5. /\ a.sock \in SockStates /\ a.sock.phase = "detached" /\ ~a.sock.dataListener
      /\ a.sock.rdbuf = <<>> /\ a.sock.wbuf = x.sock.wbuf
      /\ a.sock.ended = x.sock.ended /\ a.sock.endEmitted = x.sock.endEmitted
      /\ a.sock.destroyed = x.sock.destroyed
  BY <1>2, <1>3 DEF SockStates
<1>6. /\ a.rcv \in RcvStates /\ a.rcv.ending
      /\ a.rcv.rbuf = x.rcv.rbuf
      /\ a.rcv.inflating = x.rcv.inflating
      /\ a.rcv.error = x.rcv.error /\ a.rcv.finished = x.rcv.finished
  BY <1>2, <1>3 DEF RcvStates
<1>7. a \in Endpoint
  BY <1>2, <1>3, <1>4, <1>5, <1>6 DEF Endpoint
<1>8. x.ws.readyState # "CLOSED" /\ x.log.closes = 0
  BY <1>1, <1>2 DEF Local, Coherent
<1>9. CASE a.rcv.finished \/ a.rcv.error = "emitted"
  <2>1. /\ y \in Endpoint /\ y.sock = a.sock /\ y.rcv = a.rcv
        /\ y.ws.readyState = "CLOSED"
        /\ y.ws.closeFrameReceived = x.ws.closeFrameReceived
        /\ y.ws.closeFrameSent = x.ws.closeFrameSent
        /\ ~y.ws.closeTimer
        /\ y.log.closes = 1
    <3>1. y = EmitClose(a)
      BY <1>9
    <3>2. a.log.closes + 1 = 1
      BY <1>3, <1>8
    <3> HIDE DEF y
    <3> QED BY <1>4, <1>7, <3>1, <3>2, EmitCloseEffect
  <2> HIDE DEF y
  <2>2. Coherent(y)
    BY <1>1, <1>2, <1>5, <1>6, <1>9, <2>1 DEF Local, Coherent, Idle
  <2>3. FlowOK(y) /\ EndOK(y)
    BY <1>2, <1>5, <1>6, <2>1 DEF Local, FlowOK, EndOK, PeerIsDone
  <2>4. Rank[y.ws.readyState] >= Rank[x.ws.readyState]
    BY <1>2, <2>1, RankFacts
  <2>5. StepOK(x, y)
    BY <1>5, <2>1, <2>2, <2>3, <2>4 DEF StepOK, Keeps, Gone, Local
  <2> QED BY <1>1, <2>5, BecomeOK DEF x
<1>10. CASE ~(a.rcv.finished \/ a.rcv.error = "emitted")
  <2>1. y = a
    BY <1>10
  <2>2. Coherent(a)
    BY <1>1, <1>2, <1>3, <1>4, <1>5, <1>6, <1>8, <1>10 DEF Local, Coherent
  <2>3. FlowOK(a) /\ EndOK(a)
    BY <1>2, <1>4, <1>5, <1>6 DEF Local, FlowOK, EndOK, PeerIsDone
  <2>4. Rank[a.ws.readyState] >= Rank[x.ws.readyState]
    BY <1>2, <1>4, <1>8, RankFacts
  <2>5. StepOK(x, a)
    BY <1>5, <1>7, <2>2, <2>3, <2>4 DEF StepOK, Keeps, Gone, Local
  <2> QED BY <1>1, <2>1, <2>5, BecomeOK DEF x
<1> QED BY <1>9, <1>10

-----------------------------------------------------------------------------
(* setSocket() leaves a coherent endpoint. *)
LEMMA InitInv == Init => Inv
<1> SUFFICES ASSUME Init PROVE Inv
  OBVIOUS
<1>1. <<>> \in Seq(Frames)
  OBVIOUS
<1> DEFINE x == Opened
<1>2. x \in Endpoint
  <2>1. x.ws \in WsStates
    BY DEF Opened, WsStates, CloseCodes
  <2>2. x.sock \in SockStates
    BY <1>1 DEF Opened, SockStates
  <2>3. x.rcv \in RcvStates
    BY <1>1 DEF Opened, RcvStates
  <2>4. x.log \in LogStates
    BY DEF Opened, LogStates
  <2>5. /\ x.outq = <<>>
        /\ x = [ws |-> x.ws, outq |-> x.outq, sock |-> x.sock, rcv |-> x.rcv, log |-> x.log]
    BY DEF Opened
  <2> HIDE DEF x
  <2> QED BY <1>1, <2>1, <2>2, <2>3, <2>4, <2>5 DEF Endpoint
<1>3. Local(x) /\ ~x.sock.endEmitted
  BY DEF Opened, Local, Coherent, FlowOK, EndOK, Idle
<1> HIDE DEF x
<1>4. \A e \in Peers : ep[e] = x
  BY DEF Init, x
<1>5. TypeOK
  BY <1>1, <1>2 DEF Init, TypeOK, x
<1> QED BY <1>3, <1>4, <1>5 DEF Inv

(* Every action keeps the invariant and the direction of the states. *)
LEMMA NextAdvances == Inv /\ [Next]_vars => Advances
<1> SUFFICES ASSUME Inv, [Next]_vars PROVE Advances
  OBVIOUS
<1>1. CASE UNCHANGED vars
  <2>1. \A e \in Peers : ep[e].ws.readyState \in {"OPEN", "CLOSING", "CLOSED"}
    BY DEF Inv, TypeOK, Endpoint, WsStates
  <2>2. \A e \in Peers : Rank[ep'[e].ws.readyState] >= Rank[ep[e].ws.readyState]
    BY <1>1, <2>1, RankFacts DEF vars
  <2>3. Inv'
    BY <1>1 DEF Inv, TypeOK, PeerIsGone, vars
  <2> QED BY <2>2, <2>3 DEF Advances
<1>2. ASSUME NEW e \in Peers, User(e) PROVE Advances
  BY <1>2, UserAdvances
<1>3. ASSUME NEW e \in Peers, Runtime(e) PROVE Advances
  BY <1>3, ReceiverAdvances, CompressDoneAdvances, FlushAdvances, ArriveAdvances,
     ReadKeptAdvances, SocketEndAdvances, DestroyAdvances, FinalReadAdvances,
     SocketCloseAdvances DEF Runtime
<1>4. ASSUME NEW e \in Peers, SocketError(e) \/ CloseTimeout(e) PROVE Advances
  BY <1>4, DestroyAdvances
<1> QED BY <1>1, <1>2, <1>3, <1>4 DEF Next

-----------------------------------------------------------------------------
(* Messages among the first n frames of a sequence. *)
IsMessage(f) == f.t \in {"data", "big"}
MessagesIn(s, n) == {i \in 1 .. n : IsMessage(s[i])}
Count(s, n) == Cardinality(MessagesIn(s, n))

IsPrefixOf(s, t) == Len(s) <= Len(t) /\ \A i \in 1 .. Len(s) : s[i] = t[i]

(* Frames the endpoint has still to put on the wire, and those that it may   *)
(* still parse when s is coming to it.                                       *)
Out(x) == IF x.sock.destroyed THEN <<>> ELSE x.sock.wbuf \o x.outq
Due(x, s) == IF x.sock.dataListener THEN x.rcv.rbuf \o (x.sock.rdbuf \o s) ELSE x.rcv.rbuf

(* Messages parsed. *)
Got(x) == x.log.delivered + (IF x.rcv.inflating = "no" THEN 0 ELSE 1)

(* What endpoint x, its peer y and the frames s that come from y agree on:   *)
(* nothing is missing while both listen; a close frame has every message     *)
(* before it; when it is parsed, nothing is left to parse.                   *)
Whole(x, s, y) ==
    x.sock.dataListener /\ ~y.sock.destroyed =>
        Got(x) + Count(Due(x, s), Len(Due(x, s))) = y.log.sent
CloseIsLast(x, s, y) ==
    \A k \in 1 .. Len(Due(x, s)) : Due(x, s)[k].t = "close" =>
        y.ws.readyState # "OPEN" /\ Got(x) + Count(Due(x, s), k - 1) = y.log.sent
Concluded(x, y) ==
    /\ x.rcv.rbuf = <<>> /\ x.rcv.inflating = "no"
    /\ y.ws.readyState # "OPEN" /\ x.log.delivered = y.log.sent
Clean(x, s, y) ==
    /\ x.ws.closeFrameReceived => Concluded(x, y)
    /\ ~x.ws.closeFrameReceived /\ x.rcv.error = "none" => Whole(x, s, y) /\ CloseIsLast(x, s, y)

Coming(e) == chan[Other(e)] \o Out(ep[Other(e)])

(* A destroyed socket sends nothing; the socket is listened to until it has  *)
(* closed, a close frame came or the receiver failed.                        *)
Tidy(x) ==
    /\ x.sock.destroyed => x.sock.wbuf = <<>>
    /\ x.sock.phase = "attached" /\ ~x.ws.closeFrameReceived /\ x.rcv.error # "emitted" =>
          x.sock.dataListener

CleanInv == \A e \in Peers : Tidy(ep[e]) /\ Clean(ep[e], Coming(e), ep[Other(e)])

-----------------------------------------------------------------------------
(* Counting. *)
LEMMA CountType ==
  ASSUME NEW s, NEW n \in Nat
  PROVE  IsFiniteSet(MessagesIn(s, n)) /\ Count(s, n) \in Nat
<1>1. MessagesIn(s, n) \in SUBSET (1 .. n)
  BY DEF MessagesIn
<1>2. IsFiniteSet(1 .. n)
  BY FS_Interval
<1>3. IsFiniteSet(MessagesIn(s, n))
  BY <1>1, <1>2, FS_Subset
<1> QED BY <1>3, FS_CardinalityType DEF Count

(* No frames, no messages. *)
LEMMA CountNone ==
  ASSUME NEW s
  PROVE  Count(s, 0) = 0
<1>1. MessagesIn(s, 0) = {}
  BY DEF MessagesIn
<1> QED BY <1>1, FS_EmptySet DEF Count

(* The count of n frames looks at those frames only. *)
LEMMA CountSame ==
  ASSUME NEW s, NEW t, NEW n \in Nat, \A i \in 1 .. n : s[i] = t[i]
  PROVE  Count(s, n) = Count(t, n)
<1>1. MessagesIn(s, n) = MessagesIn(t, n)
  BY DEF MessagesIn
<1> QED BY <1>1 DEF Count

(* One frame more at the end. *)
LEMMA CountNext ==
  ASSUME NEW s, NEW n \in Nat
  PROVE  Count(s, n + 1) = Count(s, n) + (IF IsMessage(s[n + 1]) THEN 1 ELSE 0)
<1>1. CASE IsMessage(s[n + 1])
  <2>1. MessagesIn(s, n + 1) = MessagesIn(s, n) \cup {n + 1}
    BY <1>1 DEF MessagesIn
  <2>2. n + 1 \notin MessagesIn(s, n)
    BY DEF MessagesIn
  <2> QED BY <1>1, <2>1, <2>2, CountType, FS_AddElement DEF Count
<1>2. CASE ~IsMessage(s[n + 1])
  <2>1. MessagesIn(s, n + 1) = MessagesIn(s, n)
    BY <1>2 DEF MessagesIn
  <2>2. Count(s, n) \in Nat
    BY CountType
  <2> QED BY <1>2, <2>1, <2>2 DEF Count
<1> QED BY <1>1, <1>2

(* One frame less at the front. *)
LEMMA CountTail ==
  ASSUME NEW s \in Seq(Frames), s # <<>>, NEW n \in Nat, n <= Len(Tail(s))
  PROVE  Count(s, n + 1) = Count(Tail(s), n) + (IF IsMessage(Head(s)) THEN 1 ELSE 0)
<1> DEFINE A == MessagesIn(Tail(s), n)
           B == {i \in 2 .. n + 1 : IsMessage(s[i])}
           f == [i \in A |-> i + 1]
<1>1. /\ \A i \in 1 .. n : Tail(s)[i] = s[i + 1]
      /\ Head(s) = s[1]
  BY HeadTailProperties
<1>2. f \in Bijection(A, B)
  <2>1. f \in [A -> B]
    BY <1>1 DEF MessagesIn
  <2>2. \A i, j \in A : f[i] = f[j] => i = j
    BY DEF MessagesIn
  <2>3. \A j \in B : \E i \in A : f[i] = j
    <3> SUFFICES ASSUME NEW j \in B PROVE \E i \in A : f[i] = j
      OBVIOUS
    <3>1. j - 1 \in 1 .. n /\ (j - 1) + 1 = j /\ IsMessage(s[j])
      OBVIOUS
    <3>2. j - 1 \in A
      BY <1>1, <3>1 DEF MessagesIn
    <3>3. f[j - 1] = j
      BY <3>1, <3>2
    <3> QED BY <3>2, <3>3
  <2> HIDE DEF A, B, f
  <2> QED BY <2>1, <2>2, <2>3 DEF Bijection, Injection, Surjection, IsInjective
<1>3. IsFiniteSet(A) /\ Cardinality(A) \in Nat
  BY CountType DEF Count
<1>4. IsFiniteSet(B) /\ Cardinality(B) = Cardinality(A)
  BY <1>2, <1>3, FS_Bijection DEF ExistsBijection
<1>5. CASE IsMessage(Head(s))
  <2>1. MessagesIn(s, n + 1) = B \cup {1}
    BY <1>1, <1>5 DEF MessagesIn
  <2>2. 1 \notin B
    OBVIOUS
  <2> HIDE DEF A, B
  <2> QED BY <1>3, <1>4, <1>5, <2>1, <2>2, FS_AddElement DEF Count, A
<1>6. CASE ~IsMessage(Head(s))
  <2>1. MessagesIn(s, n + 1) = B
    BY <1>1, <1>6 DEF MessagesIn
  <2> HIDE DEF B
  <2> QED BY <1>3, <1>4, <1>6, <2>1 DEF Count, A
<1> QED BY <1>5, <1>6

-----------------------------------------------------------------------------
(* What a step from x to z means for the peer: c and d are the frames of x  *)
(* on the wire before and after it.  A frame goes behind those already on   *)
(* their way, counted if it is a message; all of them may be lost with the  *)
(* socket; nothing else happens to them.                                    *)
Gives(x, c, z, d) ==
    /\ x.ws.readyState # "OPEN" => z.ws.readyState # "OPEN" /\ z.log.sent = x.log.sent
    /\ \/ z.sock.destroyed /\ d = c
       \/ /\ ~x.sock.destroyed
          /\ \/ d \o Out(z) = c \o Out(x) /\ z.log.sent = x.log.sent
             \/ \E f \in Frames :
                   /\ d \o Out(z) = Append(c \o Out(x), f)
                   /\ f.t = "close" => z.ws.readyState # "OPEN"
                   /\ z.log.sent = x.log.sent + (IF IsMessage(f) THEN 1 ELSE 0)

(* What a step from x to z means for what x receives: s and t are the       *)
(* frames on their way to it.  The receiver has failed, or had concluded,   *)
(* or what is left to parse is kept, or dropped from its end with the       *)
(* socket, or loses its first frame, which may conclude the receiver.       *)
Takes(x, s, z, t) ==
    \/ ~z.ws.closeFrameReceived /\ z.rcv.error # "none"
    \/ /\ x.ws.closeFrameReceived /\ z.ws.closeFrameReceived
       /\ z.rcv.rbuf = <<>> /\ z.rcv.inflating = "no"
       /\ z.log.delivered = x.log.delivered
    \/ /\ ~x.ws.closeFrameReceived /\ ~z.ws.closeFrameReceived /\ x.rcv.error = "none"
       /\ z.sock.dataListener => x.sock.dataListener
       /\ \/ /\ Got(z) = Got(x)
             /\ IsPrefixOf(Due(z, t), Due(x, s))
             /\ z.sock.dataListener => Due(z, t) = Due(x, s)
          \/ /\ Due(x, s) # <<>>
             /\ Due(z, t) = Tail(Due(x, s))
             /\ Head(Due(x, s)).t # "close"
             /\ Got(z) = Got(x) + (IF IsMessage(Head(Due(x, s))) THEN 1 ELSE 0)
    \/ /\ ~x.ws.closeFrameReceived /\ x.rcv.error = "none"
       /\ z.ws.closeFrameReceived
       /\ Due(x, s) # <<>> /\ Head(Due(x, s)).t = "close"
       /\ z.rcv.rbuf = <<>> /\ x.rcv.inflating = "no" /\ z.rcv.inflating = "no"
       /\ z.log.delivered = x.log.delivered

-----------------------------------------------------------------------------
(* The types that the arguments below use. *)
LEMMA GotType ==
  ASSUME NEW x \in Endpoint
  PROVE  Got(x) \in Nat /\ x.log.delivered \in Nat /\ x.log.sent \in Nat
BY DEF Got, Endpoint, LogStates

(* Buffers, and what is due, are sequences of frames. *)
LEMMA DueType ==
  ASSUME NEW x \in Endpoint, NEW s \in Seq(Frames)
  PROVE  /\ Due(x, s) \in Seq(Frames)
         /\ x.rcv.rbuf \in Seq(Frames) /\ x.sock.rdbuf \in Seq(Frames)
<1>1. x.rcv.rbuf \in Seq(Frames) /\ x.sock.rdbuf \in Seq(Frames)
  BY DEF Endpoint, RcvStates, SockStates
<1> QED BY <1>1, ConcatProperties DEF Due

(* So is what the endpoint has still to send. *)
LEMMA OutType ==
  ASSUME NEW x \in Endpoint
  PROVE  /\ Out(x) \in Seq(Frames)
         /\ x.sock.wbuf \in Seq(Frames) /\ x.outq \in Seq(Frames)
<1>1. x.sock.wbuf \in Seq(Frames) /\ x.outq \in Seq(Frames)
  BY DEF Endpoint, SockStates
<1> QED BY <1>1, ConcatProperties DEF Out

(* A prefix stays one behind the same frames. *)
LEMMA PrefixConcat ==
  ASSUME NEW r \in Seq(Frames), NEW u \in Seq(Frames), NEW v \in Seq(Frames),
         IsPrefixOf(u, v)
  PROVE  IsPrefixOf(r \o u, r \o v)
<1>1. /\ Len(u) \in Nat /\ Len(v) \in Nat /\ Len(r) \in Nat
      /\ Len(u) <= Len(v) /\ \A i \in 1 .. Len(u) : u[i] = v[i]
  BY LenProperties DEF IsPrefixOf
<1>2. /\ Len(r \o u) = Len(r) + Len(u)
      /\ \A i \in 1 .. Len(r) + Len(u) :
            (r \o u)[i] = IF i <= Len(r) THEN r[i] ELSE u[i - Len(r)]
  BY ConcatProperties
<1>3. /\ Len(r \o v) = Len(r) + Len(v)
      /\ \A i \in 1 .. Len(r) + Len(v) :
            (r \o v)[i] = IF i <= Len(r) THEN r[i] ELSE v[i - Len(r)]
  BY ConcatProperties
<1>4. ASSUME NEW i \in 1 .. Len(r) + Len(u) PROVE (r \o u)[i] = (r \o v)[i]
  <2>1. i \in 1 .. Len(r) + Len(v)
    BY <1>1
  <2>2. i > Len(r) => i - Len(r) \in 1 .. Len(u)
    BY <1>1
  <2> QED BY <1>1, <1>2, <1>3, <2>1, <2>2
<1> QED BY <1>1, <1>2, <1>3, <1>4 DEF IsPrefixOf

(* A sequence is a prefix of itself with frames behind it. *)
LEMMA PrefixOfConcat ==
  ASSUME NEW u \in Seq(Frames), NEW v \in Seq(Frames)
  PROVE  IsPrefixOf(u, u \o v)
BY ConcatProperties, LenProperties DEF IsPrefixOf

(* And of itself. *)
LEMMA PrefixSelf ==
  ASSUME NEW u \in Seq(Frames)
  PROVE  IsPrefixOf(u, u)
BY LenProperties DEF IsPrefixOf

(* A prefix holds the same messages as far as it goes. *)
LEMMA PrefixCount ==
  ASSUME NEW u \in Seq(Frames), NEW v \in Seq(Frames), IsPrefixOf(u, v),
         NEW k \in Nat, k <= Len(u)
  PROVE  Count(u, k) = Count(v, k)
<1>1. Len(u) \in Nat
  BY LenProperties
<1>2. \A i \in 1 .. k : u[i] = v[i]
  BY <1>1 DEF IsPrefixOf
<1> QED BY <1>2, CountSame

(* What is due grows and shrinks at its end with what is coming. *)
LEMMA DuePrefix ==
  ASSUME NEW w \in Endpoint, NEW s \in Seq(Frames), NEW t \in Seq(Frames), IsPrefixOf(t, s)
  PROVE  IsPrefixOf(Due(w, t), Due(w, s))
<1>1. w.rcv.rbuf \in Seq(Frames) /\ w.sock.rdbuf \in Seq(Frames)
  BY DueType
<1>2. CASE w.sock.dataListener
  <2>1. IsPrefixOf(w.sock.rdbuf \o t, w.sock.rdbuf \o s)
    BY <1>1, PrefixConcat
  <2>2. w.sock.rdbuf \o t \in Seq(Frames) /\ w.sock.rdbuf \o s \in Seq(Frames)
    BY <1>1, ConcatProperties
  <2>3. IsPrefixOf(w.rcv.rbuf \o (w.sock.rdbuf \o t), w.rcv.rbuf \o (w.sock.rdbuf \o s))
    BY <1>1, <2>1, <2>2, PrefixConcat
  <2> QED BY <1>2, <2>3 DEF Due
<1>3. CASE ~w.sock.dataListener
  BY <1>1, <1>3, PrefixSelf DEF Due
<1> QED BY <1>2, <1>3

(* A frame behind those that are coming is due last. *)
LEMMA DueAppend ==
  ASSUME NEW w \in Endpoint, NEW s \in Seq(Frames), NEW f \in Frames, w.sock.dataListener
  PROVE  Due(w, Append(s, f)) = Append(Due(w, s), f)
<1> DEFINE r == w.rcv.rbuf
           k == w.sock.rdbuf
<1>1. r \in Seq(Frames) /\ k \in Seq(Frames) /\ <<f>> \in Seq(Frames)
  BY DueType
<1> HIDE DEF r, k
<1>2. Append(s, f) = s \o <<f>>
  BY AppendIsConcat
<1>3. k \o (s \o <<f>>) = (k \o s) \o <<f>> /\ k \o s \in Seq(Frames)
  BY <1>1, ConcatAssociative, ConcatProperties
<1>4. r \o ((k \o s) \o <<f>>) = (r \o (k \o s)) \o <<f>> /\ r \o (k \o s) \in Seq(Frames)
  BY SMTT(30), <1>1, <1>3, ConcatAssociative, ConcatProperties
<1>5. (r \o (k \o s)) \o <<f>> = Append(r \o (k \o s), f)
  BY <1>4, AppendIsConcat
<1> QED BY <1>2, <1>3, <1>4, <1>5 DEF Due, r, k

-----------------------------------------------------------------------------
(* The peer of an endpoint that takes such a step receives as cleanly. *)
LEMMA GiveClean ==
  ASSUME NEW w \in Endpoint, NEW x \in Endpoint, NEW z \in Endpoint,
         NEW c \in Seq(Frames), NEW d \in Seq(Frames),
         Clean(w, c \o Out(x), x), Gives(x, c, z, d)
  PROVE  Clean(w, d \o Out(z), z)
<1> DEFINE s == c \o Out(x)
           t == d \o Out(z)
           D == Due(w, s)
           E == Due(w, t)
<1>1. /\ s \in Seq(Frames) /\ t \in Seq(Frames)
      /\ c = d /\ z.sock.destroyed => t = c
  BY OutType, ConcatProperties, ConcatEmptySeq DEF Out
<1>2. /\ D \in Seq(Frames) /\ E \in Seq(Frames)
      /\ Len(D) \in Nat /\ Len(E) \in Nat
      /\ Got(w) \in Nat /\ x.log.sent \in Nat /\ z.log.sent \in Nat
      /\ w.log.delivered \in Nat
  BY <1>1, DueType, GotType, LenProperties
<1>3. w.ws.closeFrameReceived => Concluded(w, z)
  BY DEF Clean, Concluded, Gives
<1>4. ASSUME ~w.ws.closeFrameReceived, w.rcv.error = "none"
      PROVE  Whole(w, t, z) /\ CloseIsLast(w, t, z)
  <2>1. Whole(w, s, x) /\ CloseIsLast(w, s, x)
    BY <1>4 DEF Clean
  <2>2. (* A frame due before and after is as it was. *)
        ASSUME NEW k \in 1 .. Len(E), k <= Len(D), E[k].t = "close", D[k] = E[k],
               Count(E, k - 1) = Count(D, k - 1)
        PROVE  z.ws.readyState # "OPEN" /\ Got(w) + Count(E, k - 1) = z.log.sent
    <3>1. k \in 1 .. Len(D) /\ D[k].t = "close"
      BY <1>2, <2>2
    <3>2. x.ws.readyState # "OPEN" /\ Got(w) + Count(D, k - 1) = x.log.sent
      BY <2>1, <3>1 DEF CloseIsLast
    <3> QED BY <2>2, <3>2 DEF Gives
  <2>3. CASE z.sock.destroyed /\ d = c
    <3>1. IsPrefixOf(E, D)
      BY <1>1, <2>3, OutType, PrefixOfConcat, DuePrefix
    <3>2. ASSUME NEW k \in 1 .. Len(E), E[k].t = "close"
          PROVE  z.ws.readyState # "OPEN" /\ Got(w) + Count(E, k - 1) = z.log.sent
      <4>1. k <= Len(D) /\ D[k] = E[k]
        BY <1>2, <3>1 DEF IsPrefixOf
      <4>2. k - 1 \in Nat /\ k - 1 <= Len(E)
        BY <1>2
      <4>3. Count(E, k - 1) = Count(D, k - 1)
        BY <1>2, <3>1, <4>2, PrefixCount
      <4> QED BY <2>2, <3>2, <4>1, <4>3
    <3>3. Whole(w, t, z)
      BY <2>3 DEF Whole
    <3> QED BY <3>2, <3>3 DEF CloseIsLast
  <2>4. CASE ~x.sock.destroyed /\ t = s /\ z.log.sent = x.log.sent
    <3>1. E = D
      BY <2>4
    <3>2. CloseIsLast(w, t, z)
      BY <1>2, <2>2, <3>1 DEF CloseIsLast
    <3>3. Whole(w, t, z)
      BY <2>1, <2>4 DEF Whole
    <3> QED BY <3>2, <3>3
  <2>5. ASSUME NEW f \in Frames, ~x.sock.destroyed, t = Append(s, f),
               f.t = "close" => z.ws.readyState # "OPEN",
               z.log.sent = x.log.sent + (IF IsMessage(f) THEN 1 ELSE 0)
        PROVE  Whole(w, t, z) /\ CloseIsLast(w, t, z)
    <3>1. CASE ~w.sock.dataListener
      <4>1. E = D
        BY <3>1 DEF Due
      <4>2. CloseIsLast(w, t, z)
        BY <1>2, <2>2, <4>1 DEF CloseIsLast
      <4> QED BY <3>1, <4>2 DEF Whole
    <3>2. CASE w.sock.dataListener
      <4>1. E = Append(D, f)
        <5>1. t = Append(s, f) /\ s \in Seq(Frames)
          BY <1>1, <2>5
        <5> HIDE DEF s, t
        <5> QED BY <3>2, <5>1, DueAppend
      <4> HIDE DEF D, E, s, t
      <4>2. /\ Len(E) = Len(D) + 1 /\ E[Len(D) + 1] = f
            /\ \A i \in 1 .. Len(D) : E[i] = D[i]
        BY <1>2, <4>1, AppendProperties
      <4>3. \A n \in Nat : n <= Len(D) => Count(E, n) = Count(D, n)
        BY <1>2, <4>2, CountSame
      <4>4. Got(w) + Count(D, Len(D)) = x.log.sent
        BY <2>1, <2>5, <3>2 DEF Whole, D
      <4>5. Count(D, Len(D)) \in Nat
        BY <1>2, CountType
      <4>6. Got(w) + Count(E, Len(E)) = z.log.sent
        <5>1. Count(E, Len(D) + 1) = Count(E, Len(D)) + (IF IsMessage(f) THEN 1 ELSE 0)
          BY <1>2, <4>2, CountNext
        <5>2. Count(E, Len(D)) = Count(D, Len(D))
          BY <1>2, <4>3
        <5> QED BY <1>2, <2>5, <4>2, <4>4, <4>5, <5>1, <5>2
      <4>7. ASSUME NEW k \in 1 .. Len(E), E[k].t = "close"
            PROVE  z.ws.readyState # "OPEN" /\ Got(w) + Count(E, k - 1) = z.log.sent
        <5>1. CASE k = Len(D) + 1
          <6>1. f.t = "close"
            BY <4>2, <4>7, <5>1
          <6>2. ~IsMessage(f)
            BY <6>1 DEF IsMessage
          <6>3. Count(E, k - 1) = Count(D, Len(D))
            BY <1>2, <4>3, <5>1
          <6> QED BY <1>2, <2>5, <4>4, <6>1, <6>2, <6>3
        <5>2. CASE k # Len(D) + 1
          <6>1. k <= Len(D) /\ k - 1 \in Nat /\ k - 1 <= Len(D) /\ D[k] = E[k]
            BY <1>2, <4>2, <5>2
          <6>2. Count(E, k - 1) = Count(D, k - 1)
            BY <4>3, <6>1
          <6> QED BY <2>2, <4>7, <6>1, <6>2
        <5> QED BY <5>1, <5>2
      <4>8. Whole(w, t, z)
        BY <4>6 DEF Whole, E
      <4>9. CloseIsLast(w, t, z)
        BY <4>7 DEF CloseIsLast, E
      <4> QED BY <4>8, <4>9
    <3> QED BY <3>1, <3>2
  <2> QED BY <2>3, <2>4, <2>5 DEF Gives
<1> QED BY <1>3, <1>4 DEF Clean

(* And so does the endpoint itself. *)
LEMMA TakeClean ==
  ASSUME NEW x \in Endpoint, NEW z \in Endpoint, NEW y \in Endpoint,
         NEW s \in Seq(Frames), NEW t \in Seq(Frames),
         Clean(x, s, y), Takes(x, s, z, t)
  PROVE  Clean(z, t, y)
<1> DEFINE D == Due(x, s)
           E == Due(z, t)
<1>1. /\ D \in Seq(Frames) /\ E \in Seq(Frames)
      /\ Len(D) \in Nat /\ Len(E) \in Nat
      /\ Got(x) \in Nat /\ Got(z) \in Nat /\ y.log.sent \in Nat
      /\ x.log.delivered \in Nat
  BY DueType, GotType, LenProperties
<1>2. CASE ~z.ws.closeFrameReceived /\ z.rcv.error # "none"
  BY <1>2 DEF Clean
<1>3. CASE /\ x.ws.closeFrameReceived /\ z.ws.closeFrameReceived
           /\ z.rcv.rbuf = <<>> /\ z.rcv.inflating = "no"
           /\ z.log.delivered = x.log.delivered
  BY <1>3 DEF Clean, Concluded
<1>4. CASE /\ ~x.ws.closeFrameReceived /\ ~z.ws.closeFrameReceived /\ x.rcv.error = "none"
           /\ z.sock.dataListener => x.sock.dataListener
           /\ Got(z) = Got(x)
           /\ IsPrefixOf(E, D)
           /\ z.sock.dataListener => E = D
  <2>1. Whole(x, s, y) /\ CloseIsLast(x, s, y)
    BY <1>4 DEF Clean
  <2>2. Whole(z, t, y)
    BY <1>4, <2>1 DEF Whole
  <2>3. ASSUME NEW k \in 1 .. Len(E), E[k].t = "close"
        PROVE  y.ws.readyState # "OPEN" /\ Got(z) + Count(E, k - 1) = y.log.sent
    <3>1. k \in 1 .. Len(D) /\ D[k] = E[k]
      BY <1>1, <1>4 DEF IsPrefixOf
    <3>2. y.ws.readyState # "OPEN" /\ Got(x) + Count(D, k - 1) = y.log.sent
      BY <2>1, <2>3, <3>1 DEF CloseIsLast
    <3>3. k - 1 \in Nat /\ k - 1 <= Len(E)
      BY <1>1
    <3>4. Count(E, k - 1) = Count(D, k - 1)
      BY <1>1, <1>4, <3>3, PrefixCount
    <3> QED BY <1>4, <3>2, <3>4
  <2> QED BY <1>4, <2>2, <2>3 DEF Clean, CloseIsLast
<1>5. CASE /\ ~x.ws.closeFrameReceived /\ ~z.ws.closeFrameReceived /\ x.rcv.error = "none"
           /\ z.sock.dataListener => x.sock.dataListener
           /\ D # <<>>
           /\ E = Tail(D)
           /\ Head(D).t # "close"
           /\ Got(z) = Got(x) + (IF IsMessage(Head(D)) THEN 1 ELSE 0)
  <2>1. Whole(x, s, y) /\ CloseIsLast(x, s, y)
    BY <1>5 DEF Clean
  <2>2. /\ Len(D) = Len(E) + 1
        /\ \A i \in 1 .. Len(E) : E[i] = D[i + 1]
    BY <1>1, <1>5, HeadTailProperties
  <2>3. (* The first frame is counted on the other side. *)
        ASSUME NEW n \in Nat, n <= Len(E)
        PROVE  Got(z) + Count(E, n) = Got(x) + Count(D, n + 1)
    <3>1. Count(D, n + 1) = Count(E, n) + (IF IsMessage(Head(D)) THEN 1 ELSE 0)
      BY <1>1, <1>5, <2>3, CountTail
    <3>2. Count(E, n) \in Nat
      BY CountType
    <3> HIDE DEF D, E
    <3> QED BY <1>1, <1>5, <3>1, <3>2
  <2>4. Whole(z, t, y)
    <3>1. Got(z) + Count(E, Len(E)) = Got(x) + Count(D, Len(D))
      BY <1>1, <2>2, <2>3
    <3> QED BY <1>5, <2>1, <3>1 DEF Whole
  <2>5. ASSUME NEW k \in 1 .. Len(E), E[k].t = "close"
        PROVE  y.ws.readyState # "OPEN" /\ Got(z) + Count(E, k - 1) = y.log.sent
    <3>1. k + 1 \in 1 .. Len(D) /\ D[k + 1].t = "close"
      BY <1>1, <2>2, <2>5
    <3>2. y.ws.readyState # "OPEN" /\ Got(x) + Count(D, (k + 1) - 1) = y.log.sent
      BY <2>1, <3>1 DEF CloseIsLast
    <3>3. k - 1 \in Nat /\ k - 1 <= Len(E) /\ (k - 1) + 1 = (k + 1) - 1
      BY <1>1
    <3>4. Got(z) + Count(E, k - 1) = Got(x) + Count(D, (k - 1) + 1)
      BY <2>3, <3>3
    <3> QED BY <3>2, <3>3, <3>4
  <2> QED BY <1>5, <2>4, <2>5 DEF Clean, CloseIsLast
<1>6. CASE /\ ~x.ws.closeFrameReceived /\ x.rcv.error = "none"
           /\ z.ws.closeFrameReceived
           /\ D # <<>> /\ Head(D).t = "close"
           /\ z.rcv.rbuf = <<>> /\ x.rcv.inflating = "no" /\ z.rcv.inflating = "no"
           /\ z.log.delivered = x.log.delivered
  <2>1. CloseIsLast(x, s, y)
    BY <1>6 DEF Clean
  <2>2. 1 \in 1 .. Len(D) /\ D[1] = Head(D)
    BY <1>1, <1>6, EmptySeq
  <2>3. y.ws.readyState # "OPEN" /\ Got(x) + Count(D, 1 - 1) = y.log.sent
    BY <1>6, <2>1, <2>2 DEF CloseIsLast
  <2>4. Count(D, 1 - 1) = 0
    <3>1. 1 - 1 = 0
      OBVIOUS
    <3> QED BY <3>1, CountNone
  <2>5. x.log.delivered = y.log.sent
    BY <1>1, <1>6, <2>3, <2>4 DEF Got
  <2> QED BY <1>6, <2>3, <2>5 DEF Clean, Concluded
<1> QED BY <1>2, <1>3, <1>4, <1>5, <1>6 DEF Takes

-----------------------------------------------------------------------------
(* What is known of an endpoint before a step; a receiver that has concluded *)
(* holds nothing.                                                           *)
Ready(x) ==
    /\ x \in Endpoint /\ Local(x) /\ Tidy(x)
    /\ x.ws.closeFrameReceived => x.rcv.rbuf = <<>> /\ x.rcv.inflating = "no"

(* What a step of an endpoint that leaves the wire alone has to do. *)
Serves(x, z) ==
    /\ z \in Endpoint /\ Tidy(z)
    /\ \A s \in Seq(Frames) : Takes(x, s, z, s)
    /\ \A c \in Seq(Frames) : Gives(x, c, z, c)

(* What the invariants say of the two endpoints before a step of one. *)
LEMMA CleanFacts ==
  ASSUME Inv, CleanInv, NEW e \in Peers
  PROVE  /\ Ready(ep[e]) /\ Clean(ep[e], Coming(e), ep[Other(e)])
         /\ Other(e) \in Peers /\ Other(e) # e /\ Other(Other(e)) = e
         /\ Peers = {e, Other(e)}
         /\ chan \in [Peers -> Seq(Frames)] /\ ep \in [Peers -> Endpoint]
         /\ Coming(e) \in Seq(Frames)
<1>1. /\ Other(e) \in Peers /\ Other(e) # e /\ Other(Other(e)) = e
      /\ Peers = {e, Other(e)}
  BY OtherFacts
<1>2. /\ chan \in [Peers -> Seq(Frames)] /\ ep \in [Peers -> Endpoint]
      /\ Local(ep[e])
  BY DEF Inv, TypeOK
<1>3. Coming(e) \in Seq(Frames)
  BY <1>1, <1>2, OutType, ConcatProperties DEF Coming
<1>4. Tidy(ep[e]) /\ Clean(ep[e], Coming(e), ep[Other(e)])
  BY DEF CleanInv
<1>5. Ready(ep[e])
  BY <1>2, <1>4 DEF Ready, Clean, Concluded
<1> QED BY <1>1, <1>2, <1>3, <1>4, <1>5

(* A step of one endpoint: both receive as cleanly as before. *)
LEMMA CleanStep ==
  ASSUME Inv, CleanInv, NEW e \in Peers, NEW z \in Endpoint,
         ep' = [ep EXCEPT ![e] = z], chan' \in [Peers -> Seq(Frames)],
         Tidy(z),
         Takes(ep[e], Coming(e), z, chan'[Other(e)] \o Out(ep[Other(e)])),
         Gives(ep[e], chan[e], z, chan'[e])
  PROVE  CleanInv'
<1> DEFINE o == Other(e)
<1>1. /\ o \in Peers /\ o # e /\ Other(o) = e /\ Peers = {e, o}
      /\ ep[e] \in Endpoint /\ ep[o] \in Endpoint
      /\ chan \in [Peers -> Seq(Frames)] /\ ep \in [Peers -> Endpoint]
      /\ Coming(e) \in Seq(Frames)
      /\ Clean(ep[e], Coming(e), ep[o])
  BY CleanFacts
<1>2. Clean(ep[o], chan[e] \o Out(ep[e]), ep[e]) /\ Tidy(ep[o])
  BY <1>1 DEF CleanInv, Coming
<1>3. /\ chan[e] \in Seq(Frames) /\ chan'[e] \in Seq(Frames) /\ chan'[o] \in Seq(Frames)
      /\ chan'[o] \o Out(ep[o]) \in Seq(Frames)
  BY <1>1, OutType, ConcatProperties
<1>4. Clean(z, chan'[o] \o Out(ep[o]), ep[o])
  <2> DEFINE s == Coming(e)
             t == chan'[o] \o Out(ep[o])
             x == ep[e]
             y == ep[o]
  <2>1. /\ x \in Endpoint /\ y \in Endpoint /\ s \in Seq(Frames) /\ t \in Seq(Frames)
        /\ Clean(x, s, y) /\ Takes(x, s, z, t)
    BY <1>1, <1>3
  <2> HIDE DEF s, t, x, y
  <2>2. Clean(z, t, y)
    BY <2>1, TakeClean
  <2> QED BY <2>2 DEF t, y
<1>5. Clean(ep[o], chan'[e] \o Out(z), z)
  BY <1>1, <1>2, <1>3, GiveClean
<1>6. ep'[e] = z /\ ep'[o] = ep[o]
  BY <1>1
<1>7. Tidy(ep'[e]) /\ Clean(ep'[e], Coming(e)', ep'[Other(e)])
  BY <1>4, <1>6 DEF Coming
<1>8. Tidy(ep'[o]) /\ Clean(ep'[o], Coming(o)', ep'[Other(o)])
  BY <1>1, <1>2, <1>5, <1>6 DEF Coming
<1>9. \A p \in Peers : Tidy(ep'[p]) /\ Clean(ep'[p], Coming(p)', ep'[Other(p)])
  BY <1>1, <1>7, <1>8
<1> QED BY <1>9 DEF CleanInv

(* A step that leaves the wire alone keeps the connection clean. *)
LEMMA CleanBecome ==
  ASSUME Inv, CleanInv, NEW e \in Peers, NEW z, Serves(ep[e], z), Become(e, z)
  PROVE  CleanInv'
<1>1. /\ z \in Endpoint /\ Tidy(z)
      /\ ep' = [ep EXCEPT ![e] = z] /\ chan' = chan
      /\ chan' \in [Peers -> Seq(Frames)]
      /\ chan[e] \in Seq(Frames) /\ Coming(e) \in Seq(Frames)
  BY CleanFacts DEF Serves, Become
<1>2. Takes(ep[e], Coming(e), z, Coming(e)) /\ Gives(ep[e], chan[e], z, chan[e])
  BY <1>1 DEF Serves
<1>3. Coming(e) = chan'[Other(e)] \o Out(ep[Other(e)])
  BY <1>1 DEF Coming
<1> QED BY <1>1, <1>2, <1>3, CleanStep

-----------------------------------------------------------------------------
(* Steps that leave alone what has been received. *)
SameIn(x, z) ==
    /\ z.rcv.rbuf = x.rcv.rbuf /\ z.rcv.inflating = x.rcv.inflating
    /\ z.rcv.error = x.rcv.error
    /\ z.log.delivered = x.log.delivered
    /\ z.ws.closeFrameReceived = x.ws.closeFrameReceived
    /\ z.sock.rdbuf = x.sock.rdbuf /\ z.sock.dataListener = x.sock.dataListener

(* Seen from the receiver, such a step is no step. *)
LEMMA SameTakes ==
  ASSUME NEW x, Ready(x), NEW z \in Endpoint, SameIn(x, z), NEW s \in Seq(Frames)
  PROVE  Takes(x, s, z, s)
<1>1. Due(z, s) = Due(x, s) /\ Got(z) = Got(x)
  BY DEF SameIn, Due, Got
<1>2. IsPrefixOf(Due(x, s), Due(x, s))
  BY DueType, PrefixSelf DEF Ready
<1>3. x.ws.closeFrameReceived \in BOOLEAN
  BY DEF Ready, Endpoint, WsStates
<1> QED BY <1>1, <1>2, <1>3 DEF Takes, SameIn, Ready

(* What has been given to the sender: kept, or lost with the socket; or one *)
(* frame more.                                                              *)
KeepsOut(x, z) == z.sock.destroyed \/ (~x.sock.destroyed /\ Out(z) = Out(x))
PutsOut(x, z, f) == z.sock.destroyed \/ (~x.sock.destroyed /\ Out(z) = Append(Out(x), f))

(* A destroyed socket sends nothing. *)
Calm(x) == x.sock.destroyed => x.sock.wbuf = <<>>

StaysClosing(x, z) == x.ws.readyState # "OPEN" => z.ws.readyState # "OPEN"

(* Frames kept or lost, and no message sent: nothing new for the peer. *)
LEMMA KeepsGives ==
  ASSUME NEW x, NEW z, KeepsOut(x, z), StaysClosing(x, z), z.log.sent = x.log.sent,
         NEW c \in Seq(Frames)
  PROVE  Gives(x, c, z, c)
BY DEF KeepsOut, StaysClosing, Gives

(* One frame given to the sender goes behind the others. *)
LEMMA PutsGives ==
  ASSUME NEW x \in Endpoint, NEW z, NEW f \in Frames, PutsOut(x, z, f), StaysClosing(x, z),
         z.log.sent = x.log.sent + (IF IsMessage(f) THEN 1 ELSE 0),
         IsMessage(f) => x.ws.readyState = "OPEN",
         f.t = "close" => z.ws.readyState # "OPEN",
         NEW c \in Seq(Frames)
  PROVE  Gives(x, c, z, c)
<1>1. Out(x) \in Seq(Frames) /\ c \o Out(x) \in Seq(Frames) /\ <<f>> \in Seq(Frames)
  BY OutType, ConcatProperties
<1>2. c \o Append(Out(x), f) = Append(c \o Out(x), f)
  <2>1. c \o (Out(x) \o <<f>>) = (c \o Out(x)) \o <<f>>
    BY <1>1, ConcatAssociative
  <2> QED BY <1>1, <2>1, AppendIsConcat
<1>3. x.ws.readyState # "OPEN" => z.ws.readyState # "OPEN" /\ z.log.sent = x.log.sent
  BY GotType DEF StaysClosing
<1> QED BY <1>2, <1>3 DEF PutsOut, Gives

(* socket.write(). *)
LEMMA WriteOut ==
  ASSUME NEW x \in Endpoint, NEW fs \in Seq(Frames)
  PROVE  LET y == Write(x, fs) IN
         /\ Calm(x) => Calm(y)
         /\ \/ y.sock.destroyed
            \/ ~x.sock.destroyed /\ y.sock.wbuf = x.sock.wbuf \o fs /\ y.outq = x.outq
<1> DEFINE y == Write(x, fs)
<1>0. x.sock \in SockStates
  BY DEF Endpoint
<1>1. CASE x.sock.destroyed
  BY <1>1 DEF Write
<1>2. CASE ~x.sock.destroyed /\ x.sock.ended
  <2>1. y.sock = [x.sock EXCEPT !.destroyed = TRUE, !.wbuf = <<>>]
    BY <1>2 DEF Write, Destroy, Endpoint
  <2> HIDE DEF y
  <2>2. y.sock.destroyed /\ y.sock.wbuf = <<>>
    BY <1>0, <2>1 DEF SockStates
  <2> QED BY <2>2 DEF Calm, y
<1>3. CASE ~x.sock.destroyed /\ ~x.sock.ended
  <2>1. y.outq = x.outq /\ y.sock = [x.sock EXCEPT !.wbuf = @ \o fs]
    BY <1>3 DEF Write, Endpoint
  <2> HIDE DEF y
  <2>2. y.sock.wbuf = x.sock.wbuf \o fs /\ ~y.sock.destroyed
    BY <1>0, <1>3, <2>1 DEF SockStates
  <2> QED BY <1>3, <2>1, <2>2 DEF Calm, y
<1> QED BY <1>1, <1>2, <1>3

(* A frame given to the sender goes behind the others. *)
LEMMA SubmitOut ==
  ASSUME NEW x \in Endpoint, NEW f \in Frames
  PROVE  LET y == Submit(x, f) IN (Calm(x) => Calm(y)) /\ PutsOut(x, y, f)
<1> DEFINE y == Submit(x, f)
<1>0. x.sock.wbuf \in Seq(Frames) /\ x.outq \in Seq(Frames) /\ <<f>> \in Seq(Frames)
  BY OutType
<1>1. CASE x.outq # <<>> \/ f.z
  <2>1. y.sock = x.sock /\ y.outq = Append(x.outq, f)
    BY <1>1 DEF Submit, Endpoint
  <2> HIDE DEF y
  <2>2. x.sock.wbuf \o Append(x.outq, f) = Append(x.sock.wbuf \o x.outq, f)
    <3>1. x.sock.wbuf \o (x.outq \o <<f>>) = (x.sock.wbuf \o x.outq) \o <<f>>
      <4> DEFINE u == x.sock.wbuf
                 v == x.outq
                 w == <<f>>
      <4> HIDE DEF u, v, w
      <4>1. u \in Seq(Frames) /\ v \in Seq(Frames) /\ w \in Seq(Frames)
        BY <1>0 DEF u, v, w
      <4>2. u \o (v \o w) = (u \o v) \o w
        BY <4>1, ConcatAssociative
      <4> QED BY <4>2 DEF u, v, w
    <3>2. x.sock.wbuf \o x.outq \in Seq(Frames)
      BY <1>0, ConcatProperties
    <3> QED BY <1>0, <3>1, <3>2, AppendIsConcat
  <2> QED BY <2>1, <2>2 DEF PutsOut, Out, Calm, y
<1>2. CASE ~(x.outq # <<>> \/ f.z)
  <2>1. y = Write(x, <<f>>) /\ x.outq = <<>>
    BY <1>2 DEF Submit
  <2>2. /\ Calm(x) => Calm(y)
        /\ \/ y.sock.destroyed
           \/ ~x.sock.destroyed /\ y.sock.wbuf = x.sock.wbuf \o <<f>> /\ y.outq = x.outq
    BY <1>0, <2>1, WriteOut
  <2> HIDE DEF y
  <2>3. /\ (x.sock.wbuf \o <<f>>) \o <<>> = x.sock.wbuf \o <<f>>
        /\ x.sock.wbuf \o <<>> = x.sock.wbuf
        /\ x.sock.wbuf \o <<f>> = Append(x.sock.wbuf, f)
    BY <1>0, ConcatProperties, ConcatEmptySeq, AppendIsConcat
  <2> QED BY <2>1, <2>2, <2>3 DEF PutsOut, Out, y
<1> QED BY <1>1, <1>2

(* close() gives at most its frame to the sender. *)
LEMMA CloseOut ==
  ASSUME NEW x \in Endpoint, NEW code \in StatusCodes
  PROVE  LET y == Close(x, code) IN
         /\ Calm(x) => Calm(y)
         /\ KeepsOut(x, y) \/ PutsOut(x, y, CloseFrame(code))
<1> DEFINE y == Close(x, code)
<1>0. x.ws.readyState \in {"OPEN", "CLOSING", "CLOSED"} /\ x.sock \in SockStates
  BY DEF Endpoint, WsStates
<1>1. CASE x.ws.readyState # "OPEN"
  <2>1. y = x \/ y = End(x)
    BY <1>0, <1>1 DEF Close
  <2>2. CASE y = x
    BY <2>2 DEF KeepsOut
  <2>3. CASE y = End(x)
    <3>1. y.outq = x.outq /\ y.sock = [x.sock EXCEPT !.ended = TRUE]
      BY <2>3 DEF End, Endpoint
    <3> HIDE DEF y
    <3>2. y.sock.wbuf = x.sock.wbuf /\ y.sock.destroyed = x.sock.destroyed
      BY <1>0, <3>1 DEF SockStates
    <3> QED BY <3>1, <3>2 DEF KeepsOut, Out, Calm, y
  <2> QED BY <2>1, <2>2, <2>3
<1>2. CASE x.ws.readyState = "OPEN"
  <2> DEFINE a == [x EXCEPT !.ws.readyState = "CLOSING"]
             b == Submit(a, CloseFrame(code))
  <2>1. /\ a.outq = x.outq /\ a.sock = x.sock
        /\ a.ws = [x.ws EXCEPT !.readyState = "CLOSING"]
        /\ a = [x EXCEPT !.ws = a.ws] /\ x.ws \in WsStates
    BY DEF Endpoint
  <2> HIDE DEF a
  <2>2. a.ws \in WsStates
    BY <2>1 DEF WsStates
  <2>3. a \in Endpoint
    BY <2>1, <2>2 DEF Endpoint
  <2>4. CloseFrame(code) \in Frames
    BY DEF CloseFrame, Frames, FrameTypes
  <2>5. (Calm(a) => Calm(b)) /\ PutsOut(a, b, CloseFrame(code)) /\ b \in Endpoint
    BY <2>3, <2>4, SubmitOut, SubmitEffect DEF Writes, Sends
  <2>6. y = [b EXCEPT !.ws.closeTimer = TRUE]
    BY <1>2 DEF Close, a
  <2> HIDE DEF b, y
  <2>7. y.outq = b.outq /\ y.sock = b.sock
    BY <2>5, <2>6 DEF Endpoint
  <2> QED BY <2>1, <2>5, <2>7 DEF PutsOut, Out, Calm, y
<1> QED BY <1>1, <1>2

-----------------------------------------------------------------------------
(* Steps that leave alone what has been received: nothing is given, or one  *)
(* frame.                                                                   *)
LEMMA SameTidy ==
  ASSUME NEW x, Ready(x), NEW z, SameIn(x, z), z.sock.phase = x.sock.phase, Calm(z)
  PROVE  Tidy(z)
BY DEF Ready, SameIn, Tidy, Calm

(* What is known of an endpoint before a step, unfolded. *)
LEMMA ReadyCalm ==
  ASSUME NEW x, Ready(x)
  PROVE  x \in Endpoint /\ Local(x) /\ Calm(x)
BY DEF Ready, Tidy, Calm

(* A step that neither receives nor sends a frame keeps the promise. *)
LEMMA KeepServes ==
  ASSUME NEW x, Ready(x), NEW z \in Endpoint, SameIn(x, z), z.sock.phase = x.sock.phase,
         Calm(z), KeepsOut(x, z), StaysClosing(x, z), z.log.sent = x.log.sent
  PROVE  Serves(x, z)
<1>1. Tidy(z)
  BY SameTidy
<1>2. \A s \in Seq(Frames) : Takes(x, s, z, s)
  BY SameTakes
<1>3. \A c \in Seq(Frames) : Gives(x, c, z, c)
  BY KeepsGives
<1> QED BY <1>1, <1>2, <1>3 DEF Serves

(* So does one that gives a frame to the sender and receives none. *)
LEMMA PutServes ==
  ASSUME NEW x, Ready(x), NEW z \in Endpoint, SameIn(x, z), z.sock.phase = x.sock.phase,
         NEW f \in Frames, Calm(z), PutsOut(x, z, f), StaysClosing(x, z),
         z.log.sent = x.log.sent + (IF IsMessage(f) THEN 1 ELSE 0),
         IsMessage(f) => x.ws.readyState = "OPEN",
         f.t = "close" => z.ws.readyState # "OPEN"
  PROVE  Serves(x, z)
<1>1. Tidy(z)
  BY SameTidy
<1>2. \A s \in Seq(Frames) : Takes(x, s, z, s)
  BY SameTakes
<1>3. \A c \in Seq(Frames) : Gives(x, c, z, c)
  BY PutsGives, ReadyCalm
<1> QED BY <1>1, <1>2, <1>3 DEF Serves

(* What is known of the endpoint after its step. *)
LEMMA AfterFacts ==
  ASSUME Inv, Advances, NEW e \in Peers, NEW z, ep' = [ep EXCEPT ![e] = z]
  PROVE  z \in Endpoint /\ Local(z) /\ StaysClosing(ep[e], z)
<1>1. /\ ep'[e] = z /\ ep'[e] \in Endpoint /\ Local(ep'[e])
      /\ Rank[ep'[e].ws.readyState] >= Rank[ep[e].ws.readyState]
      /\ ep[e].ws.readyState \in {"OPEN", "CLOSING", "CLOSED"}
  BY DEF Advances, Inv, TypeOK, Endpoint, WsStates
<1>2. /\ Rank["OPEN"] = 0
      /\ \A s \in {"OPEN", "CLOSING", "CLOSED"} : s # "OPEN" => Rank[s] \in {1, 2}
  BY DEF Rank
<1>3. ep[e].ws.readyState # "OPEN" => ~(Rank["OPEN"] >= Rank[ep[e].ws.readyState])
  BY <1>1, <1>2
<1> QED BY <1>1, <1>3 DEF StaysClosing

(* A frame that is neither a message nor counted as one. *)
LEMMA ControlFrames ==
  /\ Ping \in Frames /\ ~IsMessage(Ping) /\ Ping.t # "close"
  /\ Pong \in Frames /\ ~IsMessage(Pong) /\ Pong.t # "close"
  /\ \A code \in StatusCodes : /\ CloseFrame(code) \in Frames /\ ~IsMessage(CloseFrame(code))
                               /\ CloseFrame(code).t = "close"
BY DEF Ping, Pong, CloseFrame, Frames, FrameTypes, StatusCodes, IsMessage

(* close() of the program, or of a handler that has changed nothing else. *)
LEMMA CloseServes ==
  ASSUME NEW x, Ready(x), NEW code \in StatusCodes
  PROVE  Serves(x, Close(x, code))
<1> DEFINE z == Close(x, code)
<1>1. x \in Endpoint /\ Local(x) /\ Calm(x) /\ x.log.sent \in Nat
  BY ReadyCalm, GotType
<1>2. Closes(x, z)
  BY <1>1, CloseEffect
<1>3. Calm(z) /\ (KeepsOut(x, z) \/ PutsOut(x, z, CloseFrame(code)))
  BY <1>1, CloseOut
<1>4. CloseFrame(code) \in Frames /\ ~IsMessage(CloseFrame(code))
  BY ControlFrames
<1> HIDE DEF z
<1>5. /\ z \in Endpoint /\ SameIn(x, z) /\ z.sock.phase = x.sock.phase
      /\ z.ws.readyState # "OPEN" /\ StaysClosing(x, z) /\ z.log.sent = x.log.sent
  BY <1>2 DEF Closes, Sends, SameIn, StaysClosing
<1>6. CASE KeepsOut(x, z)
  BY <1>3, <1>5, <1>6, KeepServes DEF z
<1>7. CASE PutsOut(x, z, CloseFrame(code))
  <2>1. z.log.sent = x.log.sent + 0
    BY <1>1, <1>5
  <2> QED BY <1>3, <1>4, <1>5, <1>7, <2>1, PutServes DEF z
<1> QED BY <1>3, <1>6, <1>7 DEF z

(* destroy() of the socket of an endpoint that may have started closing. *)
LEMMA DestroyServes ==
  ASSUME NEW x, Ready(x), NEW y \in Endpoint, y = x \/ y = [x EXCEPT !.ws.readyState = "CLOSING"],
         Destroy(y) \in Endpoint, StaysClosing(x, Destroy(y))
  PROVE  Serves(x, Destroy(y))
<1> DEFINE z == Destroy(y)
<1>1. /\ x \in Endpoint /\ x.ws \in WsStates /\ y.sock \in SockStates
      /\ y.sock = x.sock /\ y.rcv = x.rcv /\ y.log = x.log
  BY ReadyCalm DEF Endpoint
<1>2. y.ws.closeFrameReceived = x.ws.closeFrameReceived
  <2>1. y.ws = x.ws \/ y.ws = [x.ws EXCEPT !.readyState = "CLOSING"]
    BY <1>1 DEF Endpoint
  <2> QED BY <1>1, <2>1 DEF WsStates
<1>3. /\ z.ws = y.ws /\ z.rcv = y.rcv /\ z.log = y.log
      /\ z.sock = [y.sock EXCEPT !.destroyed = TRUE, !.wbuf = <<>>]
  BY DEF Destroy, Endpoint
<1> HIDE DEF z
<1>4. /\ z.sock.destroyed /\ z.sock.wbuf = <<>> /\ z.sock.rdbuf = y.sock.rdbuf
      /\ z.sock.dataListener = y.sock.dataListener /\ z.sock.phase = y.sock.phase
  BY <1>1, <1>3 DEF SockStates
<1>5. SameIn(x, z)
  BY <1>1, <1>2, <1>3, <1>4 DEF SameIn
<1>6. Calm(z) /\ KeepsOut(x, z)
  BY <1>4 DEF Calm, KeepsOut
<1> QED BY <1>1, <1>3, <1>4, <1>5, <1>6, KeepServes DEF z

(* The program and the receiver pause and resume the socket. *)
LEMMA FlowServes ==
  ASSUME NEW x, Ready(x), NEW p, NEW n, NEW f,
         LET z == [x EXCEPT !.ws.paused = p, !.rcv.needDrain = n, !.sock.flowing = f]
         IN z \in Endpoint /\ StaysClosing(x, z)
  PROVE  Serves(x, [x EXCEPT !.ws.paused = p, !.rcv.needDrain = n, !.sock.flowing = f])
<1> DEFINE z == [x EXCEPT !.ws.paused = p, !.rcv.needDrain = n, !.sock.flowing = f]
<1>1. /\ x \in Endpoint /\ x.ws \in WsStates /\ x.sock \in SockStates /\ x.rcv \in RcvStates
      /\ Calm(x)
  BY ReadyCalm DEF Endpoint
<1>2. /\ z.outq = x.outq /\ z.log = x.log
      /\ z.ws = [x.ws EXCEPT !.paused = p]
      /\ z.rcv = [x.rcv EXCEPT !.needDrain = n]
      /\ z.sock = [x.sock EXCEPT !.flowing = f]
      /\ z \in Endpoint /\ StaysClosing(x, z)
  BY <1>1 DEF Endpoint
<1> HIDE DEF z
<1>3. z.ws.closeFrameReceived = x.ws.closeFrameReceived
  BY <1>1, <1>2 DEF WsStates
<1>4. /\ z.rcv.rbuf = x.rcv.rbuf /\ z.rcv.inflating = x.rcv.inflating
      /\ z.rcv.error = x.rcv.error
  BY <1>1, <1>2 DEF RcvStates
<1>5. /\ z.sock.wbuf = x.sock.wbuf /\ z.sock.destroyed = x.sock.destroyed
      /\ z.sock.rdbuf = x.sock.rdbuf /\ z.sock.dataListener = x.sock.dataListener
      /\ z.sock.phase = x.sock.phase
  BY <1>1, <1>2 DEF SockStates
<1>6. SameIn(x, z)
  BY <1>2, <1>3, <1>4, <1>5 DEF SameIn
<1>7. Calm(z) /\ KeepsOut(x, z)
  BY <1>1, <1>2, <1>5 DEF Calm, KeepsOut, Out
<1> QED BY <1>2, <1>5, <1>6, <1>7, KeepServes DEF z

(* A frame given to the sender by a call that has only counted it. *)
LEMMA SubmitServes ==
  ASSUME NEW x, Ready(x), NEW y \in Endpoint,
         y.ws = x.ws /\ y.outq = x.outq /\ y.sock = x.sock /\ y.rcv = x.rcv,
         y.log.delivered = x.log.delivered,
         NEW f \in Frames, f.t # "close",
         IsMessage(f) => x.ws.readyState = "OPEN",
         y.log.sent = x.log.sent + (IF IsMessage(f) THEN 1 ELSE 0)
  PROVE  Serves(x, Submit(y, f))
<1> DEFINE z == Submit(y, f)
<1>1. x \in Endpoint /\ Calm(x)
  BY ReadyCalm
<1>2. Calm(y) /\ Out(y) = Out(x) /\ (y.sock.destroyed <=> x.sock.destroyed)
  BY <1>1 DEF Calm, Out
<1>3. Writes(y, z)
  BY SubmitEffect
<1>4. Calm(z) /\ PutsOut(y, z, f)
  BY <1>2, SubmitOut
<1> HIDE DEF z
<1>5. PutsOut(x, z, f)
  BY <1>2, <1>4 DEF PutsOut
<1>6. /\ z \in Endpoint /\ SameIn(x, z) /\ z.sock.phase = x.sock.phase
      /\ StaysClosing(x, z) /\ z.log.sent = y.log.sent
  BY <1>3 DEF Writes, Sends, SameIn, StaysClosing
<1> QED BY <1>4, <1>5, <1>6, PutServes DEF z

(* The calls of the program. *)
LEMMA UserClean ==
  ASSUME Inv, CleanInv, Advances, NEW e \in Peers, User(e)
  PROVE  CleanInv'
<1> DEFINE x == ep[e]
<1>0. /\ Ready(x) /\ x \in Endpoint /\ Local(x)
      /\ x.log \in LogStates /\ x.ws \in WsStates
      /\ x.rcv.needDrain \in BOOLEAN /\ x.sock.flowing \in BOOLEAN
  BY CleanFacts DEF Inv, TypeOK, Endpoint, WsStates, RcvStates, SockStates
<1>1. ASSUME NEW kind \in Kinds, NEW b \in {FALSE, Deflate}, UserSend(e, kind, b)
      PROVE  CleanInv'
  <2> DEFINE l == [x.log EXCEPT !.sent = @ + 1]
             y == [x EXCEPT !.log.sent = @ + 1]
             m == Message(kind, b)
  <2>1. /\ y.ws = x.ws /\ y.outq = x.outq /\ y.sock = x.sock /\ y.rcv = x.rcv /\ y.log = l
        /\ y = [x EXCEPT !.log = l]
    BY <1>0 DEF Endpoint
  <2>2. /\ l \in LogStates /\ l.delivered = x.log.delivered
        /\ l.sent = x.log.sent + 1
    BY <1>0 DEF LogStates
  <2>3. m \in Frames /\ IsMessage(m) /\ m.t # "close"
    <3>1. b \in BOOLEAN
      BY DeflateType
    <3>2. kind \in FrameTypes
      BY KindsAndCodes
    <3>3. kind \in {"data", "big"}
      <4>1. Kinds \subseteq {"data", "big"}
        BY WebSocketAssumption
      <4> QED BY <4>1
    <3> QED BY <3>1, <3>2, <3>3 DEF Message, Frames, StatusCodes, IsMessage
  <2>4. Become(e, Submit(y, m)) /\ x.ws.readyState = "OPEN"
    BY <1>1 DEF UserSend
  <2> HIDE DEF l, y, x, m
  <2>5. y \in Endpoint
    BY <1>0, <2>1, <2>2 DEF Endpoint
  <2>6. Serves(x, Submit(y, m))
    BY <1>0, <2>1, <2>2, <2>3, <2>4, <2>5, SubmitServes
  <2> QED BY <2>4, <2>6, CleanBecome DEF x
<1>2. CASE UserPing(e)
  <2> DEFINE l == [x.log EXCEPT !.pings = @ + 1]
             y == [x EXCEPT !.log.pings = @ + 1]
  <2>1. /\ y.ws = x.ws /\ y.outq = x.outq /\ y.sock = x.sock /\ y.rcv = x.rcv /\ y.log = l
        /\ y = [x EXCEPT !.log = l]
    BY <1>0 DEF Endpoint
  <2>2. /\ l \in LogStates /\ l.delivered = x.log.delivered
        /\ l.sent = x.log.sent + 0
    BY <1>0 DEF LogStates
  <2>3. Become(e, Submit(y, Ping))
    BY <1>2 DEF UserPing
  <2> HIDE DEF l, y, x
  <2>4. y \in Endpoint
    BY <1>0, <2>1, <2>2 DEF Endpoint
  <2>5. Serves(x, Submit(y, Ping))
    BY <1>0, <2>1, <2>2, <2>4, ControlFrames, SubmitServes
  <2> QED BY <2>3, <2>5, CleanBecome DEF x
<1>3. ASSUME NEW code \in Codes, UserClose(e, code)
      PROVE  CleanInv'
  <2>1. code \in StatusCodes
    BY KindsAndCodes
  <2>2. Serves(x, Close(x, code))
    BY <1>0, <2>1, CloseServes
  <2> QED BY <1>3, <2>2, CleanBecome DEF UserClose
<1>4. CASE UserTerminate(e)
  <2> DEFINE y == [x EXCEPT !.ws.readyState = "CLOSING"]
  <2>1. x.ws.readyState # "CLOSED" /\ Become(e, Destroy(y))
    BY <1>4 DEF UserTerminate
  <2>2. StepOK(x, y)
    BY <1>0, <2>1, ClosingOK
  <2>3. y \in Endpoint
    BY <2>2 DEF StepOK, Keeps
  <2>4. Destroy(y) \in Endpoint /\ StaysClosing(x, Destroy(y))
    BY <2>1, AfterFacts DEF Become
  <2>5. Serves(x, Destroy(y))
    BY <1>0, <2>3, <2>4, DestroyServes
  <2> QED BY <2>1, <2>5, CleanBecome
<1>5. ASSUME NEW p, NEW f, Become(e, [x EXCEPT !.ws.paused = p, !.sock.flowing = f])
      PROVE  CleanInv'
  <2> DEFINE y == [x EXCEPT !.ws.paused = p, !.sock.flowing = f]
             v == [x EXCEPT !.ws.paused = p, !.rcv.needDrain = x.rcv.needDrain,
                            !.sock.flowing = f]
  <2>1. y = v
    BY <1>0 DEF Endpoint, RcvStates
  <2>2. Become(e, v)
    BY <1>5, <2>1
  <2>3. v \in Endpoint /\ StaysClosing(x, v)
    BY <2>2, AfterFacts DEF Become
  <2>4. Serves(x, v)
    BY <1>0, <2>3, FlowServes
  <2> QED BY <2>2, <2>4, CleanBecome
<1>6. CASE UserPause(e) \/ UserResume(e)
  BY <1>5, <1>6 DEF UserPause, UserResume
<1> QED BY <1>1, <1>2, <1>3, <1>4, <1>6 DEF User

-----------------------------------------------------------------------------
(* The steps of the receiver. *)

(* The head and the tail of two sequences put together. *)
LEMMA TailConcat ==
  ASSUME NEW u \in Seq(Frames), u # <<>>, NEW v \in Seq(Frames)
  PROVE  u \o v # <<>> /\ Head(u \o v) = Head(u) /\ Tail(u \o v) = Tail(u) \o v
<1>1. /\ u \o v \in Seq(Frames) /\ Len(u \o v) = Len(u) + Len(v)
      /\ \A i \in 1 .. Len(u) + Len(v) :
            (u \o v)[i] = IF i <= Len(u) THEN u[i] ELSE v[i - Len(u)]
      /\ Len(u) \in Nat /\ Len(u) > 0 /\ Len(v) \in Nat
  BY ConcatProperties, LenProperties, EmptySeq
<1>2. u \o v # <<>>
  BY <1>1, EmptySeq
<1>3. /\ Tail(u) \in Seq(Frames) /\ Len(Tail(u)) = Len(u) - 1
      /\ \A i \in 1 .. Len(u) - 1 : Tail(u)[i] = u[i + 1]
  BY HeadTailProperties
<1>4. /\ Tail(u \o v) \in Seq(Frames) /\ Len(Tail(u \o v)) = Len(u) + Len(v) - 1
      /\ \A i \in 1 .. Len(u) + Len(v) - 1 : Tail(u \o v)[i] = (u \o v)[i + 1]
  BY <1>1, <1>2, HeadTailProperties
<1>5. /\ Tail(u) \o v \in Seq(Frames) /\ Len(Tail(u) \o v) = Len(u) + Len(v) - 1
      /\ \A i \in 1 .. Len(u) - 1 + Len(v) :
            (Tail(u) \o v)[i] = IF i <= Len(u) - 1 THEN Tail(u)[i] ELSE v[i - (Len(u) - 1)]
  BY <1>1, <1>3, ConcatProperties
<1>6. ASSUME NEW i \in 1 .. Len(u) + Len(v) - 1
      PROVE  Tail(u \o v)[i] = (Tail(u) \o v)[i]
  <2>1. Tail(u \o v)[i] = IF i + 1 <= Len(u) THEN u[i + 1] ELSE v[i + 1 - Len(u)]
    BY <1>1, <1>4
  <2>2. (Tail(u) \o v)[i] = IF i <= Len(u) - 1 THEN u[i + 1] ELSE v[i - (Len(u) - 1)]
    BY <1>1, <1>3, <1>5
  <2>3. (i + 1 <= Len(u) <=> i <= Len(u) - 1) /\ i + 1 - Len(u) = i - (Len(u) - 1)
    BY <1>1
  <2> QED BY <2>1, <2>2, <2>3
<1>7. Tail(u \o v) = Tail(u) \o v
  BY <1>4, <1>5, <1>6, SeqEqual
<1>8. Head(u \o v) = Head(u)
  BY <1>1
<1> QED BY <1>2, <1>7, <1>8

(* One frame parsed: the first of what is due. *)
Pops(x, z) ==
    /\ z.rcv.rbuf = Tail(x.rcv.rbuf) /\ z.rcv.error = "none"
    /\ z.ws.closeFrameReceived = x.ws.closeFrameReceived
    /\ z.sock.rdbuf = x.sock.rdbuf /\ z.sock.dataListener = x.sock.dataListener
    /\ z.sock.phase = x.sock.phase
    /\ Got(z) = Got(x) + (IF IsMessage(Head(x.rcv.rbuf)) THEN 1 ELSE 0)

(* What is due begins with the receiver's buffer. *)
LEMMA DueHead ==
  ASSUME NEW x \in Endpoint, x.rcv.rbuf # <<>>, NEW s \in Seq(Frames)
  PROVE  /\ Due(x, s) # <<>> /\ Head(Due(x, s)) = Head(x.rcv.rbuf)
         /\ Tail(Due(x, s)) = IF x.sock.dataListener
                              THEN Tail(x.rcv.rbuf) \o (x.sock.rdbuf \o s)
                              ELSE Tail(x.rcv.rbuf)
<1> DEFINE u == x.rcv.rbuf
           v == x.sock.rdbuf \o s
<1>1. u \in Seq(Frames) /\ u # <<>> /\ v \in Seq(Frames)
  BY DueType, ConcatProperties
<1>2. Due(x, s) = IF x.sock.dataListener THEN u \o v ELSE u
  BY DEF Due
<1> HIDE DEF u, v
<1>3. u \o v # <<>> /\ Head(u \o v) = Head(u) /\ Tail(u \o v) = Tail(u) \o v
  BY <1>1, TailConcat
<1> QED BY <1>1, <1>2, <1>3 DEF u, v

(* A frame parsed that does not conclude is the first that was due. *)
LEMMA PopTakes ==
  ASSUME NEW x, Ready(x), Parsing(x), NEW z \in Endpoint, Pops(x, z),
         Head(x.rcv.rbuf).t # "close", NEW s \in Seq(Frames)
  PROVE  Takes(x, s, z, s)
<1>1. /\ x \in Endpoint /\ x.rcv.rbuf # <<>> /\ x.rcv.error = "none"
      /\ ~x.ws.closeFrameReceived
  BY DEF Ready, Parsing
<1>2. /\ Due(x, s) # <<>> /\ Head(Due(x, s)) = Head(x.rcv.rbuf)
      /\ Due(z, s) = Tail(Due(x, s))
  BY <1>1, DueHead DEF Due, Pops
<1> QED BY <1>1, <1>2 DEF Takes, Pops

(* Nothing was given, or one control frame. *)
LEMMA PopServes ==
  ASSUME NEW x, Ready(x), Parsing(x), NEW z \in Endpoint, Pops(x, z),
         Head(x.rcv.rbuf).t # "close",
         Calm(z), \A c \in Seq(Frames) : Gives(x, c, z, c)
  PROVE  Serves(x, z)
<1>1. \A s \in Seq(Frames) : Takes(x, s, z, s)
  BY PopTakes
<1>2. Tidy(z)
  BY DEF Ready, Parsing, Pops, Tidy, Calm
<1> QED BY <1>1, <1>2 DEF Serves

(* The receiver fails. *)
LEMMA FailServes ==
  ASSUME NEW x, Ready(x), NEW z \in Endpoint,
         ~x.ws.closeFrameReceived, x.rcv.error = "none",
         z.rcv.error = "pending", z.ws = x.ws, z.sock = x.sock, z.outq = x.outq,
         z.log.sent = x.log.sent
  PROVE  Serves(x, z)
<1>1. Tidy(z)
  BY DEF Ready, Tidy
<1>2. \A s \in Seq(Frames) : Takes(x, s, z, s)
  BY DEF Takes
<1>3. KeepsOut(x, z) /\ StaysClosing(x, z)
  BY DEF KeepsOut, StaysClosing, Out
<1>4. \A c \in Seq(Frames) : Gives(x, c, z, c)
  BY <1>3, KeepsGives
<1> QED BY <1>1, <1>2, <1>4 DEF Serves

(* What receiverOnConclude() does. *)
LEMMA ConcludeEffect ==
  ASSUME NEW x \in Endpoint, Local(x), NEW code \in StatusCodes
  PROVE  LET y == OnConclude(x, code) IN
         /\ y.ws.closeFrameReceived /\ y.log = x.log
         /\ y.rcv.rbuf = <<>> /\ y.rcv.inflating = x.rcv.inflating
         /\ y.ws.readyState # "OPEN"
         /\ Calm(x) => Calm(y)
         /\ KeepsOut(x, y) \/ PutsOut(x, y, CloseFrame(code))
<1> DEFINE a == [x EXCEPT !.ws.closeFrameReceived = TRUE, !.ws.closeCode = code]
           b == Stop(a)
           z == IF x.sock.phase = "detached" THEN a ELSE Close(b, code)
           y == OnConclude(x, code)
<1>0. /\ x.ws \in WsStates /\ x.sock \in SockStates /\ x.rcv \in RcvStates
  BY DEF Endpoint
<1>1. /\ a.outq = x.outq /\ a.rcv = x.rcv /\ a.log = x.log /\ a.sock = x.sock
      /\ a.ws = [x.ws EXCEPT !.closeFrameReceived = TRUE, !.closeCode = code]
      /\ a = [x EXCEPT !.ws = a.ws]
  BY DEF Endpoint
<1>2. y = [z EXCEPT !.rcv.rbuf = <<>>, !.rcv.ending = TRUE]
  BY DEF OnConclude, Stop
<1> HIDE DEF a, y
<1>3. a.ws \in WsStates /\ a.ws.closeFrameReceived /\ a.ws.readyState = x.ws.readyState
  <2>1. a.ws \in WsStates
    <3>1. [x.ws EXCEPT !.closeFrameReceived = TRUE, !.closeCode = code] \in WsStates
      BY <1>0, WsCodeFields, Zenon
    <3> QED BY <1>1, <3>1, Zenon
  <2>2. a.ws.closeFrameReceived
    BY <1>0, <1>1 DEF WsStates
  <2>3. a.ws.readyState = x.ws.readyState
    BY <1>0, <1>1 DEF WsStates
  <2> QED BY <2>1, <2>2, <2>3
<1>4. a \in Endpoint
  BY <1>0, <1>1, <1>3 DEF Endpoint
<1>5. /\ b \in Endpoint /\ b.ws = a.ws /\ b.rcv = x.rcv /\ b.log = x.log /\ b.outq = x.outq
      /\ b.sock.wbuf = x.sock.wbuf /\ b.sock.destroyed = x.sock.destroyed
  <2>1. b.outq = a.outq
    BY <1>4 DEF Stop, Endpoint
  <2> QED BY <1>1, <1>4, <2>1, StopEffect
<1>6. (* In both cases. *)
      /\ z \in Endpoint /\ z.rcv = x.rcv /\ z.log = x.log
      /\ z.ws.closeFrameReceived /\ z.ws.readyState # "OPEN"
      /\ Calm(x) => Calm(z)
      /\ KeepsOut(x, z) \/ PutsOut(x, z, CloseFrame(code))
  <2>1. CASE x.sock.phase = "detached"
    <3>1. z = a
      BY <2>1
    <3>2. x.ws.readyState # "OPEN"
      BY <2>1 DEF Local, Coherent
    <3> HIDE DEF z
    <3> QED BY <1>1, <1>3, <1>4, <3>1, <3>2 DEF Calm, KeepsOut, Out
  <2>2. CASE x.sock.phase # "detached"
    <3>1. z = Close(b, code)
      BY <2>2
    <3> HIDE DEF b, z
    <3>2. Closes(b, z)
      BY <1>5, <3>1, CloseEffect
    <3>3. (Calm(b) => Calm(z)) /\ (KeepsOut(b, z) \/ PutsOut(b, z, CloseFrame(code)))
      BY <1>5, <3>1, CloseOut
    <3>4. (Calm(b) <=> Calm(x)) /\ Out(b) = Out(x) /\ b.sock.destroyed = x.sock.destroyed
      BY <1>5 DEF Calm, Out
    <3>5. /\ z \in Endpoint /\ z.rcv = x.rcv /\ z.log = x.log
          /\ z.ws.closeFrameReceived /\ z.ws.readyState # "OPEN"
      BY <1>3, <1>5, <3>2 DEF Closes, Sends
    <3> QED BY <3>3, <3>4, <3>5 DEF KeepsOut, PutsOut
  <2> QED BY <2>1, <2>2
<1> HIDE DEF z
<1>7. /\ y.outq = z.outq /\ y.log = z.log /\ y.ws = z.ws /\ y.sock = z.sock
      /\ y.rcv = [z.rcv EXCEPT !.rbuf = <<>>, !.ending = TRUE]
  BY <1>2, <1>6 DEF Endpoint
<1>8. y.rcv.rbuf = <<>> /\ y.rcv.inflating = x.rcv.inflating
  BY <1>0, <1>6, <1>7 DEF RcvStates
<1>9. (Calm(z) <=> Calm(y)) /\ Out(z) = Out(y)
  BY <1>7 DEF Calm, Out
<1> QED BY <1>6, <1>7, <1>8, <1>9 DEF KeepsOut, PutsOut, y

(* 'close' is emitted after the socket was destroyed. *)
LEMMA EmitServes ==
  ASSUME NEW x, Ready(x), NEW y \in Endpoint,
         y.sock.destroyed, y.sock.wbuf = x.sock.wbuf, y.sock.phase # "attached",
         x.sock.destroyed, y.log = x.log,
         NEW z \in Endpoint, StaysClosing(x, z), z = EmitClose(y),
         \A s \in Seq(Frames) : Takes(x, s, y, s)
  PROVE  Serves(x, z)
<1>1. /\ z.sock = y.sock /\ z.rcv = y.rcv
      /\ z.ws.closeFrameReceived = y.ws.closeFrameReceived
  BY EmitCloseEffect
<1>2. z.log.delivered = y.log.delivered /\ z.log.sent = y.log.sent
  <2>1. y.log \in LogStates /\ z.log = [y.log EXCEPT !.closes = @ + 1]
    BY DEF EmitClose, Endpoint
  <2> QED BY <2>1 DEF LogStates
<1>3. Tidy(z)
  BY <1>1 DEF Ready, Tidy
<1>4. ASSUME NEW s \in Seq(Frames) PROVE Takes(x, s, z, s)
  <2>1. Due(z, s) = Due(y, s) /\ Got(z) = Got(y)
    BY <1>1, <1>2 DEF Due, Got
  <2>2. Takes(x, s, y, s)
    OBVIOUS
  <2> QED BY <1>1, <1>2, <2>1, <2>2 DEF Takes
<1>5. KeepsOut(x, z)
  BY <1>1 DEF KeepsOut
<1>6. \A c \in Seq(Frames) : Gives(x, c, z, c)
  BY <1>2, <1>5, KeepsGives
<1> QED BY <1>3, <1>4, <1>6 DEF Serves

-----------------------------------------------------------------------------
(* One frame parsed. *)
LEMMA ReceiveServes ==
  ASSUME NEW x, Ready(x), Parsing(x), Receive(x) \in Endpoint, StaysClosing(x, Receive(x))
  PROVE  Serves(x, Receive(x))
<1> DEFINE f == Head(x.rcv.rbuf)
           r == [x.rcv EXCEPT !.rbuf = Tail(@)]
           y == [x EXCEPT !.rcv.rbuf = Tail(@)]
           z == Receive(x)
<1>0. /\ x \in Endpoint /\ Local(x) /\ Calm(x) /\ x.rcv \in RcvStates /\ x.log \in LogStates
      /\ x.rcv.rbuf \in Seq(Frames) /\ x.rcv.rbuf # <<>>
      /\ x.rcv.inflating = "no" /\ x.rcv.error = "none" /\ ~x.ws.closeFrameReceived
  <2>1. x \in Endpoint /\ Local(x) /\ Calm(x)
    BY ReadyCalm
  <2>2. x.rcv \in RcvStates /\ x.log \in LogStates /\ x.rcv.rbuf \in Seq(Frames)
    BY <2>1 DEF Endpoint, RcvStates
  <2>3. /\ x.rcv.rbuf # <<>> /\ x.rcv.inflating = "no" /\ x.rcv.error = "none"
        /\ ~x.ws.closeFrameReceived
    BY DEF Parsing, Ready
  <2> QED BY <2>1, <2>2, <2>3
<1>1. /\ f \in Frames /\ Tail(x.rcv.rbuf) \in Seq(Frames)
      /\ f.t \in FrameTypes /\ f.z \in BOOLEAN /\ f.code \in StatusCodes
  <2>1. f \in Frames /\ Tail(x.rcv.rbuf) \in Seq(Frames)
    BY <1>0, HeadTailProperties
  <2> HIDE DEF f
  <2> QED BY <2>1 DEF Frames
<1>2. /\ y.ws = x.ws /\ y.outq = x.outq /\ y.sock = x.sock /\ y.log = x.log /\ y.rcv = r
      /\ y = [x EXCEPT !.rcv = r]
  BY <1>0 DEF Endpoint
<1>3. /\ r \in RcvStates /\ r.rbuf = Tail(x.rcv.rbuf)
      /\ r.inflating = "no" /\ r.error = "none"
      /\ r.ending = x.rcv.ending /\ r.finished = x.rcv.finished
      /\ r.needDrain = x.rcv.needDrain
  BY <1>0, <1>1 DEF RcvStates
<1>4. x.log.delivered \in Nat /\ x.log.sent \in Nat
  BY <1>0 DEF LogStates
<1>5. z = CASE f.t \in {"data", "big"} /\ f.z -> [y EXCEPT !.rcv.inflating = f.t]
            [] f.t = "data" /\ ~f.z -> [y EXCEPT !.log.delivered = @ + 1]
            [] f.t = "big" /\ ~f.z  -> Fail(y)
            [] f.t = "ping"  -> IF y.ws.readyState = "OPEN" THEN Submit(y, Pong) ELSE y
            [] f.t = "pong"  -> y
            [] f.t = "close" -> OnConclude(y, f.code)
  BY DEF Receive
<1>6. z \in Endpoint /\ StaysClosing(x, z)
  OBVIOUS
<1> HIDE DEF f, r, y, z
<1> SUFFICES Serves(x, z)
  BY DEF z
<1>7. y \in Endpoint
  BY <1>0, <1>2, <1>3 DEF Endpoint
<1>8. (* Frames that only change the receiver and the history. *)
      ASSUME f.t # "close", z.ws = x.ws, z.outq = x.outq, z.sock = x.sock,
             z.rcv.rbuf = Tail(x.rcv.rbuf), z.rcv.error = "none", z.log.sent = x.log.sent,
             Got(z) = Got(x) + (IF IsMessage(f) THEN 1 ELSE 0)
      PROVE  Serves(x, z)
  <2>1. Pops(x, z)
    BY <1>0, <1>8 DEF Pops, f
  <2>2. Calm(z) /\ KeepsOut(x, z)
    BY <1>0, <1>8 DEF Calm, KeepsOut, Out
  <2>3. \A c \in Seq(Frames) : Gives(x, c, z, c)
    BY <1>6, <1>8, <2>2, KeepsGives
  <2>4. Head(x.rcv.rbuf).t # "close"
    BY <1>8 DEF f
  <2> QED BY <1>6, <2>1, <2>2, <2>3, <2>4, PopServes
<1>9. CASE f.t \in {"data", "big"} /\ f.z
  <2>1. z = [y EXCEPT !.rcv.inflating = f.t]
    BY <1>5, <1>9
  <2>2. /\ z.ws = x.ws /\ z.outq = x.outq /\ z.sock = x.sock /\ z.log = x.log
        /\ z.rcv = [r EXCEPT !.inflating = f.t]
    BY <1>2, <1>7, <2>1 DEF Endpoint
  <2>3. z.rcv.rbuf = r.rbuf /\ z.rcv.error = r.error /\ z.rcv.inflating = f.t
    BY <1>3, <2>2 DEF RcvStates
  <2>4. Got(z) = x.log.delivered + 1 /\ Got(x) = x.log.delivered + 0 /\ IsMessage(f)
    BY <1>0, <1>9, <2>2, <2>3 DEF Got, IsMessage
  <2> QED BY <1>3, <1>4, <1>8, <1>9, <2>2, <2>3, <2>4
<1>10. CASE f.t = "data" /\ ~f.z
  <2>1. z = [y EXCEPT !.log.delivered = @ + 1]
    BY <1>5, <1>10
  <2>2. /\ z.ws = x.ws /\ z.outq = x.outq /\ z.sock = x.sock /\ z.rcv = r
        /\ z.log = [x.log EXCEPT !.delivered = @ + 1]
    BY <1>2, <1>7, <2>1 DEF Endpoint
  <2>3. z.log.sent = x.log.sent /\ z.log.delivered = x.log.delivered + 1
    BY <1>0, <2>2 DEF LogStates
  <2>4. Got(z) = (x.log.delivered + 1) + 0 /\ Got(x) = x.log.delivered + 0 /\ IsMessage(f)
    BY <1>0, <1>3, <1>10, <2>2, <2>3 DEF Got, IsMessage
  <2> QED BY <1>3, <1>4, <1>8, <1>10, <2>2, <2>3, <2>4
<1>11. CASE f.t = "big" /\ ~f.z
  <2>1. z = Fail(y)
    BY <1>5, <1>11
  <2>2. /\ z.ws = x.ws /\ z.outq = x.outq /\ z.sock = x.sock /\ z.log = x.log
        /\ z.rcv = [r EXCEPT !.rbuf = <<>>, !.error = "pending"]
    BY <1>2, <1>7, <2>1 DEF Fail, Endpoint
  <2>3. z.rcv.error = "pending"
    BY <1>3, <2>2 DEF RcvStates
  <2> QED BY <1>0, <1>6, <2>2, <2>3, FailServes
<1>12. ASSUME z = y, f.t \in {"ping", "pong"}
       PROVE  Serves(x, z)
  <2>1. Got(z) = Got(x) + 0 /\ ~IsMessage(f)
    BY <1>0, <1>2, <1>3, <1>4, <1>12 DEF Got, IsMessage
  <2> QED BY <1>2, <1>3, <1>8, <1>12, <2>1
<1>13. CASE f.t = "ping"
  <2>1. z = IF y.ws.readyState = "OPEN" THEN Submit(y, Pong) ELSE y
    BY <1>5, <1>13
  <2>2. CASE y.ws.readyState = "OPEN"
    <3>1. Pong \in Frames /\ ~IsMessage(Pong) /\ Pong.t # "close"
      BY ControlFrames
    <3>2. z = Submit(y, Pong)
      BY <2>1, <2>2
    <3>3. Calm(y) /\ Out(y) = Out(x)
      BY <1>0, <1>2 DEF Calm, Out
    <3>4. Calm(z) /\ PutsOut(y, z, Pong) /\ Writes(y, z)
      BY <1>7, <3>1, <3>2, <3>3, SubmitOut, SubmitEffect
    <3>5. PutsOut(x, z, Pong)
      BY <1>2, <3>3, <3>4 DEF PutsOut
    <3>6. /\ z.rcv = r /\ z.log = x.log
          /\ z.ws.closeFrameReceived = x.ws.closeFrameReceived
          /\ z.sock.rdbuf = x.sock.rdbuf /\ z.sock.dataListener = x.sock.dataListener
          /\ z.sock.phase = x.sock.phase
      BY <1>2, <3>4 DEF Writes, Sends
    <3>7. Got(z) = Got(x) + 0 /\ ~IsMessage(f)
      BY <1>0, <1>3, <1>4, <1>13, <3>6 DEF Got, IsMessage
    <3>8. Pops(x, z)
      BY <1>3, <3>6, <3>7 DEF Pops, f
    <3>9. z.log.sent = x.log.sent + 0
      BY <1>4, <3>6
    <3>10. \A c \in Seq(Frames) : Gives(x, c, z, c)
      BY <1>0, <1>6, <3>1, <3>5, <3>9, PutsGives
    <3>11. Head(x.rcv.rbuf).t # "close"
      BY <1>13 DEF f
    <3> QED BY <1>6, <3>4, <3>8, <3>10, <3>11, PopServes
  <2>3. CASE y.ws.readyState # "OPEN"
    BY <1>12, <1>13, <2>1, <2>3
  <2> QED BY <2>2, <2>3
<1>14. CASE f.t = "pong"
  <2>1. z = y
    BY <1>5, <1>14
  <2> QED BY <1>12, <1>14, <2>1
<1>15. CASE f.t = "close"
  <2>1. z = OnConclude(y, f.code)
    BY <1>5, <1>15
  <2>2. StepOK(x, y)
    BY <1>0, <1>1, <1>2, <1>3, RcvOK
  <2>3. /\ z.ws.closeFrameReceived /\ z.log = y.log
        /\ z.rcv.rbuf = <<>> /\ z.rcv.inflating = y.rcv.inflating
        /\ z.ws.readyState # "OPEN"
        /\ Calm(y) => Calm(z)
        /\ KeepsOut(y, z) \/ PutsOut(y, z, CloseFrame(f.code))
    BY <1>1, <1>7, <2>1, <2>2, ConcludeEffect DEF StepOK, Keeps
  <2>4. Calm(z) /\ (KeepsOut(x, z) \/ PutsOut(x, z, CloseFrame(f.code)))
    BY <1>0, <1>2, <2>3 DEF Calm, KeepsOut, PutsOut, Out
  <2>5. \A c \in Seq(Frames) : Gives(x, c, z, c)
    <3>1. z.log.sent = x.log.sent /\ z.log.sent = x.log.sent + 0
      BY <1>2, <1>4, <2>3
    <3>2. CloseFrame(f.code) \in Frames /\ ~IsMessage(CloseFrame(f.code))
      BY <1>1, ControlFrames
    <3> QED BY <1>0, <1>6, <2>3, <2>4, <3>1, <3>2, KeepsGives, PutsGives
  <2>6. ASSUME NEW s \in Seq(Frames) PROVE Takes(x, s, z, s)
    <3>1. Due(x, s) # <<>> /\ Head(Due(x, s)).t = "close"
      BY <1>0, <1>15, DueHead DEF f
    <3> QED BY <1>0, <1>2, <1>3, <2>3, <3>1 DEF Takes
  <2>7. Tidy(z)
    BY <2>3, <2>4 DEF Tidy, Calm
  <2> QED BY <1>6, <2>5, <2>6, <2>7 DEF Serves
<1> QED BY <1>1, <1>9, <1>10, <1>11, <1>13, <1>14, <1>15 DEF FrameTypes

(* The receiver's 'error' event. *)
LEMMA ErrorServes ==
  ASSUME NEW x, Ready(x), x.rcv.error = "pending",
         OnReceiverError(x) \in Endpoint, StaysClosing(x, OnReceiverError(x))
  PROVE  Serves(x, OnReceiverError(x))
<1> DEFINE a == [x EXCEPT !.rcv.error = "emitted"]
           b == Stop(a)
           z == OnReceiverError(x)
<1>0. x \in Endpoint /\ Local(x) /\ Calm(x) /\ x.rcv \in RcvStates /\ x.log.sent \in Nat
  BY ReadyCalm, GotType DEF Endpoint
<1>1. /\ a.outq = x.outq /\ a.log = x.log /\ a.ws = x.ws /\ a.sock = x.sock
      /\ a.rcv = [x.rcv EXCEPT !.error = "emitted"]
      /\ a = [x EXCEPT !.rcv = a.rcv]
  BY <1>0 DEF Endpoint
<1>2. z = IF x.sock.phase = "detached" THEN EmitClose(a) ELSE Close(b, 1009)
  BY DEF OnReceiverError, Stop
<1>3. z \in Endpoint /\ StaysClosing(x, z)
  OBVIOUS
<1> HIDE DEF a, z
<1>4. /\ a.rcv \in RcvStates /\ a.rcv.error = "emitted"
      /\ a.rcv.rbuf = x.rcv.rbuf /\ a.rcv.inflating = x.rcv.inflating
  BY <1>0, <1>1 DEF RcvStates
<1>5. a \in Endpoint
  BY <1>0, <1>1, <1>4 DEF Endpoint
<1>6. (* Whether a close frame had come or not. *)
      ASSUME NEW y, y.rcv = a.rcv, y.log = x.log,
             y.ws.closeFrameReceived = x.ws.closeFrameReceived
      PROVE  \A s \in Seq(Frames) : Takes(x, s, y, s)
  <2>1. x.ws.closeFrameReceived => x.rcv.rbuf = <<>> /\ x.rcv.inflating = "no"
    BY DEF Ready
  <2>2. x.ws.closeFrameReceived \in BOOLEAN
    BY <1>0 DEF Endpoint, WsStates
  <2>3. y.rcv.error # "none" /\ y.rcv.rbuf = x.rcv.rbuf /\ y.rcv.inflating = x.rcv.inflating
    BY <1>4, <1>6
  <2> QED BY <1>6, <2>1, <2>2, <2>3 DEF Takes
<1>7. CASE x.sock.phase = "detached"
  <2>1. z = EmitClose(a)
    BY <1>2, <1>7
  <2>2. x.sock.destroyed
    BY <1>0, <1>7 DEF Local, Coherent
  <2>3. \A s \in Seq(Frames) : Takes(x, s, a, s)
    BY <1>1, <1>6
  <2> QED BY <1>1, <1>3, <1>5, <1>7, <2>1, <2>2, <2>3, EmitServes DEF z
<1>8. CASE x.sock.phase # "detached"
  <2>1. z = Close(b, 1009)
    BY <1>2, <1>8
  <2>2. /\ b \in Endpoint /\ b.ws = x.ws /\ b.rcv = a.rcv /\ b.log = x.log /\ b.outq = x.outq
        /\ b.sock.wbuf = x.sock.wbuf /\ b.sock.destroyed = x.sock.destroyed
    <3>1. b.outq = a.outq
      BY <1>5 DEF Stop, Endpoint
    <3> QED BY <1>1, <1>5, <3>1, StopEffect
  <2>3. 1009 \in StatusCodes
    BY DEF StatusCodes
  <2> HIDE DEF b
  <2>4. Closes(b, z)
    BY <2>1, <2>2, <2>3, CloseEffect
  <2>5. (Calm(b) => Calm(z)) /\ (KeepsOut(b, z) \/ PutsOut(b, z, CloseFrame(1009)))
    BY <2>1, <2>2, <2>3, CloseOut
  <2>6. Calm(z) /\ (KeepsOut(x, z) \/ PutsOut(x, z, CloseFrame(1009)))
    <3>1. (Calm(b) <=> Calm(x)) /\ Out(b) = Out(x) /\ b.sock.destroyed = x.sock.destroyed
      BY <1>1, <2>2 DEF Calm, Out
    <3> QED BY <1>0, <2>5, <3>1 DEF KeepsOut, PutsOut
  <2>7. /\ z.rcv = a.rcv /\ z.log = x.log /\ z.ws.readyState # "OPEN"
        /\ z.ws.closeFrameReceived = x.ws.closeFrameReceived
    BY <2>2, <2>4 DEF Closes, Sends
  <2>8. \A s \in Seq(Frames) : Takes(x, s, z, s)
    BY <1>6, <2>7
  <2>9. \A c \in Seq(Frames) : Gives(x, c, z, c)
    <3>1. z.log.sent = x.log.sent /\ z.log.sent = x.log.sent + 0
      BY <1>0, <2>7
    <3>2. CloseFrame(1009) \in Frames /\ ~IsMessage(CloseFrame(1009))
      BY <2>3, ControlFrames
    <3> QED BY ZenonT(60), <1>0, <1>3, <2>6, <2>7, <3>1, <3>2, KeepsGives, PutsGives
  <2>10. Tidy(z)
    BY <1>4, <2>6, <2>7 DEF Tidy, Calm
  <2> QED BY <1>3, <2>8, <2>9, <2>10 DEF Serves, z
<1> QED BY <1>7, <1>8

-----------------------------------------------------------------------------
(* The five actions of the receiver keep the connection clean. *)
LEMMA ReceiverClean ==
  ASSUME Inv, CleanInv, Advances, NEW e \in Peers,
         \/ ReceiveFrame(e) \/ InflateDone(e) \/ ReceiverError(e)
         \/ ReceiverDrain(e) \/ ReceiverFinish(e)
  PROVE  CleanInv'
<1> DEFINE x == ep[e]
<1>0. /\ Ready(x) /\ x \in Endpoint /\ Local(x) /\ Calm(x)
      /\ x.log \in LogStates /\ x.rcv \in RcvStates /\ x.ws \in WsStates
      /\ x.log.delivered \in Nat
  BY CleanFacts, ReadyCalm, GotType DEF Endpoint
<1>1. CASE ReceiveFrame(e)
  <2>1. Parsing(x) /\ Become(e, Receive(x))
    BY <1>1 DEF ReceiveFrame
  <2>2. Receive(x) \in Endpoint /\ StaysClosing(x, Receive(x))
    BY <2>1, AfterFacts DEF Become
  <2> QED BY <1>0, <2>1, <2>2, ReceiveServes, CleanBecome
<1>2. CASE InflateDone(e)
  <2> DEFINE y == [x EXCEPT !.rcv.inflating = "no"]
             z == IF x.rcv.inflating = "big" THEN Fail(y) ELSE [y EXCEPT !.log.delivered = @ + 1]
  <2>1. Become(e, z) /\ x.rcv.inflating # "no"
    BY <1>2 DEF InflateDone
  <2>2. z \in Endpoint /\ StaysClosing(x, z)
    BY <2>1, AfterFacts DEF Become
  <2>3. x.rcv.error = "none" /\ ~x.ws.closeFrameReceived
    BY <1>0, <2>1 DEF Ready, Local, Coherent
  <2>4. /\ y.ws = x.ws /\ y.outq = x.outq /\ y.sock = x.sock /\ y.log = x.log
        /\ y.rcv = [x.rcv EXCEPT !.inflating = "no"]
        /\ y = [x EXCEPT !.rcv = y.rcv]
    BY <1>0 DEF Endpoint
  <2> HIDE DEF x, y
  <2>5. /\ y.rcv \in RcvStates /\ y.rcv.inflating = "no"
        /\ y.rcv.rbuf = x.rcv.rbuf /\ y.rcv.error = x.rcv.error
    BY <1>0, <2>4 DEF RcvStates
  <2>6. y \in Endpoint
    BY <1>0, <2>4, <2>5 DEF Endpoint
  <2>7. CASE x.rcv.inflating = "big"
    <3>1. z = Fail(y)
      BY <2>7
    <3> HIDE DEF z
    <3>2. /\ z.ws = x.ws /\ z.outq = x.outq /\ z.sock = x.sock /\ z.log = x.log
          /\ z.rcv = [y.rcv EXCEPT !.rbuf = <<>>, !.error = "pending"]
      BY <2>4, <2>6, <3>1 DEF Fail, Endpoint
    <3>3. z.rcv.error = "pending"
      BY <2>5, <3>2 DEF RcvStates
    <3>4. Serves(x, z)
      BY <1>0, <2>2, <2>3, <3>2, <3>3, FailServes
    <3> QED BY <2>1, <3>4, CleanBecome DEF x
  <2>8. CASE x.rcv.inflating # "big"
    <3>1. z = [y EXCEPT !.log.delivered = @ + 1]
      BY <2>8
    <3> HIDE DEF z
    <3>2. /\ z.ws = x.ws /\ z.outq = x.outq /\ z.sock = x.sock /\ z.rcv = y.rcv
          /\ z.log = [x.log EXCEPT !.delivered = @ + 1]
      BY <2>4, <2>6, <3>1 DEF Endpoint
    <3>3. z.log.delivered = x.log.delivered + 1 /\ z.log.sent = x.log.sent
      BY <1>0, <3>2 DEF LogStates
    <3>4. Got(z) = Got(x)
      BY <1>0, <2>1, <2>5, <3>2, <3>3 DEF Got
    <3>5. ASSUME NEW s \in Seq(Frames) PROVE Takes(x, s, z, s)
      <4>1. Due(z, s) = Due(x, s)
        BY <2>5, <3>2 DEF Due
      <4>2. IsPrefixOf(Due(x, s), Due(x, s))
        BY <1>0, DueType, PrefixSelf
      <4> QED BY <2>3, <3>2, <3>4, <4>1, <4>2 DEF Takes
    <3>6. KeepsOut(x, z) /\ Calm(z)
      BY <1>0, <3>2 DEF KeepsOut, Out, Calm
    <3>7. \A c \in Seq(Frames) : Gives(x, c, z, c)
      BY <2>2, <3>3, <3>6, KeepsGives
    <3>8. Tidy(z)
      BY <1>0, <2>5, <3>2 DEF Ready, Tidy
    <3>9. Serves(x, z)
      BY <2>2, <3>5, <3>7, <3>8 DEF Serves
    <3> QED BY <2>1, <3>9, CleanBecome DEF x
  <2> QED BY <2>7, <2>8
<1>3. CASE ReceiverError(e)
  <2>1. x.rcv.error = "pending" /\ Become(e, OnReceiverError(x))
    BY <1>3 DEF ReceiverError
  <2>2. OnReceiverError(x) \in Endpoint /\ StaysClosing(x, OnReceiverError(x))
    BY <2>1, AfterFacts DEF Become
  <2> QED BY <1>0, <2>1, <2>2, ErrorServes, CleanBecome
<1>4. CASE ReceiverDrain(e)
  <2> DEFINE f == x.sock.flowing \/ ~x.ws.paused
             y == [x EXCEPT !.rcv.needDrain = FALSE, !.sock.flowing = f]
             v == [x EXCEPT !.ws.paused = x.ws.paused, !.rcv.needDrain = FALSE,
                            !.sock.flowing = f]
  <2>1. Become(e, y)
    BY <1>4 DEF ReceiverDrain
  <2>2. y = v
    BY <1>0 DEF Endpoint, WsStates
  <2>3. Become(e, v)
    BY <2>1, <2>2
  <2>4. v \in Endpoint /\ StaysClosing(x, v)
    BY <2>3, AfterFacts DEF Become
  <2>5. Serves(x, v)
    BY <1>0, <2>4, FlowServes
  <2> QED BY <2>3, <2>5, CleanBecome
<1>5. CASE ReceiverFinish(e)
  <2> DEFINE a == [x EXCEPT !.rcv.finished = TRUE]
             z == IF a.sock.phase = "detached" THEN EmitClose(a) ELSE a
  <2>1. Become(e, z)
    BY <1>5 DEF ReceiverFinish
  <2>2. z \in Endpoint /\ StaysClosing(x, z)
    BY <2>1, AfterFacts DEF Become
  <2>3. /\ a.outq = x.outq /\ a.ws = x.ws /\ a.sock = x.sock /\ a.log = x.log
        /\ a.rcv = [x.rcv EXCEPT !.finished = TRUE]
        /\ a = [x EXCEPT !.rcv = a.rcv]
    BY <1>0 DEF Endpoint
  <2> HIDE DEF a, x
  <2>4. /\ a.rcv \in RcvStates
        /\ a.rcv.rbuf = x.rcv.rbuf /\ a.rcv.inflating = x.rcv.inflating
        /\ a.rcv.error = x.rcv.error
    BY <1>0, <2>3 DEF RcvStates
  <2>5. a \in Endpoint
    BY <1>0, <2>3, <2>4 DEF Endpoint
  <2>6. SameIn(x, a)
    BY <2>3, <2>4 DEF SameIn
  <2>7. CASE x.sock.phase = "detached"
    <3>1. z = EmitClose(a)
      BY <2>3, <2>7
    <3>2. x.sock.destroyed
      BY <1>0, <2>7 DEF Local, Coherent
    <3>3. \A s \in Seq(Frames) : Takes(x, s, a, s)
      BY <1>0, <2>5, <2>6, SameTakes
    <3> HIDE DEF z
    <3>4. Serves(x, z)
      BY <1>0, <2>2, <2>3, <2>5, <2>7, <3>1, <3>2, <3>3, EmitServes
    <3> QED BY <2>1, <3>4, CleanBecome DEF x
  <2>8. CASE x.sock.phase # "detached"
    <3>1. z = a
      BY <2>3, <2>8
    <3>2. KeepsOut(x, a) /\ Calm(a) /\ StaysClosing(x, a)
      BY <1>0, <2>3 DEF KeepsOut, Out, Calm, StaysClosing
    <3>3. Serves(x, a)
      BY <1>0, <2>3, <2>5, <2>6, <3>2, KeepServes
    <3> HIDE DEF z
    <3> QED BY <2>1, <3>1, <3>3, CleanBecome DEF x
  <2> QED BY <2>7, <2>8
<1> QED BY <1>1, <1>2, <1>3, <1>4, <1>5

-----------------------------------------------------------------------------
(* The steps of the sender and of the socket. *)
LEMMA CompressDoneClean ==
  ASSUME Inv, CleanInv, Advances, NEW e \in Peers, CompressDone(e)
  PROVE  CleanInv'
<1> DEFINE x == ep[e]
<1>1. PICK n \in 1 .. Len(x.outq) :
         Become(e, Write([x EXCEPT !.outq = SubSeq(@, n + 1, Len(@))], SubSeq(x.outq, 1, n)))
  BY DEF CompressDone
<1> DEFINE q == SubSeq(x.outq, 1, n)
           r == SubSeq(x.outq, n + 1, Len(x.outq))
           y == [x EXCEPT !.outq = r]
           z == Write(y, q)
<1>2. Become(e, z)
  BY <1>1
<1>3. /\ Ready(x) /\ x \in Endpoint /\ Calm(x)
      /\ x.outq \in Seq(Frames) /\ x.sock.wbuf \in Seq(Frames)
  BY CleanFacts, ReadyCalm, OutType
<1>4. z \in Endpoint /\ StaysClosing(x, z)
  BY <1>2, AfterFacts DEF Become
<1>5. q \in Seq(Frames) /\ r \in Seq(Frames)
  BY <1>3, SubSeqType
<1>6. q \o r = x.outq
  <2>1. Len(x.outq) \in Nat /\ n \in 1 .. Len(x.outq)
    BY <1>3, LenProperties
  <2>2. /\ 1 \in 1 .. Len(x.outq) + 1 /\ n \in 1 - 1 .. Len(x.outq)
        /\ Len(x.outq) \in n .. Len(x.outq)
    BY <2>1
  <2>3. q \o r = SubSeq(x.outq, 1, Len(x.outq))
    BY <1>3, <2>2, ConcatAdjacentSubSeq
  <2> QED BY <1>3, <2>3, SubSeqFull
<1>7. /\ y.ws = x.ws /\ y.outq = r /\ y.sock = x.sock /\ y.rcv = x.rcv /\ y.log = x.log
      /\ y \in Endpoint
  <2> HIDE DEF r
  <2> QED BY <1>3, <1>5 DEF Endpoint
<1> HIDE DEF x, q, r, y, z
<1>8. Writes(y, z)
  BY <1>5, <1>7, WriteEffect DEF z
<1>9. /\ Calm(y) => Calm(z)
      /\ \/ z.sock.destroyed
         \/ ~y.sock.destroyed /\ z.sock.wbuf = y.sock.wbuf \o q /\ z.outq = y.outq
  BY <1>5, <1>7, WriteOut DEF z
<1>10. (x.sock.wbuf \o q) \o r = x.sock.wbuf \o x.outq
  <2> DEFINE w == x.sock.wbuf
  <2>1. w \in Seq(Frames)
    BY <1>3
  <2> HIDE DEF w
  <2>2. (w \o q) \o r = w \o (q \o r)
    BY <1>5, <2>1, ConcatAssociative
  <2> QED BY <1>6, <2>2 DEF w
<1>11. Calm(z) /\ KeepsOut(x, z)
  BY <1>3, <1>7, <1>9, <1>10 DEF Calm, KeepsOut, Out
<1>12. SameIn(x, z) /\ z.sock.phase = x.sock.phase /\ z.log.sent = x.log.sent
  BY <1>7, <1>8 DEF Writes, Sends, SameIn
<1>13. Serves(x, z)
  BY <1>3, <1>4, <1>11, <1>12, KeepServes
<1> QED BY <1>2, <1>13, CleanBecome DEF x

(* The head put back before the tail. *)
LEMMA HeadTailCons ==
  ASSUME NEW w \in Seq(Frames), w # <<>>
  PROVE  <<Head(w)>> \o Tail(w) = w
<1>1. /\ Head(w) \in Frames /\ Head(w) = w[1] /\ Len(w) \in Nat /\ Len(w) > 0
      /\ Tail(w) \in Seq(Frames) /\ Len(Tail(w)) = Len(w) - 1
      /\ \A i \in 1 .. Len(w) - 1 : Tail(w)[i] = w[i + 1]
  BY HeadTailProperties, EmptySeq, LenProperties
<1>2. <<Head(w)>> \in Seq(Frames) /\ Len(<<Head(w)>>) = 1 /\ <<Head(w)>>[1] = w[1]
  BY <1>1
<1> DEFINE h == <<Head(w)>>
<1> HIDE DEF h
<1>3. /\ h \o Tail(w) \in Seq(Frames) /\ Len(h \o Tail(w)) = Len(w)
      /\ \A i \in 1 .. Len(w) : (h \o Tail(w))[i] = IF i <= 1 THEN h[i] ELSE Tail(w)[i - 1]
  BY <1>1, <1>2, ConcatProperties DEF h
<1>4. \A i \in 1 .. Len(w) : (h \o Tail(w))[i] = w[i]
  BY <1>1, <1>2, <1>3 DEF h
<1>5. h \o Tail(w) = w
  BY <1>3, <1>4, SeqEqual
<1> QED BY <1>5 DEF h

(* The write callback: the frame is on the wire now. *)
LEMMA FlushClean ==
  ASSUME Inv, CleanInv, Advances, NEW e \in Peers, Flush(e)
  PROVE  CleanInv'
<1> DEFINE x == ep[e]
           f == Head(x.sock.wbuf)
           y == [x EXCEPT !.sock.wbuf = Tail(@)]
           a == [y EXCEPT !.ws.closeFrameSent = TRUE]
           z == IF f.t = "close" THEN CloseFrameFlushed(y) ELSE y
           c == chan[e]
<1>1. /\ x.sock.wbuf # <<>>
      /\ chan' = [chan EXCEPT ![e] = Append(@, f)]
      /\ ep' = [ep EXCEPT ![e] = z]
  BY DEF Flush
<1>2. /\ Ready(x) /\ x \in Endpoint /\ Calm(x)
      /\ x.sock \in SockStates /\ x.ws \in WsStates
      /\ x.outq \in Seq(Frames) /\ x.sock.wbuf \in Seq(Frames)
      /\ chan \in [Peers -> Seq(Frames)] /\ c \in Seq(Frames)
      /\ Coming(e) \in Seq(Frames) /\ Other(e) \in Peers /\ Other(e) # e
  BY CleanFacts, ReadyCalm, OutType DEF Endpoint
<1>3. z \in Endpoint /\ StaysClosing(x, z)
  BY <1>1, AfterFacts
<1>4. f \in Frames /\ Tail(x.sock.wbuf) \in Seq(Frames)
  BY <1>1, <1>2, HeadTailProperties
<1>5. z = IF f.t = "close" THEN (IF PeerIsDone(a) THEN End(a) ELSE a) ELSE y
  BY DEF CloseFrameFlushed
<1>6. /\ y.ws = x.ws /\ y.outq = x.outq /\ y.rcv = x.rcv /\ y.log = x.log
      /\ y.sock = [x.sock EXCEPT !.wbuf = Tail(@)]
      /\ y = [x EXCEPT !.sock = y.sock]
  BY <1>2 DEF Endpoint
<1> HIDE DEF x, f, y, c
<1>7. /\ y.sock \in SockStates /\ y.sock.wbuf = Tail(x.sock.wbuf)
      /\ y.sock.destroyed = x.sock.destroyed /\ y.sock.rdbuf = x.sock.rdbuf
      /\ y.sock.dataListener = x.sock.dataListener /\ y.sock.phase = x.sock.phase
  BY <1>2, <1>4, <1>6 DEF SockStates
<1>8. y \in Endpoint
  BY <1>2, <1>6, <1>7 DEF Endpoint
<1>9. /\ a.outq = x.outq /\ a.rcv = x.rcv /\ a.log = x.log /\ a.sock = y.sock
      /\ a.ws = [x.ws EXCEPT !.closeFrameSent = TRUE]
      /\ a = [y EXCEPT !.ws = a.ws]
  BY <1>6, <1>8 DEF Endpoint
<1> HIDE DEF a, z
<1>10. a.ws \in WsStates /\ a.ws.closeFrameReceived = x.ws.closeFrameReceived
  <2>1. a.ws \in WsStates
    BY <1>2, <1>9, WsFields
  <2> QED BY <1>2, <1>9, <2>1 DEF WsStates
<1>11. a \in Endpoint
  BY <1>8, <1>9, <1>10 DEF Endpoint
<1>12. /\ z.outq = x.outq /\ z.rcv = x.rcv /\ z.log = x.log
       /\ z.ws.closeFrameReceived = x.ws.closeFrameReceived
       /\ z.sock = y.sock \/ z.sock = [y.sock EXCEPT !.ended = TRUE]
  <2>1. /\ End(a).outq = a.outq /\ End(a).rcv = a.rcv /\ End(a).log = a.log
        /\ End(a).ws = a.ws /\ End(a).sock = [a.sock EXCEPT !.ended = TRUE]
    BY <1>11 DEF End, Endpoint
  <2> QED BY <1>5, <1>6, <1>9, <1>10, <2>1
<1>13. /\ z.sock.wbuf = Tail(x.sock.wbuf) /\ z.sock.destroyed = x.sock.destroyed
       /\ z.sock.rdbuf = x.sock.rdbuf /\ z.sock.dataListener = x.sock.dataListener
       /\ z.sock.phase = x.sock.phase
  BY <1>7, <1>12 DEF SockStates
<1>14. ~x.sock.destroyed
  BY <1>1, <1>2 DEF Calm
<1>15. Append(c, f) \o Out(z) = c \o Out(x)
  <2> DEFINE w == x.sock.wbuf
             q == x.outq
  <2>1. w \in Seq(Frames) /\ w # <<>> /\ q \in Seq(Frames) /\ f = Head(w) /\ c \in Seq(Frames)
        /\ Tail(w) \in Seq(Frames) /\ <<f>> \in Seq(Frames) /\ Tail(w) \o q \in Seq(Frames)
    BY <1>1, <1>2, <1>4, ConcatProperties DEF f
  <2>2. Out(z) = Tail(w) \o q /\ Out(x) = w \o q
    BY <1>12, <1>13, <1>14 DEF Out
  <2> HIDE DEF w, q
  <2>3. <<f>> \o Tail(w) = w
    BY <2>1, HeadTailCons
  <2>4. (<<f>> \o Tail(w)) \o q = <<f>> \o (Tail(w) \o q)
    BY <2>1, ConcatAssociative
  <2>5. (c \o <<f>>) \o (Tail(w) \o q) = c \o (<<f>> \o (Tail(w) \o q))
    BY <2>1, ConcatAssociative
  <2>6. Append(c, f) = c \o <<f>>
    BY <1>4, <2>1, AppendIsConcat
  <2> QED BY <2>2, <2>3, <2>4, <2>5, <2>6
<1>16. SameIn(x, z)
  BY <1>12, <1>13 DEF SameIn
<1>17. Calm(z)
  BY <1>13, <1>14 DEF Calm
<1>18. Tidy(z)
  BY <1>2, <1>13, <1>16, <1>17, SameTidy
<1>19. chan'[e] = Append(c, f) /\ chan'[Other(e)] = chan[Other(e)]
       /\ chan' \in [Peers -> Seq(Frames)]
  BY <1>1, <1>2, <1>4, AppendProperties DEF c
<1>20. Gives(x, c, z, chan'[e])
  BY <1>3, <1>12, <1>14, <1>15, <1>19 DEF Gives, StaysClosing
<1>21. Takes(x, Coming(e), z, chan'[Other(e)] \o Out(ep[Other(e)]))
  <2>1. Coming(e) = chan'[Other(e)] \o Out(ep[Other(e)])
    BY <1>19 DEF Coming
  <2>2. Takes(x, Coming(e), z, Coming(e))
    BY <1>2, <1>3, <1>16, SameTakes
  <2> QED BY <2>1, <2>2
<1> QED BY <1>1, <1>3, <1>18, <1>19, <1>20, <1>21, CleanStep DEF x, c

-----------------------------------------------------------------------------
(* socketOnData(): the chunk goes to the receiver, if it may still come.    *)
LEMMA DataEffect ==
  ASSUME NEW x \in Endpoint, NEW chunk \in Seq(Frames), x.sock.dataListener
  PROVE  LET y == OnData(x, chunk) IN
         /\ y.ws = x.ws /\ y.outq = x.outq /\ y.log = x.log
         /\ y.rcv.rbuf = (IF x.rcv.error # "none" THEN x.rcv.rbuf ELSE x.rcv.rbuf \o chunk)
         /\ y.rcv.inflating = x.rcv.inflating /\ y.rcv.error = x.rcv.error
         /\ y.sock.wbuf = x.sock.wbuf /\ y.sock.destroyed = x.sock.destroyed
         /\ y.sock.rdbuf = x.sock.rdbuf /\ y.sock.dataListener = x.sock.dataListener
         /\ y.sock.phase = x.sock.phase
<1> DEFINE y == OnData(x, chunk)
           full == Held(x) + Len(chunk) >= HighWaterMark
           failed == x.rcv.error # "none"
           need == x.rcv.needDrain \/ full
           flow == x.sock.flowing /\ ~full /\ ~failed
           buf == IF failed THEN x.rcv.rbuf ELSE x.rcv.rbuf \o chunk
<1>1. x.sock \in SockStates /\ x.rcv \in RcvStates
  BY DEF Endpoint
<1>2. y = [x EXCEPT !.rcv.rbuf = buf, !.rcv.needDrain = need, !.sock.flowing = flow]
  BY DEF OnData
<1>3. buf = IF x.rcv.error # "none" THEN x.rcv.rbuf ELSE x.rcv.rbuf \o chunk
  OBVIOUS
<1> HIDE DEF buf, need, flow, full, failed, y
<1>4. /\ y.outq = x.outq /\ y.log = x.log /\ y.ws = x.ws
      /\ y.sock = [x.sock EXCEPT !.flowing = flow]
      /\ y.rcv = [x.rcv EXCEPT !.rbuf = buf, !.needDrain = need]
  BY <1>2 DEF Endpoint
<1>5. /\ y.sock.wbuf = x.sock.wbuf /\ y.sock.destroyed = x.sock.destroyed
      /\ y.sock.rdbuf = x.sock.rdbuf /\ y.sock.dataListener = x.sock.dataListener
      /\ y.sock.phase = x.sock.phase
  BY <1>1, <1>4 DEF SockStates
<1>6. /\ y.rcv.rbuf = buf /\ y.rcv.inflating = x.rcv.inflating
      /\ y.rcv.error = x.rcv.error
  BY <1>1, <1>4 DEF RcvStates
<1> QED BY <1>3, <1>4, <1>5, <1>6 DEF y

(* Frames move from what comes, or was kept, towards the receiver: what is  *)
(* due stays the same.                                                      *)
Moves(x, s, z, t) ==
    /\ z.sock.phase = x.sock.phase /\ z.sock.dataListener = x.sock.dataListener
    /\ z.ws = x.ws /\ z.outq = x.outq /\ z.log = x.log
    /\ z.sock.wbuf = x.sock.wbuf /\ z.sock.destroyed = x.sock.destroyed
    /\ z.rcv.inflating = x.rcv.inflating /\ z.rcv.error = x.rcv.error
    /\ ~x.sock.dataListener => z.rcv.rbuf = x.rcv.rbuf
    /\ x.sock.dataListener /\ x.rcv.error = "none" => Due(z, t) = Due(x, s)

(* Such a step keeps what is due, and what is to be sent. *)
LEMMA MoveFacts ==
  ASSUME NEW x, Ready(x), NEW z \in Endpoint, NEW s \in Seq(Frames), NEW t \in Seq(Frames),
         Moves(x, s, z, t)
  PROVE  /\ Takes(x, s, z, t)
         /\ Tidy(z)
         /\ \A c \in Seq(Frames) : Gives(x, c, z, c)
<1>1. /\ x \in Endpoint /\ Local(x) /\ Calm(x)
      /\ x.ws.closeFrameReceived \in BOOLEAN /\ x.sock.dataListener \in BOOLEAN
  BY ReadyCalm DEF Endpoint, WsStates, SockStates
<1>2. Calm(z) /\ KeepsOut(x, z) /\ StaysClosing(x, z)
  BY <1>1 DEF Moves, Calm, KeepsOut, Out, StaysClosing
<1>3. Tidy(z)
  BY <1>2 DEF Ready, Tidy, Moves, Calm
<1>4. \A c \in Seq(Frames) : Gives(x, c, z, c)
  BY <1>2, KeepsGives DEF Moves
<1>5. Takes(x, s, z, t)
  <2>1. CASE x.ws.closeFrameReceived
    <3>1. ~x.sock.dataListener
      BY <1>1, <2>1 DEF Local, Coherent
    <3> QED BY <2>1, <3>1 DEF Ready, Moves, Takes
  <2>2. CASE ~x.ws.closeFrameReceived /\ x.rcv.error # "none"
    BY <2>2 DEF Moves, Takes
  <2>3. CASE ~x.ws.closeFrameReceived /\ x.rcv.error = "none"
    <3>1. Due(z, t) = Due(x, s)
      BY <2>3 DEF Moves, Due
    <3>2. IsPrefixOf(Due(x, s), Due(x, s))
      BY <1>1, DueType, PrefixSelf
    <3>3. Got(z) = Got(x)
      BY DEF Moves, Got
    <3> QED BY <2>3, <3>1, <3>2, <3>3 DEF Moves, Takes
  <2> QED BY <1>1, <2>1, <2>2, <2>3
<1> QED BY <1>3, <1>4, <1>5

(* Both parts of a sequence cut in two make the sequence. *)
LEMMA CutInTwo ==
  ASSUME NEW s \in Seq(Frames), NEW n \in 1 .. Len(s)
  PROVE  /\ SubSeq(s, 1, n) \in Seq(Frames) /\ SubSeq(s, n + 1, Len(s)) \in Seq(Frames)
         /\ SubSeq(s, 1, n) \o SubSeq(s, n + 1, Len(s)) = s
<1>1. Len(s) \in Nat /\ n \in 1 .. Len(s)
  BY LenProperties
<1>2. 1 \in 1 .. Len(s) + 1 /\ n \in 1 - 1 .. Len(s) /\ Len(s) \in n .. Len(s)
  BY <1>1
<1>3. SubSeq(s, 1, n) \o SubSeq(s, n + 1, Len(s)) = SubSeq(s, 1, Len(s))
  BY <1>2, ConcatAdjacentSubSeq
<1> QED BY <1>3, SubSeqFull, SubSeqType

(* Frames arrive. *)
LEMMA ArriveClean ==
  ASSUME Inv, CleanInv, Advances, NEW e \in Peers, Arrive(e)
  PROVE  CleanInv'
<1> DEFINE x == ep[e]
           o == Other(e)
           out == Out(ep[o])
<1>1. PICK n \in 1 .. Len(chan[o]) :
        /\ chan' = [chan EXCEPT ![o] = SubSeq(chan[o], n + 1, Len(chan[o]))]
        /\ ep' = [ep EXCEPT ![e] =
                     IF x.sock.flowing THEN OnData(x, SubSeq(chan[o], 1, n))
                     ELSE [x EXCEPT !.sock.rdbuf = @ \o SubSeq(chan[o], 1, n)]]
  BY DEF Arrive
<1> DEFINE chunk == SubSeq(chan[o], 1, n)
           rest == SubSeq(chan[o], n + 1, Len(chan[o]))
           a == [x EXCEPT !.sock.rdbuf = @ \o chunk]
           z == IF x.sock.flowing THEN OnData(x, chunk) ELSE a
<1>2. /\ Ready(x) /\ x \in Endpoint /\ Local(x)
      /\ x.sock \in SockStates /\ x.rcv.rbuf \in Seq(Frames) /\ x.sock.rdbuf \in Seq(Frames)
      /\ chan \in [Peers -> Seq(Frames)] /\ Coming(e) \in Seq(Frames)
      /\ o \in Peers /\ o # e /\ out \in Seq(Frames) /\ chan[o] \in Seq(Frames)
  BY CleanFacts, ReadyCalm, OutType, DueType DEF Endpoint
<1>3. chunk \in Seq(Frames) /\ rest \in Seq(Frames) /\ chunk \o rest = chan[o]
  BY <1>2, CutInTwo
<1>4. chan' = [chan EXCEPT ![o] = rest] /\ ep' = [ep EXCEPT ![e] = z]
  BY <1>1
<1>5. z \in Endpoint
  BY <1>4, AfterFacts
<1>6. (* A socket that flows has kept nothing. *)
      x.sock.flowing => x.sock.rdbuf = <<>>
  <2>1. ~x.sock.destroyed /\ ~Flowable(x)
    BY DEF Arrive, Busy, Ticks
  <2>2. x.sock.phase = "attached"
    BY <1>2, <2>1 DEF Local, Coherent
  <2> QED BY <2>1, <2>2 DEF Flowable
<1>7. Coming(e) = chunk \o (rest \o out)
  <2>1. Coming(e) = (chunk \o rest) \o out
    BY <1>3 DEF Coming
  <2> HIDE DEF x, chunk, rest, out, o
  <2>2. chunk \in Seq(Frames) /\ rest \in Seq(Frames) /\ out \in Seq(Frames)
    BY <1>2, <1>3
  <2>3. (chunk \o rest) \o out = chunk \o (rest \o out)
    BY <2>2, ConcatAssociative
  <2> QED BY <2>1, <2>3
<1>8. /\ a.ws = x.ws /\ a.outq = x.outq /\ a.rcv = x.rcv /\ a.log = x.log
      /\ a.sock = [x.sock EXCEPT !.rdbuf = @ \o chunk]
  BY <1>2 DEF Endpoint
<1> DEFINE s == Coming(e)
           t == rest \o out
<1>9. /\ s \in Seq(Frames) /\ t \in Seq(Frames) /\ s = chunk \o t
      /\ chan' \in [Peers -> Seq(Frames)] /\ chan'[e] = chan[e] /\ chan'[o] = rest
      /\ chan[e] \in Seq(Frames)
  BY <1>2, <1>3, <1>4, <1>7, ConcatProperties
<1> HIDE DEF x, o, out, chunk, rest, a, s, t
<1>10. Moves(x, s, z, t)
  <2>1. CASE x.sock.flowing
    <3>1. z = OnData(x, chunk)
      BY <2>1
    <3> HIDE DEF z
    <3>2. CASE ~x.sock.dataListener
      <4>1. z = x
        BY <3>1, <3>2 DEF OnData
      <4> QED BY <3>2, <4>1 DEF Moves
    <3>3. CASE x.sock.dataListener
      <4>1. /\ z.ws = x.ws /\ z.outq = x.outq /\ z.log = x.log
            /\ z.rcv.rbuf = (IF x.rcv.error # "none" THEN x.rcv.rbuf ELSE x.rcv.rbuf \o chunk)
            /\ z.rcv.inflating = x.rcv.inflating /\ z.rcv.error = x.rcv.error
            /\ z.sock.wbuf = x.sock.wbuf /\ z.sock.destroyed = x.sock.destroyed
            /\ z.sock.rdbuf = x.sock.rdbuf /\ z.sock.dataListener = x.sock.dataListener
            /\ z.sock.phase = x.sock.phase
        BY <1>2, <1>3, <3>1, <3>3, DataEffect
      <4>2. ASSUME x.rcv.error = "none" PROVE Due(z, t) = Due(x, s)
        <5> DEFINE r == x.rcv.rbuf
        <5>1. z.rcv.rbuf = r \o chunk /\ z.sock.rdbuf = <<>> /\ x.sock.rdbuf = <<>>
          BY <1>6, <2>1, <4>1, <4>2
        <5>2. r \in Seq(Frames)
          BY <1>2
        <5> HIDE DEF r
        <5>3. <<>> \o t = t /\ <<>> \o s = s
          BY <1>9, ConcatEmptySeq
        <5>4. (r \o chunk) \o t = r \o (chunk \o t)
          BY SMTT(60), <1>3, <1>9, <5>2, ConcatAssociative
        <5> QED BY <1>9, <3>3, <4>1, <5>1, <5>3, <5>4 DEF Due, r
      <4> QED BY <3>3, <4>1, <4>2 DEF Moves
    <3> QED BY <3>2, <3>3
  <2>2. CASE ~x.sock.flowing
    <3>1. z = a
      BY <2>2
    <3> HIDE DEF z
    <3>2. /\ z.sock.wbuf = x.sock.wbuf /\ z.sock.destroyed = x.sock.destroyed
          /\ z.sock.rdbuf = x.sock.rdbuf \o chunk
          /\ z.sock.dataListener = x.sock.dataListener /\ z.sock.phase = x.sock.phase
      BY <1>2, <1>8, <3>1 DEF SockStates
    <3>3. Due(z, t) = Due(x, s)
      <4> DEFINE k == x.sock.rdbuf
      <4>1. k \in Seq(Frames)
        BY <1>2
      <4> HIDE DEF k
      <4>2. (k \o chunk) \o t = k \o (chunk \o t)
        BY SMTT(60), <1>3, <1>9, <4>1, ConcatAssociative
      <4> QED BY <1>8, <1>9, <3>1, <3>2, <4>2 DEF Due, k
    <3> QED BY <1>8, <3>1, <3>2, <3>3 DEF Moves
  <2> QED BY <2>1, <2>2
<1> HIDE DEF z
<1>11. /\ Takes(x, s, z, t) /\ Tidy(z)
       /\ Gives(x, chan[e], z, chan'[e])
  BY <1>2, <1>5, <1>9, <1>10, MoveFacts
<1>12. Takes(ep[e], Coming(e), z, chan'[Other(e)] \o Out(ep[Other(e)]))
  BY <1>9, <1>11 DEF x, s, t, o, out
<1> QED BY <1>4, <1>5, <1>9, <1>11, <1>12, CleanStep DEF x

(* A resumed socket emits what it kept. *)
LEMMA ReadKeptClean ==
  ASSUME Inv, CleanInv, Advances, NEW e \in Peers, ReadKept(e)
  PROVE  CleanInv'
<1> DEFINE x == ep[e]
<1>1. PICK n \in 1 .. Len(x.sock.rdbuf) :
        Become(e, OnData([x EXCEPT !.sock.rdbuf = SubSeq(@, n + 1, Len(@))],
                         SubSeq(x.sock.rdbuf, 1, n)))
  BY DEF ReadKept
<1> DEFINE k == x.sock.rdbuf
           chunk == SubSeq(k, 1, n)
           rest == SubSeq(k, n + 1, Len(k))
           a == [x EXCEPT !.sock.rdbuf = rest]
           z == OnData(a, chunk)
<1>2. /\ Ready(x) /\ x \in Endpoint /\ Local(x)
      /\ x.sock \in SockStates /\ x.rcv.rbuf \in Seq(Frames) /\ k \in Seq(Frames)
  BY CleanFacts, ReadyCalm, DueType DEF Endpoint
<1>3. chunk \in Seq(Frames) /\ rest \in Seq(Frames) /\ chunk \o rest = k
  BY <1>2, CutInTwo
<1>4. Become(e, z)
  BY <1>1
<1>5. z \in Endpoint
  BY <1>4, AfterFacts DEF Become
<1>6. /\ a.ws = x.ws /\ a.outq = x.outq /\ a.rcv = x.rcv /\ a.log = x.log
      /\ a.sock = [x.sock EXCEPT !.rdbuf = rest]
      /\ a = [x EXCEPT !.sock = a.sock]
  BY <1>2 DEF Endpoint
<1>7. x.sock.rdbuf = k
  OBVIOUS
<1> HIDE DEF x, k, chunk, rest, a
<1>8. /\ a.sock \in SockStates
      /\ a.sock.wbuf = x.sock.wbuf /\ a.sock.destroyed = x.sock.destroyed
      /\ a.sock.rdbuf = rest /\ a.sock.dataListener = x.sock.dataListener
      /\ a.sock.phase = x.sock.phase
  BY <1>2, <1>3, <1>6 DEF SockStates
<1>9. a \in Endpoint
  BY <1>2, <1>6, <1>8 DEF Endpoint
<1>10. ASSUME NEW s \in Seq(Frames) PROVE Moves(x, s, z, s)
  <2>1. CASE ~x.sock.dataListener
    <3>1. z = a
      BY <1>8, <2>1 DEF OnData
    <3> QED BY <1>6, <1>8, <2>1, <3>1 DEF Moves
  <2>2. CASE x.sock.dataListener
    <3>1. /\ z.ws = a.ws /\ z.outq = a.outq /\ z.log = a.log
          /\ z.rcv.rbuf = (IF a.rcv.error # "none" THEN a.rcv.rbuf ELSE a.rcv.rbuf \o chunk)
          /\ z.rcv.inflating = a.rcv.inflating /\ z.rcv.error = a.rcv.error
          /\ z.sock.wbuf = a.sock.wbuf /\ z.sock.destroyed = a.sock.destroyed
          /\ z.sock.rdbuf = a.sock.rdbuf /\ z.sock.dataListener = a.sock.dataListener
          /\ z.sock.phase = a.sock.phase
      BY <1>3, <1>8, <1>9, <2>2, DataEffect
    <3> HIDE DEF z
    <3>2. ASSUME x.rcv.error = "none" PROVE Due(z, s) = Due(x, s)
      <4> DEFINE r == x.rcv.rbuf
                 q == rest \o s
      <4>1. r \in Seq(Frames) /\ q \in Seq(Frames)
        BY <1>2, <1>3, ConcatProperties
      <4>2. z.rcv.rbuf = r \o chunk /\ z.sock.rdbuf = rest
        BY <1>6, <1>8, <3>1, <3>2
      <4>3. chunk \o q = k \o s
        <5>1. chunk \in Seq(Frames) /\ rest \in Seq(Frames) /\ s \in Seq(Frames)
          BY <1>3
        <5>2. (chunk \o rest) \o s = chunk \o (rest \o s)
          BY <5>1, ConcatAssociative
        <5> QED BY <1>3, <5>2
      <4> HIDE DEF r, q
      <4>4. (r \o chunk) \o q = r \o (chunk \o q)
        BY SMTT(60), <1>3, <4>1, ConcatAssociative
      <4>5. Due(z, s) = (r \o chunk) \o q
        BY <1>8, <2>2, <3>1, <4>2 DEF Due, q
      <4>6. Due(x, s) = r \o (k \o s)
        BY <1>7, <2>2 DEF Due, r
      <4> QED BY <4>3, <4>4, <4>5, <4>6
    <3> QED BY <1>6, <1>8, <2>2, <3>1, <3>2 DEF Moves
  <2> QED BY <2>1, <2>2
<1> HIDE DEF z
<1>11. \A s \in Seq(Frames) :
          /\ Takes(x, s, z, s) /\ Tidy(z)
          /\ \A c \in Seq(Frames) : Gives(x, c, z, c)
  BY <1>2, <1>5, <1>10, MoveFacts
<1>12. <<>> \in Seq(Frames)
  OBVIOUS
<1>13. Serves(x, z)
  BY <1>5, <1>11, <1>12 DEF Serves
<1> QED BY <1>4, <1>13, CleanBecome DEF x

-----------------------------------------------------------------------------
(* socketOnEnd(). *)
LEMMA SocketEndClean ==
  ASSUME Inv, CleanInv, Advances, NEW e \in Peers, SocketEnd(e)
  PROVE  CleanInv'
<1> DEFINE x == ep[e]
           a == [x EXCEPT !.sock.endEmitted = TRUE, !.ws.readyState = "CLOSING",
                          !.rcv.ending = TRUE]
           z == End(a)
<1>1. Become(e, z)
  BY DEF SocketEnd
<1>2. /\ Ready(x) /\ x \in Endpoint /\ Calm(x)
      /\ x.ws \in WsStates /\ x.sock \in SockStates /\ x.rcv \in RcvStates
  BY CleanFacts, ReadyCalm DEF Endpoint
<1>3. z \in Endpoint /\ StaysClosing(x, z)
  BY <1>1, AfterFacts DEF Become
<1>4. /\ z.outq = x.outq /\ z.log = x.log
      /\ z.ws = [x.ws EXCEPT !.readyState = "CLOSING"]
      /\ z.rcv = [x.rcv EXCEPT !.ending = TRUE]
      /\ z.sock = [[x.sock EXCEPT !.endEmitted = TRUE] EXCEPT !.ended = TRUE]
  <2>1. /\ a.outq = x.outq /\ a.log = x.log
        /\ a.ws = [x.ws EXCEPT !.readyState = "CLOSING"]
        /\ a.rcv = [x.rcv EXCEPT !.ending = TRUE]
        /\ a.sock = [x.sock EXCEPT !.endEmitted = TRUE]
        /\ a = [x EXCEPT !.ws = a.ws, !.rcv = a.rcv, !.sock = a.sock]
    BY <1>2 DEF Endpoint
  <2> HIDE DEF a
  <2>2. z = [a EXCEPT !.sock.ended = TRUE]
    BY DEF End
  <2> HIDE DEF z
  <2>3. /\ z.outq = a.outq /\ z.log = a.log /\ z.ws = a.ws /\ z.rcv = a.rcv
        /\ z.sock = [a.sock EXCEPT !.ended = TRUE]
    BY <1>2, <2>1, <2>2 DEF Endpoint
  <2> QED BY <2>1, <2>3
<1> HIDE DEF x, a, z
<1>5. /\ z.sock.wbuf = x.sock.wbuf /\ z.sock.destroyed = x.sock.destroyed
      /\ z.sock.rdbuf = x.sock.rdbuf /\ z.sock.dataListener = x.sock.dataListener
      /\ z.sock.phase = x.sock.phase
  BY <1>2, <1>4 DEF SockStates
<1>6. /\ z.rcv.rbuf = x.rcv.rbuf /\ z.rcv.inflating = x.rcv.inflating
      /\ z.rcv.error = x.rcv.error
  BY <1>2, <1>4 DEF RcvStates
<1>7. z.ws.closeFrameReceived = x.ws.closeFrameReceived
  BY <1>2, <1>4 DEF WsStates
<1>8. SameIn(x, z)
  BY <1>4, <1>5, <1>6, <1>7 DEF SameIn
<1>9. Calm(z) /\ KeepsOut(x, z)
  BY <1>2, <1>4, <1>5 DEF Calm, KeepsOut, Out
<1>10. Serves(x, z)
  BY <1>2, <1>3, <1>4, <1>5, <1>8, <1>9, KeepServes
<1> QED BY <1>1, <1>10, CleanBecome DEF x

(* The socket is destroyed: by the runtime, the network or the timer. *)
LEMMA DestroyClean ==
  ASSUME Inv, CleanInv, Advances, NEW e \in Peers,
         AutoDestroy(e) \/ SocketError(e) \/ CloseTimeout(e)
  PROVE  CleanInv'
<1> DEFINE x == ep[e]
<1>0. Ready(x) /\ x \in Endpoint /\ Local(x)
  BY CleanFacts, ReadyCalm
<1>1. ASSUME NEW y \in Endpoint, y = x \/ y = [x EXCEPT !.ws.readyState = "CLOSING"],
             Become(e, Destroy(y))
      PROVE  CleanInv'
  <2>1. Destroy(y) \in Endpoint /\ StaysClosing(x, Destroy(y))
    BY <1>1, AfterFacts DEF Become
  <2>2. Serves(x, Destroy(y))
    BY <1>0, <1>1, <2>1, DestroyServes
  <2> QED BY <1>1, <2>2, CleanBecome
<1>2. CASE AutoDestroy(e) \/ CloseTimeout(e)
  BY <1>0, <1>1, <1>2 DEF AutoDestroy, CloseTimeout
<1>3. CASE SocketError(e)
  <2> DEFINE y == [x EXCEPT !.ws.readyState = "CLOSING"]
  <2>1. x.sock.destroyed = FALSE /\ Become(e, Destroy(y))
    BY <1>0, <1>3 DEF SocketError, Endpoint, SockStates
  <2>2. x.ws.readyState # "CLOSED"
    BY <1>0, <2>1 DEF Local, Coherent
  <2>3. y \in Endpoint
    BY <1>0, <2>2, ClosingOK DEF StepOK, Keeps
  <2> QED BY <1>1, <2>1, <2>3
<1> QED BY <1>2, <1>3

(* What the socket had kept goes to the receiver; what was on the wire is   *)
(* lost.                                                                    *)
LEMMA FinalReadClean ==
  ASSUME Inv, CleanInv, Advances, NEW e \in Peers, FinalRead(e)
  PROVE  CleanInv'
<1> DEFINE x == ep[e]
           z == [x EXCEPT !.sock.phase = "closing", !.ws.readyState = "CLOSING",
                          !.sock.dataListener = FALSE,
                          !.rcv.rbuf = @ \o x.sock.rdbuf, !.sock.rdbuf = <<>>]
<1>1. /\ Become(e, z)
      /\ x.sock.destroyed /\ x.sock.phase = "attached" /\ ~Busy(x) /\ Unread(x)
  BY DEF FinalRead
<1>2. /\ Ready(x) /\ x \in Endpoint /\ Local(x) /\ Calm(x) /\ Tidy(x)
      /\ x.ws \in WsStates /\ x.sock \in SockStates /\ x.rcv \in RcvStates
      /\ x.rcv.error \in {"none", "pending", "emitted"}
      /\ x.rcv.rbuf \in Seq(Frames) /\ x.sock.rdbuf \in Seq(Frames)
  BY CleanFacts, ReadyCalm, DueType DEF Ready, Endpoint, RcvStates
<1>3. z \in Endpoint /\ StaysClosing(x, z)
  BY <1>1, AfterFacts DEF Become
<1>4. /\ z.outq = x.outq /\ z.log = x.log
      /\ z.ws = [x.ws EXCEPT !.readyState = "CLOSING"]
      /\ z.sock = [x.sock EXCEPT !.phase = "closing", !.dataListener = FALSE, !.rdbuf = <<>>]
      /\ z.rcv = [x.rcv EXCEPT !.rbuf = @ \o x.sock.rdbuf]
  BY <1>2 DEF Endpoint, SockStates
<1> HIDE DEF x, z
<1>5. z.ws.closeFrameReceived = x.ws.closeFrameReceived
  BY <1>2, <1>4 DEF WsStates
<1>6. /\ z.sock.phase = "closing" /\ ~z.sock.dataListener /\ z.sock.wbuf = x.sock.wbuf
      /\ z.sock.destroyed
  BY <1>1, <1>2, <1>4 DEF SockStates
<1>7. /\ z.rcv.rbuf = x.rcv.rbuf \o x.sock.rdbuf
      /\ z.rcv.inflating = x.rcv.inflating /\ z.rcv.error = x.rcv.error
  BY <1>2, <1>4 DEF RcvStates
<1>8. x.rcv.error = "none" /\ ~x.ws.closeFrameReceived /\ x.sock.dataListener
  <2>1. x.rcv.error = "none" /\ ~x.ws.closeFrameReceived
    BY <1>1, <1>2 DEF Busy, Ticks, Unread
  <2> QED BY <1>1, <1>2, <2>1 DEF Tidy
<1>9. ASSUME NEW s \in Seq(Frames) PROVE Takes(x, s, z, s)
  <2> DEFINE r == x.rcv.rbuf
             k == x.sock.rdbuf
  <2>1. r \in Seq(Frames) /\ k \in Seq(Frames)
    BY <1>2
  <2>2. Due(z, s) = r \o k /\ Due(x, s) = r \o (k \o s)
    BY <1>6, <1>7, <1>8 DEF Due
  <2> HIDE DEF r, k
  <2>3. k \o s \in Seq(Frames) /\ IsPrefixOf(k, k \o s)
    BY <2>1, PrefixOfConcat, ConcatProperties
  <2>4. IsPrefixOf(r \o k, r \o (k \o s))
    BY <2>1, <2>3, PrefixConcat
  <2>5. Got(z) = Got(x)
    BY <1>4, <1>7 DEF Got
  <2> QED BY <1>5, <1>6, <1>8, <2>2, <2>4, <2>5 DEF Takes
<1>10. Calm(z) /\ KeepsOut(x, z)
  BY <1>1, <1>2, <1>6 DEF Calm, KeepsOut
<1>11. \A c \in Seq(Frames) : Gives(x, c, z, c)
  BY <1>3, <1>4, <1>10, KeepsGives
<1>12. Tidy(z)
  BY <1>6, <1>10 DEF Tidy, Calm
<1>13. Serves(x, z)
  BY <1>3, <1>9, <1>11, <1>12 DEF Serves
<1> QED BY <1>1, <1>13, CleanBecome DEF x

(* The socket is let go. *)
LEMMA SocketCloseClean ==
  ASSUME Inv, CleanInv, Advances, NEW e \in Peers, SocketClose(e)
  PROVE  CleanInv'
<1> DEFINE x == ep[e]
           a == [x EXCEPT !.sock.phase = "detached", !.ws.readyState = "CLOSING",
                          !.sock.dataListener = FALSE, !.rcv.ending = TRUE,
                          !.ws.closeTimer = FALSE, !.sock.rdbuf = <<>>]
           z == IF a.rcv.finished \/ a.rcv.error = "emitted" THEN EmitClose(a) ELSE a
<1>1. Become(e, z) /\ x.sock.destroyed
  BY DEF SocketClose
<1>2. /\ Ready(x) /\ x \in Endpoint /\ Local(x) /\ Calm(x)
      /\ x.ws \in WsStates /\ x.sock \in SockStates /\ x.rcv \in RcvStates
      /\ x.rcv.rbuf \in Seq(Frames) /\ x.sock.rdbuf \in Seq(Frames)
      /\ x.ws.closeFrameReceived \in BOOLEAN
      /\ <<>> \in Seq(Frames)
  <2>0. Ready(x)
    BY CleanFacts
  <2> HIDE DEF x
  <2>1. x \in Endpoint /\ Local(x)
    BY <2>0, ReadyCalm
  <2>2. Calm(x)
    BY <2>0, ReadyCalm
  <2>3. x.ws \in WsStates /\ x.sock \in SockStates /\ x.rcv \in RcvStates
    BY <2>1 DEF Endpoint
  <2>4. <<>> \in Seq(Frames)
    OBVIOUS
  <2>5. x.rcv.rbuf \in Seq(Frames) /\ x.sock.rdbuf \in Seq(Frames)
    BY <2>1, <2>4, DueType
  <2>6. x.ws.closeFrameReceived \in BOOLEAN
    BY <2>3 DEF WsStates
  <2> QED BY <2>0, <2>1, <2>2, <2>3, <2>4, <2>5, <2>6
<1>3. z \in Endpoint /\ StaysClosing(x, z)
  BY <1>1, AfterFacts DEF Become
<1>4. /\ a.outq = x.outq /\ a.log = x.log
      /\ a.ws = [x.ws EXCEPT !.readyState = "CLOSING", !.closeTimer = FALSE]
      /\ a.sock = [x.sock EXCEPT !.phase = "detached", !.dataListener = FALSE, !.rdbuf = <<>>]
      /\ a.rcv = [x.rcv EXCEPT !.ending = TRUE]
      /\ a = [x EXCEPT !.ws = a.ws, !.sock = a.sock, !.rcv = a.rcv]
  BY <1>2, ZenonT(60) DEF Endpoint, WsStates, SockStates
<1> HIDE DEF x, a
<1>5. a.ws \in WsStates /\ a.ws.closeFrameReceived = x.ws.closeFrameReceived
  BY <1>2, <1>4 DEF WsStates
<1>6. /\ a.sock \in SockStates /\ a.sock.phase = "detached" /\ ~a.sock.dataListener
      /\ a.sock.wbuf = x.sock.wbuf /\ a.sock.destroyed = x.sock.destroyed
  BY <1>2, <1>4 DEF SockStates
<1>7. /\ a.rcv \in RcvStates /\ a.rcv.rbuf = x.rcv.rbuf
      /\ a.rcv.inflating = x.rcv.inflating /\ a.rcv.error = x.rcv.error
  BY <1>2, <1>4 DEF RcvStates
<1>8. a \in Endpoint
  BY <1>2, <1>4, <1>5, <1>6, <1>7 DEF Endpoint
<1>9. ASSUME NEW s \in Seq(Frames) PROVE Takes(x, s, a, s)
  <2>1. CASE x.ws.closeFrameReceived
    BY <1>2, <1>4, <1>5, <1>7, <2>1 DEF Ready, Takes
  <2>2. CASE ~x.ws.closeFrameReceived /\ x.rcv.error # "none"
    BY <1>5, <1>7, <2>2 DEF Takes
  <2>3. CASE ~x.ws.closeFrameReceived /\ x.rcv.error = "none"
    <3>1. Due(a, s) = x.rcv.rbuf /\ Got(a) = Got(x)
      BY <1>4, <1>6, <1>7 DEF Due, Got
    <3>2. IsPrefixOf(x.rcv.rbuf, Due(x, s))
      <4>1. x.sock.rdbuf \o s \in Seq(Frames)
        BY <1>2, ConcatProperties
      <4> QED BY <1>2, <4>1, PrefixOfConcat, PrefixSelf DEF Due
    <3> QED BY <1>5, <1>6, <2>3, <3>1, <3>2 DEF Takes
  <2> QED BY <1>2, <2>1, <2>2, <2>3
<1>10. CASE a.rcv.finished \/ a.rcv.error = "emitted"
  <2>1. z = EmitClose(a)
    BY <1>10
  <2> HIDE DEF z
  <2>2. Serves(x, z)
    BY <1>1, <1>2, <1>3, <1>4, <1>6, <1>8, <1>9, <2>1, EmitServes
  <2> QED BY <1>1, <2>2, CleanBecome DEF x
<1>11. CASE ~(a.rcv.finished \/ a.rcv.error = "emitted")
  <2>1. z = a
    BY <1>11
  <2> HIDE DEF z
  <2>2. Calm(a) /\ KeepsOut(x, a)
    BY <1>1, <1>2, <1>6 DEF Calm, KeepsOut
  <2>3. \A c \in Seq(Frames) : Gives(x, c, a, c)
    BY <1>3, <1>4, <2>1, <2>2, KeepsGives
  <2>4. Tidy(a)
    BY <1>6, <2>2 DEF Tidy, Calm
  <2>5. Serves(x, a)
    BY <1>8, <1>9, <2>3, <2>4 DEF Serves
  <2> QED BY <1>1, <2>1, <2>5, CleanBecome DEF x
<1> QED BY <1>10, <1>11

-----------------------------------------------------------------------------
(* A connection that has just been opened is clean. *)
LEMMA InitClean == Init => CleanInv
<1> SUFFICES ASSUME Init, NEW e \in Peers
             PROVE  Tidy(ep[e]) /\ Clean(ep[e], Coming(e), ep[Other(e)])
  BY DEF CleanInv
<1>1. Other(e) \in Peers
  BY OtherFacts
<1>2. ep[e] = Opened /\ ep[Other(e)] = Opened /\ chan[Other(e)] = <<>>
  BY <1>1 DEF Init
<1> DEFINE x == Opened
<1>3. <<>> \in Seq(Frames) /\ <<>> \o <<>> = <<>> /\ Len(<<>>) = 0
  <2>1. <<>> \in Seq(Frames)
    OBVIOUS
  <2> QED BY <2>1, ConcatEmptySeq, EmptySeq
<1>4. /\ ~x.sock.destroyed /\ x.sock.wbuf = <<>> /\ x.outq = <<>> /\ x.sock.dataListener
      /\ x.sock.rdbuf = <<>> /\ x.rcv.rbuf = <<>> /\ x.rcv.inflating = "no"
      /\ x.log.delivered = 0 /\ x.log.sent = 0 /\ ~x.ws.closeFrameReceived
  BY DEF Opened
<1> HIDE DEF x
<1>5. Out(x) = <<>> /\ Due(x, <<>>) = <<>> /\ Got(x) = 0
  BY <1>3, <1>4 DEF Out, Due, Got
<1>6. Coming(e) = <<>>
  BY <1>2, <1>3, <1>5 DEF Coming, x
<1>7. Whole(x, <<>>, x)
  BY <1>3, <1>4, <1>5, CountNone DEF Whole
<1>8. CloseIsLast(x, <<>>, x)
  BY <1>3, <1>5 DEF CloseIsLast
<1>9. Tidy(x) /\ Clean(x, <<>>, x)
  BY <1>4, <1>7, <1>8 DEF Tidy, Clean
<1> QED BY <1>2, <1>6, <1>9 DEF x

(* Every action keeps it so. *)
LEMMA NextClean == Inv /\ CleanInv /\ [Next]_vars => CleanInv'
<1> SUFFICES ASSUME Inv, CleanInv, [Next]_vars PROVE CleanInv'
  OBVIOUS
<1>0. Advances
  BY NextAdvances
<1>1. CASE UNCHANGED vars
  BY <1>1 DEF CleanInv, Coming, vars
<1>2. ASSUME NEW e \in Peers, User(e) PROVE CleanInv'
  BY <1>0, <1>2, UserClean
<1>3. ASSUME NEW e \in Peers, Runtime(e) PROVE CleanInv'
  BY <1>0, <1>3, ReceiverClean, CompressDoneClean, FlushClean, ArriveClean,
     ReadKeptClean, SocketEndClean, DestroyClean, FinalReadClean, SocketCloseClean
     DEF Runtime
<1>4. ASSUME NEW e \in Peers, SocketError(e) \/ CloseTimeout(e) PROVE CleanInv'
  BY <1>0, <1>4, DestroyClean
<1> QED BY <1>1, <1>2, <1>3, <1>4 DEF Next

(* A closed endpoint has nothing left to do: its socket is gone, and nothing *)
(* is in its receiver or will come out of it.                                *)
Ceased(x) ==
    /\ x.ws.readyState = "CLOSED"
    /\ x.sock.destroyed /\ x.sock.phase = "detached" /\ x.sock.wbuf = <<>>
    /\ ~Parsing(x) /\ x.rcv.inflating = "no" /\ x.rcv.error # "pending"
    /\ ~Drainable(x) /\ ~Finishable(x)

(* An endpoint that is CLOSED is one. *)
LEMMA ClosedCeases ==
  ASSUME NEW x, Ready(x), x.ws.readyState = "CLOSED"
  PROVE  Ceased(x)
<1>1. /\ Coherent(x) /\ Tidy(x)
      /\ x.rcv.error \in {"none", "pending", "emitted"}
  BY DEF Ready, Local, Endpoint, RcvStates
<1>2. /\ x.sock.phase = "detached" /\ x.sock.destroyed /\ x.rcv.ending /\ x.sock.wbuf = <<>>
      /\ x.rcv.finished \/ x.rcv.error = "emitted"
  BY <1>1 DEF Coherent, Tidy
<1>3. CASE x.rcv.finished
  <2>1. Idle(x)
    BY <1>1, <1>3 DEF Coherent
  <2> QED BY <1>2, <1>3, <2>1 DEF Ceased, Parsing, Idle, Drainable, Finishable
<1>4. CASE x.rcv.error = "emitted"
  <2>1. x.rcv.inflating = "no"
    BY <1>1, <1>4 DEF Coherent
  <2> QED BY <1>2, <1>4, <2>1 DEF Ceased, Parsing, Idle, Drainable, Finishable
<1> QED BY <1>2, <1>3, <1>4

(* So no action of it changes what the program has been told. *)
LEMMA CeasedStill ==
  ASSUME ep \in [Peers -> Endpoint], NEW e \in Peers, Ceased(ep[e]),
         User(e) \/ Runtime(e) \/ SocketError(e) \/ CloseTimeout(e)
  PROVE  \E z : /\ ep' = [ep EXCEPT ![e] = z]
                /\ z.log = ep[e].log /\ z.ws = ep[e].ws /\ z.rcv = ep[e].rcv
<1> DEFINE x == ep[e]
<1>1. /\ x.ws.readyState = "CLOSED"
      /\ x.sock.destroyed /\ x.sock.phase = "detached" /\ x.sock.wbuf = <<>>
      /\ ~Parsing(x) /\ x.rcv.inflating = "no" /\ x.rcv.error # "pending"
      /\ ~Drainable(x) /\ ~Finishable(x)
  BY DEF Ceased
<1>2. CASE \E code \in Codes : UserClose(e, code)
  BY <1>1, <1>2 DEF UserClose, Close, Become
<1>3. CASE CompressDone(e)
  <2>1. PICK n \in 1 .. Len(x.outq) :
           Become(e, Write([x EXCEPT !.outq = SubSeq(@, n + 1, Len(@))], SubSeq(x.outq, 1, n)))
    BY <1>3 DEF CompressDone
  <2> DEFINE y == [x EXCEPT !.outq = SubSeq(@, n + 1, Len(@))]
  <2>2. y.log = x.log /\ y.ws = x.ws /\ y.sock = x.sock /\ y.rcv = x.rcv
    BY DEF Endpoint
  <2>3. Become(e, Write(y, SubSeq(x.outq, 1, n)))
    BY <2>1
  <2> HIDE DEF y
  <2>4. Write(y, SubSeq(x.outq, 1, n)) = y
    BY <1>1, <2>2 DEF Write
  <2> QED BY <2>2, <2>3, <2>4 DEF Become
<1>4. ~User(e) \/ \E code \in Codes : UserClose(e, code)
  BY <1>1 DEF User, UserSend, UserPing, UserTerminate, UserPause, UserResume
<1>5. ~SocketError(e) /\ ~CloseTimeout(e)
  BY <1>1 DEF SocketError, CloseTimeout
<1>6. Runtime(e) => CompressDone(e)
  <2>1. ~ReceiveFrame(e) /\ ~InflateDone(e) /\ ~ReceiverError(e) /\ ~ReceiverDrain(e)
        /\ ~ReceiverFinish(e)
    BY <1>1 DEF ReceiveFrame, InflateDone, ReceiverError, ReceiverDrain, ReceiverFinish
  <2>2. ~Flush(e) /\ ~Arrive(e) /\ ~ReadKept(e) /\ ~SocketEnd(e) /\ ~AutoDestroy(e)
        /\ ~FinalRead(e) /\ ~SocketClose(e)
    BY <1>1 DEF Flush, Arrive, ReadKept, Flowable, SocketEnd, AutoDestroy, FinalRead, SocketClose
  <2> QED BY <2>1, <2>2 DEF Runtime
<1> QED BY <1>2, <1>3, <1>4, <1>5, <1>6

(* No action of one endpoint changes the other one. *)
LEMMA OthersStill ==
  ASSUME ep \in [Peers -> Endpoint], NEW d \in Peers, NEW e \in Peers, d # e,
         User(d) \/ Runtime(d) \/ SocketError(d) \/ CloseTimeout(d)
  PROVE  ep'[e] = ep[e]
<1>1. CASE User(d)
  BY <1>1 DEF User, UserSend, UserPing, UserClose, UserTerminate, UserPause, UserResume, Become
<1>2. CASE Runtime(d)
  <2>1. CASE Flush(d)
    BY <2>1 DEF Flush
  <2>2. CASE Arrive(d)
    BY <2>2 DEF Arrive
  <2>3. CASE ReceiveFrame(d) \/ InflateDone(d) \/ ReceiverError(d) \/ ReceiverDrain(d)
             \/ ReceiverFinish(d)
    BY <2>3 DEF ReceiveFrame, InflateDone, ReceiverError, ReceiverDrain, ReceiverFinish, Become
  <2>4. CASE CompressDone(d) \/ ReadKept(d) \/ SocketEnd(d) \/ AutoDestroy(d)
             \/ FinalRead(d) \/ SocketClose(d)
    BY <2>4 DEF CompressDone, ReadKept, SocketEnd, AutoDestroy, FinalRead, SocketClose, Become
  <2> QED BY <1>2, <2>1, <2>2, <2>3, <2>4 DEF Runtime
<1>3. CASE SocketError(d) \/ CloseTimeout(d)
  BY <1>3 DEF SocketError, CloseTimeout, Become
<1> QED BY <1>1, <1>2, <1>3

-----------------------------------------------------------------------------
(* Whatever the program, the peer and the network do, the handlers of an    *)
(* endpoint leave it coherent.                                              *)
THEOREM Invariance == Spec => []Inv
<1>1. Inv /\ [Next]_vars => Inv'
  BY NextAdvances DEF Advances
<1> QED BY InitInv, <1>1, PTL DEF Spec

(* The types of all variables; no frame carries status 1006. *)
THEOREM TypeCorrect == Spec => []TypeOK
<1>1. Inv => TypeOK
  BY DEF Inv
<1> QED BY Invariance, <1>1, PTL

(* socketOnEnd() runs only for a peer that can send nothing more, and the   *)
(* parts of an endpoint agree on how far its end has got.                   *)
THEOREM ConnectionCoherent == Spec => []ConnectionOK
<1>1. Inv => ConnectionOK
  BY DEF Inv, Local, ConnectionOK
<1> QED BY Invariance, <1>1, PTL

(* emitClose() runs exactly once, when the state becomes CLOSED. *)
THEOREM ClosedOnce == Spec => []CloseOnce
<1>1. Inv => CloseOnce
  BY DEF Inv, Local, Coherent, CloseOnce
<1> QED BY Invariance, <1>1, PTL

(* cleanup() of the compression never meets a message being inflated, and   *)
(* no timer outlives the socket.                                            *)
THEOREM CleanupSafe == Spec => []CleanupIsSafe
<1>1. Inv => CleanupIsSafe
  BY DEF Inv, Local, Coherent, Idle, CleanupIsSafe
<1> QED BY Invariance, <1>1, PTL

(* The socket flows exactly when neither the program nor the receiver holds *)
(* it: pause(), resume(), socketOnData() and receiverOnDrain() agree.       *)
THEOREM FlowCorrect == Spec => []FlowMatchesDemand
<1>1. Inv => FlowMatchesDemand
  BY DEF Inv, Local, FlowOK, FlowMatchesDemand
<1> QED BY Invariance, <1>1, PTL

(* The socket is ended only after the closing handshake or the peer's end. *)
THEOREM EndEarned == Spec => []EndIsEarned
<1>1. Inv => EndIsEarned
  BY DEF Inv, Local, EndOK, EndIsEarned
<1> QED BY Invariance, <1>1, PTL

(* socketOnData() never writes to a receiver that was ended. *)
THEOREM NeverWritesAfterEnd == Spec => []NoWriteAfterEnd
<1>1. Inv => NoWriteAfterEnd
  <2>1. ASSUME Inv, NEW e \in Peers, ep[e].rcv.ending
        PROVE  ~ep[e].sock.dataListener \/ ep[e].sock.endEmitted
    BY <2>1 DEF Inv, Local, Coherent
  <2> QED BY <2>1 DEF NoWriteAfterEnd
<1> QED BY Invariance, <1>1, PTL

(* _readyState only moves forward. *)
THEOREM StateMovesForward == Spec => ReadyStateMonotone
<1>1. Inv /\ [Next]_vars
        => [\A e \in Peers : Rank[ep'[e].ws.readyState] >= Rank[ep[e].ws.readyState]]_vars
  BY NextAdvances DEF Advances
<1> QED BY Invariance, <1>1, PTL DEF Spec, ReadyStateMonotone

(* A status code other than 1006 is given only after every message that the *)
(* peer sent: receiverOnConclude() runs when nothing of it is left in the   *)
(* peer's sender and socket, on the wire, in this socket, in the receiver   *)
(* or in its decompression.                                                 *)
THEOREM CleanlyDelivered == Spec => []CleanDelivery
<1>1. Init => Inv /\ CleanInv
  BY InitInv, InitClean
<1>2. Inv /\ CleanInv /\ [Next]_vars => Inv' /\ CleanInv'
  BY NextClean, NextAdvances DEF Advances
<1>3. CleanInv => CleanDelivery
  BY DEF CleanInv, Clean, Concluded, CleanDelivery
<1> QED BY <1>1, <1>2, <1>3, PTL DEF Spec

(* After 'close' no handler changes what the program was told, the state of *)
(* the WebSocket or the receiver: emitClose() is reached only when nothing  *)
(* but a compression can still call back.                                   *)
THEOREM SilentWhenClosed == Spec => SilentAfterClose
<1> DEFINE Still(e) == ep[e].ws.readyState = "CLOSED" =>
                          /\ ep'[e].log = ep[e].log
                          /\ ep'[e].ws = ep[e].ws
                          /\ ep'[e].rcv = ep[e].rcv
<1>1. Init => Inv /\ CleanInv
  BY InitInv, InitClean
<1>2. Inv /\ CleanInv /\ [Next]_vars => Inv' /\ CleanInv'
  BY NextClean, NextAdvances DEF Advances
<1>3. Inv /\ CleanInv /\ [Next]_vars => [\A e \in Peers : Still(e)]_vars
  <2> SUFFICES ASSUME Inv, CleanInv, Next, NEW e \in Peers, ep[e].ws.readyState = "CLOSED"
               PROVE  /\ ep'[e].log = ep[e].log
                      /\ ep'[e].ws = ep[e].ws
                      /\ ep'[e].rcv = ep[e].rcv
    OBVIOUS
  <2>1. ep \in [Peers -> Endpoint] /\ Ready(ep[e])
    BY CleanFacts
  <2>2. PICK d \in Peers : User(d) \/ Runtime(d) \/ SocketError(d) \/ CloseTimeout(d)
    BY DEF Next
  <2>3. CASE d = e
    <3>1. Ceased(ep[e])
      BY <2>1, ClosedCeases
    <3>2. PICK z : ep' = [ep EXCEPT ![e] = z] /\ z.log = ep[e].log /\ z.ws = ep[e].ws /\ z.rcv = ep[e].rcv
      BY <2>1, <2>2, <2>3, <3>1, CeasedStill
    <3>3. ep'[e] = z
      BY <2>1, <3>2
    <3> QED BY <3>2, <3>3
  <2>4. CASE d # e
    <3>1. ep'[e] = ep[e]
      BY <2>1, <2>2, <2>4, OthersStill
    <3> QED BY <3>1
  <2> QED BY <2>3, <2>4
<1> QED BY <1>1, <1>2, <1>3, PTL DEF Spec, SilentAfterClose
=============================================================================
