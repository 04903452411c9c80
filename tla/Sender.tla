------------------------------- MODULE Sender -------------------------------
(***************************************************************************)
(* The Sender of lib/sender.js with the guards its only caller,            *)
(* lib/websocket.js, puts in front of it: a queue in front of a socket in  *)
(* which one frame at a time may be away at the compressor.                *)
(*                                                                         *)
(* JavaScript runs to completion, so an action is one call of the program  *)
(* or one callback of the runtime.  Payloads are their sizes.              *)
(***************************************************************************)
EXTENDS Integers, Sequences, SequencesExt

CONSTANTS
    PerMessageDeflate,   \* is the extension negotiated?
    NoContextTakeover,   \* was our side's *_no_context_takeover negotiated?
    Threshold,           \* options.threshold of permessage-deflate
    Sizes,               \* byte lengths of the data fragments
    MaxCalls,            \* bound: calls accepted by the sender
    MaxDiscarded         \* bound: bytes counted by sendAfterClose()

ASSUME SenderAssumption ==
    /\ PerMessageDeflate \in BOOLEAN
    /\ NoContextTakeover \in BOOLEAN
    /\ Threshold \in Nat
    /\ Sizes \subseteq Nat
    /\ MaxCalls \in Nat
    /\ MaxDiscarded \in Nat

VARIABLES
    readyState,      \* websocket._readyState: "OPEN" or "CLOSING" (or later)
    socket,          \* "open", "ended" (end() called) or "destroyed"
    firstFragment,   \* _firstFragment
    compress,        \* _compress, latched on the first fragment of a message
    bufferedBytes,   \* _bufferedBytes
    deflating,       \* _deflating
    queue,           \* _queue
    job,             \* the frame at the compressor, as a sequence: <<>> or <<p>>
    written,         \* history: frames handed to socket.write()
    flushed,         \* how many of them had their callback run
    accepted,        \* history: frames asked for, in call order
    answers,         \* answers[c]: how often the callback of call c has run
    discarded        \* bytes counted by sendAfterClose()

vars == <<readyState, socket, firstFragment, compress, bufferedBytes,
          deflating, queue, job, written, flushed, accepted, answers, discarded>>

-----------------------------------------------------------------------------
Opcodes == {"data", "cont", "ping", "pong", "close"}

(* A frame with what dispatch() is told about it.  `compress` is dispatch's *)
(* second argument, hence also whether the payload on the wire is deflated. *)
Params == [call : 1 .. MaxCalls, opcode : Opcodes, size : Sizes \cup {1, 2},
           fin : BOOLEAN, rsv1 : BOOLEAN, compress : BOOLEAN]

Bytes(ps) ==
    LET sum[n \in 0 .. Len(ps)] == IF n = 0 THEN 0 ELSE sum[n - 1] + ps[n].size
    IN  sum[Len(ps)]

Calls(ps) == {p.call : p \in ToSet(ps)}

Answer(cs, counts) ==
    [c \in DOMAIN counts |-> IF c \in cs THEN counts[c] + 1 ELSE counts[c]]

Init ==
    /\ readyState = "OPEN"
    /\ socket = "open"
    /\ firstFragment = TRUE
    /\ compress = FALSE
    /\ bufferedBytes = 0
    /\ deflating = FALSE
    /\ queue = <<>>
    /\ job = <<>>
    /\ written = <<>>
    /\ flushed = 0
    /\ accepted = <<>>
    /\ answers = <<>>
    /\ discarded = 0

-----------------------------------------------------------------------------
(* sendFrame() for each of ps in turn.  A write after end() or destroy()    *)
(* fails: the runtime calls back with an error and destroys the socket.     *)
SendFrames(ps, counts) ==
    IF socket = "open"
      THEN /\ written' = written \o ps
           /\ answers' = counts
           /\ UNCHANGED socket
      ELSE /\ answers' = Answer(Calls(ps), counts)
           /\ socket' = "destroyed"
           /\ UNCHANGED written

(* Faulty variant: the waiting bytes are not counted. *)
EnqueueUncounted(p) ==
    /\ queue' = Append(queue, p)
    /\ answers' = Append(answers, 0)
    /\ UNCHANGED <<bufferedBytes, deflating, job, written, socket>>

Enqueue(p) ==
    /\ queue' = Append(queue, p)
    /\ bufferedBytes' = bufferedBytes + p.size
    /\ answers' = Append(answers, 0)
    /\ UNCHANGED <<deflating, job, written, socket>>

(* dispatch(), or sendFrame() where the code calls it directly. *)
Dispatch(p) ==
    IF p.compress
      THEN /\ bufferedBytes' = bufferedBytes + p.size
           /\ deflating' = TRUE
           /\ job' = <<p>>
           /\ answers' = Append(answers, 0)
           /\ UNCHANGED <<queue, written, socket>>
      ELSE /\ SendFrames(<<p>>, Append(answers, 0))
           /\ UNCHANGED <<bufferedBytes, deflating, job, queue>>

(* Faulty variant: a frame that needs no compression overtakes the queue. *)
SubmitOvertakes(p) ==
    /\ accepted' = Append(accepted, p)
    /\ IF deflating /\ p.compress THEN Enqueue(p) ELSE Dispatch(p)

(* The tail shared by send(), ping(), pong() and close(). *)
Submit(p) ==
    /\ accepted' = Append(accepted, p)
    /\ IF deflating THEN Enqueue(p) ELSE Dispatch(p)

NextCall == Len(accepted) + 1

-----------------------------------------------------------------------------
(* Faulty variant: dispatch() is given the fragment's own RSV1 bit. *)
LatchUnlatched(size, asked) ==
    IF firstFragment
      THEN IF asked /\ NoContextTakeover THEN size >= Threshold ELSE asked
      ELSE FALSE

(* Whether a message is compressed is decided on its first fragment and     *)
(* holds for the others (_compress).                                        *)
Latch(size, asked) ==
    IF firstFragment
      THEN IF asked /\ NoContextTakeover THEN size >= Threshold ELSE asked
      ELSE compress

(* WebSocket.send() in state OPEN, then Sender.send(). *)
Send(size, wantCompress, fin) ==
    /\ readyState = "OPEN"
    /\ NextCall <= MaxCalls
    /\ compress' = Latch(size, wantCompress /\ PerMessageDeflate)
    /\ firstFragment' = fin
    /\ Submit([call |-> NextCall, size |-> size, fin |-> fin,
               opcode |-> IF firstFragment THEN "data" ELSE "cont",
               rsv1 |-> firstFragment /\ compress',
               compress |-> PerMessageDeflate /\ compress'])
    /\ UNCHANGED <<readyState, flushed, discarded>>

ControlFrame(op, size) == [call |-> NextCall, opcode |-> op, size |-> size,
                           fin |-> TRUE, rsv1 |-> FALSE, compress |-> FALSE]

(* Faulty variant: a pong is sent whatever the state of the connection. *)
PingOrPongAnyState(op) ==
    /\ NextCall <= MaxCalls
    /\ Submit(ControlFrame(op, 1))
    /\ UNCHANGED <<readyState, firstFragment, compress, flushed, discarded>>

(* ping() and pong(), the answer to a received ping included. *)
PingOrPong(op) ==
    /\ readyState = "OPEN"
    /\ NextCall <= MaxCalls
    /\ Submit(ControlFrame(op, 1))
    /\ UNCHANGED <<readyState, firstFragment, compress, flushed, discarded>>

(* close(code) with a valid code, in state OPEN: two bytes of payload. *)
Close ==
    /\ readyState = "OPEN"
    /\ NextCall <= MaxCalls
    /\ readyState' = "CLOSING"
    /\ Submit(ControlFrame("close", 2))
    /\ UNCHANGED <<firstFragment, compress, flushed, discarded>>

(* send(), ping() or pong() in another state: the bytes are counted for     *)
(* bufferedAmount, the callback runs at once, the sender sees nothing.      *)
SendAfterClose(size) ==
    /\ readyState # "OPEN"
    /\ discarded + size <= MaxDiscarded
    /\ bufferedBytes' = bufferedBytes + size
    /\ discarded' = discarded + size
    /\ UNCHANGED <<readyState, socket, firstFragment, compress, deflating, queue,
                   job, written, flushed, accepted, answers>>

-----------------------------------------------------------------------------
(* The length of the longest prefix of q that needs no compression. *)
Ready(q) ==
    CHOOSE n \in 0 .. Len(q) :
        /\ \A i \in 1 .. n : ~q[i].compress
        /\ n < Len(q) => q[n + 1].compress

(* Faulty variant: dequeue() takes one frame instead of looping. *)
ReleaseOne ==
    LET one  == IF queue = <<>> THEN <<>> ELSE <<Head(queue)>>
        away == one # <<>> /\ Head(queue).compress
        out  == job \o (IF away THEN <<>> ELSE one)
    IN /\ SendFrames(out, answers)
       /\ bufferedBytes' = bufferedBytes - Bytes(out)
       /\ job' = IF away THEN one ELSE <<>>
       /\ deflating' = away
       /\ queue' = IF queue = <<>> THEN <<>> ELSE Tail(queue)

(* The compressed frame goes out and dequeue() hands over what waits behind *)
(* it, up to the next frame to compress.                                    *)
Release ==
    LET n    == Ready(queue)
        rest == SubSeq(queue, n + 1, Len(queue))
        out  == job \o SubSeq(queue, 1, n)
    IN /\ SendFrames(out, answers)
       /\ bufferedBytes' = bufferedBytes - Bytes(out)
       /\ job' = IF rest = <<>> THEN <<>> ELSE <<Head(rest)>>
       /\ deflating' = (rest # <<>>)
       /\ queue' = IF rest = <<>> THEN <<>> ELSE Tail(rest)

(* Faulty variants: only the compressed call is answered; or the compressed *)
(* frame is written all the same, for lack of a return.                     *)
FailWaitingForgets ==
    /\ job' = <<>>
    /\ answers' = Answer(Calls(job), answers)
    /\ UNCHANGED <<bufferedBytes, deflating, queue, written, socket>>

FailWaitingFallsThrough ==
    /\ job' = <<>>
    /\ SendFrames(job, Answer(Calls(job \o queue), answers))
    /\ UNCHANGED <<bufferedBytes, deflating, queue>>

(* The socket was destroyed meanwhile: every waiting call is answered with  *)
(* an error, and the sender stays deflating for ever.                       *)
FailWaiting ==
    /\ job' = <<>>
    /\ answers' = Answer(Calls(job \o queue), answers)
    /\ UNCHANGED <<bufferedBytes, deflating, queue, written, socket>>

(* The compressor calls back.  The second guard is the event loop: the      *)
(* socket's 'error' event is a nextTick away from its destruction, the      *)
(* compressor a later macrotask.                                            *)
CompressDone ==
    /\ job # <<>>
    /\ ~(socket = "destroyed" /\ readyState = "OPEN")
    /\ IF socket = "destroyed" THEN FailWaiting ELSE Release
    /\ UNCHANGED <<readyState, firstFragment, compress, flushed, accepted, discarded>>

-----------------------------------------------------------------------------
(* The runtime reports on the oldest write, successful or not. *)
WriteCallback ==
    /\ flushed < Len(written)
    /\ flushed' = flushed + 1
    /\ answers' = Answer({written[flushed + 1].call}, answers)
    /\ UNCHANGED <<readyState, socket, firstFragment, compress, bufferedBytes,
                   deflating, queue, job, written, accepted, discarded>>

(* socketOnEnd(), or the end() that finishes a closing handshake. *)
SocketEnd ==
    /\ socket = "open"
    /\ socket' = "ended"
    /\ readyState' = "CLOSING"
    /\ UNCHANGED <<firstFragment, compress, bufferedBytes, deflating, queue, job,
                   written, flushed, accepted, answers, discarded>>

(* The connection breaks; the 'error' event is still to come. *)
SocketFail ==
    /\ socket # "destroyed"
    /\ socket' = "destroyed"
    /\ UNCHANGED <<readyState, firstFragment, compress, bufferedBytes, deflating,
                   queue, job, written, flushed, accepted, answers, discarded>>

(* socketOnError(), or socketOnClose() when there was no error. *)
SocketErrorEvent ==
    /\ socket = "destroyed"
    /\ readyState = "OPEN"
    /\ readyState' = "CLOSING"
    /\ UNCHANGED <<socket, firstFragment, compress, bufferedBytes, deflating,
                   queue, job, written, flushed, accepted, answers, discarded>>

(* terminate(), or the closing handshake timer. *)
Terminate ==
    /\ socket # "destroyed"
    /\ readyState' = "CLOSING"
    /\ socket' = "destroyed"
    /\ UNCHANGED <<firstFragment, compress, bufferedBytes, deflating, queue, job,
                   written, flushed, accepted, answers, discarded>>

Next ==
    \/ \E size \in Sizes, want \in BOOLEAN, fin \in BOOLEAN : Send(size, want, fin)
    \/ \E op \in {"ping", "pong"} : PingOrPong(op)
    \/ Close
    \/ \E size \in Sizes : SendAfterClose(size)
    \/ CompressDone
    \/ WriteCallback
    \/ SocketEnd
    \/ SocketFail
    \/ SocketErrorEvent
    \/ Terminate

Spec == Init /\ [][Next]_vars

(* zlib answers every job, the kernel takes or fails every write, and a     *)
(* pending 'error' event is emitted.  No call of the program is assumed.    *)
FairSpec == /\ Spec
            /\ WF_vars(CompressDone)
            /\ WF_vars(WriteCallback)
            /\ WF_vars(SocketErrorEvent)

-----------------------------------------------------------------------------
(* Types, and when a frame may wait: the queue is used only behind an       *)
(* outstanding compression, and only compressed frames are away.            *)
StructOK ==
    /\ readyState \in {"OPEN", "CLOSING"}
    /\ socket \in {"open", "ended", "destroyed"}
    /\ firstFragment \in BOOLEAN
    /\ compress \in BOOLEAN
    /\ deflating \in BOOLEAN
    /\ queue \in Seq(Params)
    /\ job \in Seq(Params)
    /\ Len(job) <= 1
    /\ job # <<>> => job[1].compress /\ deflating
    /\ ~deflating => job = <<>> /\ queue = <<>>
    /\ deflating /\ job = <<>> => socket = "destroyed"
    /\ written \in Seq(Params)
    /\ accepted \in Seq(Params)
    /\ flushed \in Nat
    /\ flushed <= Len(written)
    /\ answers \in Seq(Nat)
    /\ Len(answers) = Len(accepted)

(* Every variable has its type, and a frame waits in the queue only behind  *)
(* an outstanding compression (_deflating, _queue of the Sender).           *)
TypeOK ==
    /\ StructOK
    /\ bufferedBytes \in Nat
    /\ discarded \in Nat

(* Order: while the socket lives, what was handed to it, what is at the     *)
(* compressor and what is queued are, in that order, what was asked for,    *)
(* unless a write met a socket already ended.                               *)
SendOrder ==
    socket # "destroyed" => written \o job \o queue = accepted

(* bufferedAmount: while the socket lives the counter is exactly the bytes  *)
(* waiting in the sender plus those counted by sendAfterClose(), through    *)
(* the += and -= of enqueue(), dequeue() and dispatch().                    *)
BufferedExact ==
    socket # "destroyed" => bufferedBytes = discarded + Bytes(job) + Bytes(queue)

(* No callback runs twice, although a call can be answered by the runtime's *)
(* write, by a failed write and by the sweep in dispatch()'s callback.      *)
AnsweredOnce == \A c \in DOMAIN answers : answers[c] <= 1

(* Frame i of ps belongs to a message, and frame j is the one before it.    *)
InMessage(ps, i) == ps[i].opcode \in {"data", "cont"}

Previous(ps, i, j) ==
    /\ j \in 1 .. (i - 1)
    /\ InMessage(ps, j)
    /\ \A k \in (j + 1) .. (i - 1) : ~InMessage(ps, k)

Framed(ps) ==
    \A i \in 1 .. Len(ps) : InMessage(ps, i) =>
        LET p == ps[i]
        IN  /\ p.opcode = "cont" <=> \E j \in 1 .. (i - 1) : Previous(ps, i, j) /\ ~ps[j].fin
            /\ p.opcode = "cont" => ~p.rsv1
            /\ p.opcode = "cont" =>
                  \A j \in 1 .. (i - 1) : Previous(ps, i, j) => p.compress = ps[j].compress
            /\ p.opcode = "data" => p.rsv1 = p.compress

(* The peer can decode what is written: continuation frames continue an     *)
(* unfinished message and only those, RSV1 appears on first fragments only, *)
(* and there it tells of every fragment of the message whether its payload  *)
(* is deflated.                                                             *)
WellFramed == Framed(written)

(* A close frame is the last frame asked for, so the last one written: a    *)
(* pong for a ping that arrives during the closing handshake is not sent.   *)
CloseIsLast ==
    \A i \in DOMAIN accepted : accepted[i].opcode = "close" => i = Len(accepted)

(* Every call is answered: its callback runs, with or without an error,     *)
(* whenever the socket is lost and whatever is at the compressor then.      *)
EveryCallAnswered ==
    \A c \in 1 .. MaxCalls : (c \in DOMAIN answers) ~> (c \in DOMAIN answers /\ answers[c] > 0)

(* The sender implements the abstract log of FrameLog.tla. *)
Log == INSTANCE FrameLog WITH Frame <- Params, broken <- (socket # "open")

ImplementsLog == Log!Spec
=============================================================================
