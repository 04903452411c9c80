# A TLA+ model of the WebSocket library

The repository is a Node.js WebSocket library: `lib/websocket.js` (a
connection), `lib/sender.js` and `lib/receiver.js` (its two directions),
`lib/permessage-deflate.js` with `lib/limiter.js` (compression),
`lib/websocket-server.js` (upgrades and client tracking), `lib/stream.js` (a
duplex stream over a connection) and small pure modules. This directory models
the parts whose behaviour depends on the order of events, checks them with TLC
and proves what matters most with TLAPS.

## Inventory

| Part | State | Operations | What is hard | What makes it correct |
|---|---|---|---|---|
| Sender | `_queue`, `_deflating`, `_bufferedBytes`, `_compress`, `_firstFragment` | `send`, `ping`, `pong`, `close`; the compressor's callback; write callbacks | a frame at the compressor while others are asked for; the socket lost meanwhile | call order, framing, exact byte count, every callback once |
| WebSocket | `_readyState`, `_closeFrameSent/Received`, `_closeTimer`, `_paused` | `send`, `ping`, `pong`, `close`, `terminate`, `pause`, `resume`; six listeners of the receiver and four of the socket | crossing close frames, errors during the closing handshake, `'finish'` and `'close'` in either order, two reasons to pause | one `'close'`, no lost message before a close frame, the handshake ends |
| Receiver | buffered chunks, parser state, fragments, stream flags | `write`, `end`; `'message'`, `'ping'`, `'pong'`, `'conclude'`, `'error'`, `'drain'`, `'finish'` | parsing is suspended while zlib works; chunks cut frames anywhere | independence of chunking, limits, protocol errors |
| PerMessageDeflate, Limiter | two zlib streams, their callback; `pending`, `jobs` (shared by the process) | `compress`, `decompress`, `cleanup`, `offer`, `accept` | `cleanup()` with a job running or queued | no slot lost, each callback once, negotiated parameters within the offer |
| WebSocketServer | `_state`, `clients`, `_shouldEmitClose`, listeners | `handleUpgrade`, `completeUpgrade`, `close` | asynchronous `verifyClient`, code of the program inside an upgrade, `close()` at any time | `'close'` when all connections are closed, once per call; no late connection |
| Client handshake | the request, `_redirects` | `initAsClient`, `abortHandshake` | redirects, timeout and abort racing the response | one outcome for one attempt |
| createWebSocketStream | the duplex's flags, `terminateOnDestroy` | `_write`, `_final`, `_read`, `_destroy` | destroy, end and error in any state of the WebSocket | callbacks once, end after the last message |
| Header parsers, validation, masking, events | none, or a listener | pure functions | boundaries | a reference definition |

Parts interact by synchronous calls (program -> WebSocket -> Sender -> socket),
by events of Node.js streams (socket -> WebSocket -> Receiver -> WebSocket -> program)
and by callbacks (zlib -> limiter -> Sender/Receiver). JavaScript runs to completion,
so concurrency is the order in which calls of the program and callbacks of the
runtime come. In every module an action is one such call or callback, whole.

## Modules

| Module | Models |
|---|---|
| `FrameLog` | abstract: frames asked for come out in that order, until the socket is lost |
| `Sender` | `lib/sender.js` with the guards `lib/websocket.js` puts in front of it |
| `SenderProofs` | proofs about `Sender`, refinement of `FrameLog` included |
| `WebSocket` | two connected endpoints of `lib/websocket.js`, each with its sender, receiver and socket |
| `MCWebSocket` | its instance for TLC: a client and a server |
| `WebSocketProofs` | proofs about `WebSocket` |
| `PermessageDeflate` | the limiter and the zlib streams of all connections of a process |
| `MCPermessageDeflate` | its instance for TLC: a server's and a client's connection |
| `PermessageDeflateProofs` | proofs about `PermessageDeflate` |
| `WebSocketServer` | `lib/websocket-server.js` |
| `MCWebSocketServer` | its options for TLC |
| `WebSocketServerProofs` | proofs about `WebSocketServer` |
| `Framing` | operators: frames as bytes, masking, status codes, UTF-8 |
| `FramingProofs` | proofs that what a frame carries survives the wire, and about the bytes of a stream of frames |
| `FrameDecoder` | abstract: what a receiver makes of a stream of frames |
| `Receiver` | `lib/receiver.js`, byte by byte |
| `MCReceiver` | its streams for TLC |
| `ReceiverProofs` | proofs about `Receiver`, refinement of `FrameDecoder` included |
| `Negotiation` | operators: `offer`, `accept` and their helpers in `lib/permessage-deflate.js` |
| `ClientHandshake` | `initAsClient` and `abortHandshake` in `lib/websocket.js` |
| `MCClientHandshake` | its clients and servers for TLC |
| `ClientHandshakeProofs` | proofs about `ClientHandshake` and `Negotiation` |
| `WebSocketStream` | `lib/stream.js` |
| `WebSocketStreamProofs` | proofs about `WebSocketStream` |

`ClientHandshake` ends where `WebSocket` begins, with the `'open'` event.
`WebSocket` contains a sender and a receiver in the form `Sender` and
`Receiver` show them to have, and `PermessageDeflate` is what the two call.
`WebSocketStream` sits on a WebSocket of which it assumes what the checks of
`ClientHandshake` and `WebSocket` show.

### Sender

`queue`, `deflating`, `bufferedBytes`, `compress` and `firstFragment` are the
fields of the same name; `job` is the frame at the compressor; `socket` says
whether a write can succeed. `Submit` is the tail of all four methods: `Enqueue`
behind an outstanding compression, `Dispatch` otherwise. `CompressDone` is the
callback in `dispatch()`: `Release` sends the frame and runs `dequeue()`, whose
loop stops at the next frame that needs compression; `FailWaiting` is its branch
for a destroyed socket. `accepted`, `written` and `answers` are history. A
payload is its length: the threshold and `bufferedAmount` depend on nothing else.

`CompressDone` is disabled between a failure of the socket and its `'error'`
event: that event is a `process.nextTick` away and zlib's callback is a later
macrotask.

### WebSocket

`ep[e]` is the endpoint's state: `ws` (fields of the WebSocket), `outq` (what the
sender holds back), `sock` (the `net.Socket`), `rcv` (the receiver), `log`
(history). The listeners are operators from endpoint states to endpoint states,
named after them, so that a listener that calls `close()`, which calls the sender,
which calls `socket.write()`, is one step, as in JavaScript. `chan[e]` holds the
frames on the wire. Frames are indivisible and a data frame is a whole message:
cuts inside a frame are the subject of `Receiver`. `"big"` stands for
a message over the peer's `maxPayload`, `z` for a compressed one.

The sender is `outq`: `Submit` holds a frame back exactly when the sender
of `Sender.tla` would, `CompressDone` releases the same prefix; `SendOrder` and
its proof justify the abstraction. The event loop is
`Running` (JavaScript is on the stack: the receiver's loop, or
`socketOnClose()` with the last chunk in the receiver) and `Busy` (nextTicks are
due): a callback of the outside world needs `~Busy`. `socketOnClose()` is two
steps, `FinalRead` and `SocketClose`, because the receiver may call the program
between them.

Simplifications, all in the direction of fewer states:
- `process.nextTick(resume, socket)` of `receiverOnConclude()` and
  `receiverOnError()` is part of the listener. A `pause()` of the program in the
  same tick, which the code would undo, therefore stays in force in the model.
- The duplicate listeners a program could install or remove are not modelled.
- What the program does in a listener is its next step; it may call anything.

### PermessageDeflate

`streams[c].deflate` and `.inflate` are `_deflate` and `_inflate` of connection
`c`, `callback` their `kCallback` while a job runs; `concurrency`, `pending` and
`jobs` are the limiter's. `Run` is `Limiter[kRun]()`: a call (`Compress`,
`Decompress`) or an answer (`OnDeflateFlush`, `OnInflateFlush`, `InflateOnError`,
`Cleanup`) runs it in the same step, so the next job, perhaps of another connection,
starts before the caller of the first one learns anything, as in the code. When
`Cleanup` closes a deflate stream at work it answers the job itself and leaves the
callback of `flush()` in `stale`: `OnStaleFlush` is its later run.

A frame is its number in its direction, and what a zlib stream remembers is the
first frame of its dictionary (`base`). `dict` is the same for the peer, from RFC
7692 alone: its dictionary starts again after a message without context takeover or
behind a deflate stream it ended. `DictionariesAgree` compares the two.

The guards of `Compress`, `Decompress` and `Cleanup` are those of the callers: the sender
has one frame at the compressor at a time (`Sender`), the receiver inflates one frame at
a time and none after an error, and `emitClose()` runs when nothing is being
inflated: that is `CleanupIsSafe` of `WebSocket`, proved there, and needed here,
because the callback of `_inflate.flush()` does not look whether the stream is gone.
From zlib itself it is assumed that a write that failed raises `'error'` and
calls back nothing behind it, that a closed stream still calls back `flush()`, and that
the rest of a message given to a reset inflater may or may not look valid.
`concurrencyLimit: 0`, which means no limit, is left out. What `params` holds is a
constant; how it is negotiated is the subject of `Negotiation`.

### WebSocketServer

`conn[c]` says how far a connection is; `Request`, `Verified` and `Admit` are
`handleUpgrade()` and `completeUpgrade()`, cut where code of the program runs:
`verifyClient` with two arguments, and `handleProtocols` and the listeners of
`'headers'`. While a connection is `"upgrading"` JavaScript is inside
`completeUpgrade()`, so nothing else happens but, if `options.reentrant`, calls of
`close()`. `ticks` counts the `emitClose()` calls given to `process.nextTick`,
`HttpClosed` is the callback of the internal HTTP server, which waits for all of
its sockets, the upgraded ones included. `answers` records the callbacks. All
options are a variable set in `Init`, so one run covers every kind of server.
A synchronous `verifyClient` that calls `close()` itself is the asynchronous
case answered at once. Not modelled: a program that answers `verifyClient` twice
or hands the same socket to `handleUpgrade()` twice (the code throws), and what
it may do to the raw socket.

### Receiver

`chunks` holds the bytes written and not consumed, in the chunks they came in;
`state`, `payloadLength`, `totalPayloadLength`, `messageLength` and the rest are the
fields of the same name. `Step` is one turn of the loop in `startLoop()`; the loop
runs until it lacks bytes, hands a frame to zlib or fails, and `Write` and
`InflateDone` enter it again. The streams are given by a constant, `Cases`, as
frames; `Octets` of `Framing`, which is `Sender.frame()`, turns them into bytes,
and where the bytes are cut is nondeterministic. zlib is a constant operator, and
calls back at any time.

`FrameDecoder` says what has to come out: the events of the frames in their order,
up to the first that is wrong, and the error code of that one. It reads frames, not
bytes, so `Receiver` implements it (`ImplementsDecoder`) only if no cut, no
callback and no width of the length field makes a difference. `maxPayload` is kept
at its width (`ToInt32`, with a small `IntRange` for TLC).

### ClientHandshake and Negotiation

Requests are numbered, a redirect makes the next one. `alive` are the requests with
a connection, `due` those destroyed before an answer, whose `'error'` is to come,
`kAborted` those with the mark of that name. `ticks` counts the
`emitErrorAndClose()` calls given to `process.nextTick`, `dying` holds the events a
destroyed socket still emits. What the listeners of `'redirect'`, `'upgrade'` and
`'unexpected-response'` may do (close the WebSocket, destroy the request, take it
over) is part of the action that runs them.

A server of this package answers an upgrade as `handleUpgrade()` and
`completeUpgrade()` do, with `AcceptAsServer` of its own options; other servers
answer with any reply of the constant `Foreign`. An option is undefined, true,
false or a window; parameters travel through `Wire`, which is what `format()` and
`parse()` make of them. `Compatible` is what RFC 7692 asks of the two ends.

### WebSocketStream

`ws` is the WebSocket as a stream sees it: state, socket, pause, and messages the
receiver holds. `duplex` has the flags of Node's stream and the state of the
callbacks of `_write()`, `_final()` and `_destroy()`. `ticks` is the queue of
`process.nextTick` (`'end'`, `'finish'`, `'error'`, the callback of `_destroy()` and
`emitClose()` of stream.js). Events of the WebSocket come when it is empty, calls
of the program at any time, since a listener may make them. The order of Node's
own steps is external and taken from Node 15 and later, where `_final()` is
called in `end()`.

## Runs

| Run | Shows |
|---|---|
| `Sender_all` | order, framing, byte count, callbacks at most once, close frame last, and the refinement of `FrameLog`: four calls, sizes on both sides of the threshold, fragments, control frames, the socket ended or lost at any time; every accepted call answered, under fairness |
| `WebSocket_safety` | two endpoints: two messages one way and one the other, compressed or not, over the limit or not, `close()` and `terminate()` on both sides, `pause()` and `resume()`, a failing network |
| `WebSocket_live` | the closing handshake ends on both sides without the timer where no program pauses, and by the timer where one does and never resumes: a message of the client, a ping of the server, the pong queueing behind the message |
| `WebSocket_invalid` | expected violation: `close()` with refused arguments, see Findings |
| `Receiver_all` | some 6,600 streams of up to four frames, legal and not, cut anywhere: the parser implements `FrameDecoder`, keeps the limit, and leaves nothing complete unread |
| `ClientHandshake_all` | one outcome for one attempt, no connection left behind, agreement on the extension for all pairs of 225 options, and an end of every handshake that has a timeout |
| `WebSocketStream_all` | a stream over a WebSocket that is opened, closed, paused, failing or lost in any order: orderly events, no swallowed error, and `'close'` |
| `PermessageDeflate_all` | two connections, up to two frames a direction, a limit of one or two: no slot lost, no callback lost or repeated, the dictionaries agree, every job answered under fairness of zlib |
| `PermessageDeflate_cleanup` | expected violation: a stream created after `cleanup()`, see Findings |
| `PermessageDeflate_toolong` | expected violation: an oversized message reported as invalid data, see Findings |
| `WebSocketServer_all` | `'close'` of a server with any options: three connections, three calls of `close()`, inside upgrades too |
| `WebSocketServer_reentrant` | expected violation: `close()` inside an upgrade, see Findings |

Bounds. Four calls let one frame be at the compressor, one to be compressed and
one not wait behind it, and one come later: the longest pattern `dequeue()`
distinguishes. A high-water mark of one or two frames makes the receiver's buffer
fill with one or two messages. A message each way makes
the queue, the receiver and the wire hold something while close frames cross; a second one of
the client can be at its compressor when the first has made the server fail and end, so that it is
written to a socket that `socketOnEnd()` ended. Pings are in `WebSocket_live`, whose pong queues
behind a message.
Three connections let a client leave while another stays and a third is
upgrading; three calls of `close()` cover running, closing and closed.
Two connections have up to four jobs, so that with a limit of one three of them wait
and with a limit of two slots are taken by one connection and by both; the second frame of a
direction is the first that can miss something of an earlier one, and only the direction
that is server to client has two.
Four frames are a fragmented message with a control frame inside and a frame
behind it. Two redirects are one followed by another that is one too many or
not; a window of 9, 10 or 12 bits is below, at or above another. Four messages and
a high-water mark of two fill a stream's buffer twice, with messages of the receiver coming after it.
`MaxCalls`, `MaxDiscarded`, `MaxMessages`, `MaxPings`, `MaxFrames`, `MaxCloses` and `maxRedirects` are the bounds
on histories; no other counter is cut. The theorems have none of them fixed.

`CHECK_DEADLOCK FALSE` is in every configuration because these systems do stop:
a closed connection does nothing more.

Fairness. `WF_vars(Runtime(e))`: zlib calls back, the kernel takes what is
written and delivers what is on the wire, nextTicks run. Each such step uses
something up, so an endpoint's runtime steps cannot go on for ever and one
condition for all of them is enough. `ClosesWithTimer` supposes `TimersFire`, strong
fairness of `CloseTimeout`: once due, a timer stays due, however often calls of the
program make the loop busy in between. `ClosesUnpaused` supposes no timer but that no
program pauses. Nothing is assumed of programs otherwise; for
the server nothing is assumed of clients either, and `CloseIsAnswered` is
conditional on the sockets being gone. `PermessageDeflate_all` assumes that each
stream works off what it was given, by `flush()` or by an error. `Sender_all` assumes that a write is
completed or failed by the kernel, a job by zlib, and a pending `'error'` emitted.
`Receiver_all` assumes that zlib answers; the socket need not deliver.
`ClientHandshake_all` assumes ticks, the events of destroyed sockets and requests, and
the timer of a request that has no answer; servers need not answer.
`WebSocketStream_all` assumes ticks, that a program reads what there is to read, that
the WebSocket emits what it holds and that one that is closing gets closed, which
`WebSocket_live` and `Settles` of `ClientHandshake` show.

## Properties worth a comment

- `BufferedExact` relates a counter changed at five places to the queue it
  counts, `AnsweredOnce` and `EveryCallAnswered` the three ways a callback can run.
- `CleanDelivery`: a received close frame means that all messages before it
  were delivered, whatever was being inflated, held by a paused socket or read in
  `socketOnClose()`.
- `CleanupIsSafe` and `SilentAfterClose`: `emitClose()` is reached from
  three places in two orders; it runs when zlib is idle, and last: after it the program is
  told nothing (messages, `'close'`, and what steps of the receiver report: pings, pongs,
  the close frame, errors), and state and status code are final. That it runs once is
  part of `ConnectionOK` and the theorem `ClosedOnce`.
- `FlowMatchesDemand` holds until the receiver concludes or fails; from then on the
  code drains the socket deliberately.
- `JobsAccounted` counts every call of `compress()` and `decompress()` at the one place where
  it is: answered, running or waiting. It fails if `cleanup()` and `flush()` both answer.
- `EndIsEarned`: `socket.end()` is called at three places of the handshake, never early.
- `ClosedMeansClosed` is the sentence of doc/ws.md on the server's `'close'`; for an
  internal HTTP server it speaks of sockets, since the `'close'` events of the
  last WebSockets may come after it.
- `ImplementsDecoder` is the refinement of `FrameDecoder`; with `Settles` of `Receiver`
  it says that the receiver delivers what the frames say, all of it and no more.
- `LimitHolds` is about what is delivered: for a fragmented or inflated message
  the sum is made at several places, and reset at others.
- `OneOutcome` and `NothingLeftOpen` of `ClientHandshake` are about `abortHandshake()`,
  which leaves the report to a tick, a request or a socket; `TypeOK` there says that one of
  them is always left.
- `OrderlyEvents` of `WebSocketStream`: `'end'` only with every message read, `'finish'`
  only with the socket finished, an error told before `'close'`, `'close'` last.

## Findings

- `WebSocket_invalid`: `close()` assigns `CLOSING` before the sender validates the code
  and the reason. When that throws there is no close frame, no timer, and later calls of
  `close()` return early; only the peer, the network or `terminate()` end the connection.
- `PermessageDeflate_cleanup`: a compression that waits in the limiter when its connection
  closes is not taken out. When its turn comes `_compress()` finds `_deflate` null, creates
  a new stream and leaves it open; `cleanup()` is not called again. It takes more
  connections compressing than `concurrencyLimit` allows.
- `PermessageDeflate_toolong`: `inflateOnData()` resets the inflater in the middle of a
  message. If what is left of the input is no valid deflate data by itself, `'error'`
  comes before the callback of `flush()` and `inflateOnError()` ignores `kError`: the
  connection is closed with 1007 and a zlib error in place of 1009 and
  `WS_ERR_UNSUPPORTED_MESSAGE_LENGTH`. The repository's test uses a message that zlib
  consumes in one piece.
- `WebSocketServer_reentrant`: `completeUpgrade()` checks `_state` before it runs the
  program's code and adds the client after it. `close()` called there on a server with
  an external HTTP server and no other client emits `'close'` while the connection
  opens, and no `'close'` follows when it ends.

Known limits that no run violates, because the properties leave them out or the
models follow the code:

- A stream whose `'end'` waits for its tick when a listener of the WebSocket's `'close'`
  calls `end()` is not destroyed: `duplexOnEnd()` finds it unfinished, and `_final()`
  found it not ended (stream.js:20-24, 127). It emits `'end'` and `'finish'` and never
  `'close'`. `Completes` is about the other orders.
- `_final()` waits for the `'finish'` of the socket (stream.js:129). When the socket is
  destroyed without it, for instance by a peer that resets the connection, a stream that is
  ending neither finishes nor closes until the program destroys it.
- A frame that comes back from the compressor after `socketOnEnd()` ended the socket is written to
  an ended stream (sender.js:426), which destroys a connection that was closing in an orderly
  way. `ConnectionOK`, `CleanupIsSafe` and `SilentAfterClose` cover what must hold of it then;
  none forbids the destruction.
- `pause()` and `resume()` of a WebSocket whose handshake has failed and whose
  `'close'` is still to come use a socket that is `null` (websocket.js:331-339, 412-421).
- `maxPayload` is taken `| 0` (receiver.js:47): a limit of 2^31 or more becomes negative or
  smaller. `LimitHolds` speaks of the limit as converted.
- The length of a compressed frame on the wire is summed against `maxPayload` as well as
  what it inflates to (receiver.js:369-372).
- A server with a numeric `clientMaxWindowBits` above the value a client offers answers with its
  own value (permessage-deflate.js:190-191), and a client of this package refuses it
  (223-230): the handshake fails. A client with `serverMaxWindowBits: true`, which the
  comment at permessage-deflate.js:36 allows, offers the parameter without a value, which a server
  refuses with 400.
- A client takes the first of several `permessage-deflate` in a response and ignores the
  others (permessage-deflate.js:209-234).
- `handshakeTimeout` limits idleness, not the handshake as a whole; with a listener of
  `'unexpected-response'` the program has to end the request itself, hence the premise of `Settles`.

## Proofs

All theorems hold for every value of the constants that satisfies the
module's `ASSUME`; nothing else is assumed.

**Sender.** `StructInvariant` is the inductive core: types, at most one frame at the
compressor, a queue only behind it, and `deflating` without a job only when the socket
is destroyed. With it `OrderKept` shows `written \o job \o queue = accepted` while the
socket lives, and `SenderImplementsLog` maps each step to a step of `FrameLog`
(`accepted` and `written` to themselves, a socket that is not open to `broken`). The
lemmas say what `Ready` returns and that concatenation can be re-associated. Four more
invariants build on it. `Numbered` (frames carry the numbers of their calls, in order, and
while OPEN none is a close frame) gives `CloseFrameLast`. `WrittenFirst` (what was written is a
prefix of what was accepted, destroyed socket or not) and `Latched` (what `_firstFragment` and
`_compress` remember is the message left open by the frames accepted) give
`FramesDecodable`. `Outstanding` (writes the runtime has not reported on, and frames that wait
behind a compression, have not been answered) gives `CallbacksOnce`. `BufferedAmountExact` is about a sum,
the recursive function `Bytes`: its equation and its induction are derived once
(`SetInduction`), from the well-foundedness of the naturals.

**WebSocket.** The properties are not inductive: that `'close'` comes once depends on
who can still reach `emitClose()`. `Inv` is `TypeOK`, `Local(ep[e])` for each
endpoint and, for the connection, that `'end'` is emitted only for a peer that can
send nothing more. `Local` has three parts: `Coherent` (how far the socket's end has
got against what the receiver may still do), `FlowOK` and `EndOK`. The proof goes
by operator: one lemma says what each of `Write`, `Submit`, `Close`, `End`, `Destroy`
and `EmitClose` does to an endpoint, one per listener that it keeps `Local`, and two
(`WireOK`, `BecomeOK`) lift this to the connection. The theorems are
`TypeCorrect`, `ConnectionCoherent`, `ClosedOnce`, `CleanupSafe`, `FlowCorrect`,
`EndEarned`, `NeverWritesAfterEnd` and, as an action property, `StateMovesForward`.

That no message is missing (`CleanDelivery`) needs every place where a frame can be between two
programs. `CleanInv` says of each endpoint `x` with peer `y`: the frames due to `x` (`Due`:
its receiver's buffer, what its socket kept, the wire, `y`'s socket and sender) hold, with the
messages delivered or at zlib, all that `y` sent, while both sockets are up (`Whole`); a close
frame among them has all messages before it and `y` sends no more (`CloseIsLast`); when it is
parsed nothing is left (`Concluded`). A step is seen twice: what it does to the frames due to
`x` (`Takes`: keep them, drop some from the end, or parse the first) and to those due to `y`
(`Gives`: keep, lose, or add one). `CleanStep` shows that two such steps keep `CleanInv`, one
lemma per operator that it is such a step (`Serves`), one per action applies these. The
messages are counted with `Cardinality`, whose laws for one frame more or less are `CountNext`
and `CountTail`. From it `CleanlyDelivered`, and, as a closed endpoint has nothing left in
its receiver or socket (`Ceased`), the action property `SilentWhenClosed`.

**PermessageDeflate.** `SlotsExact` says nothing of the jobs that wait. `Inv` adds that
the calls in flight are exactly the keys (connection, direction) waiting or running, each
once (`Accounted`, `Slots`), that there is a limiter before there is a call (`Made`) and that
a stream closed under a running job has no successor (`Closed`), which is why the late
`flush()` finds `_deflate` null. `RunOK` shows it for `Limiter[kRun]()`, `CallOK` and
`AnswerOK` for what a call and an answer do around it, one lemma per action applies
these. From it: `DeflateTypes`, `SlotsKept`, `SlotsUsed` and `JobsAnsweredOnce`, for
any number of connections and any limit. `DictionariesAgree` speaks of running jobs; `DictInv` says it
also of those that wait and of the frame that a stream at rest would be given next, and that a job is always
of the last frame asked for. From it `DictionariesKept`.

**WebSocketServer.** `Inv` adds to the types when an `emitClose()` may wait for
a tick (`Promised`), what the internal HTTP server knows (`HttpKnows`), that
`close()` leaves no upgrade behind unless it was called inside it (`Stopped`), and an
event still owed by the last client or the HTTP server (`Counted`). From it:
`ServerTypes`, `CloseIsTruthful` (`ClosedUnlessReentered`: all the finding leaves),
`EventsCounted` and `NothingOpensLate`.

**Framing.** `Length16RoundTrip` and `Length64RoundTrip`: the length fields written by
`Sender.frame()` are read back, for every 16-bit length and for every length below 2^48 (`frame()` writes the low
six of the eight bytes, so it can say no more); `XorTwice` and
`UnmaskMasked`: unmasking undoes masking for payloads of any length. Lemmas about frames
(`FirstByte`, `SecondByte`, `LengthRead`, `DataRead`) say that each part of a frame on the wire is read
back as it was; those about `FlattenSeq`, which is recursive, what one part more at either end adds
(`FlattenLast`, `FlattenFirst`), by induction over a set of lengths.

**Receiver.** `LimitHolds` depends on the sums the parser keeps. `Inv` adds to the
types what was delivered so far (`Delivered`), that `totalPayloadLength` and `messageLength`
bound the fragments kept while there is no error (`Sums`), and that a loop that runs has met none. One
lemma per function of `receiver.js` keeps it. From it `TypeCorrect` and `LimitIsKept`, for all
streams, all cuts and any zlib that gives bytes back.

`DecodesByTheRules` is the refinement of `FrameDecoder` under the same assumption. What the parser
keeps has to be related to frames it has seen only in pieces. `IInv` says of a receiver without an
error (`Track`): the bytes in the buffer and those not yet written are together what is left of the
stream in the state the parser is in (`Ahead`: whole frames in `GET_INFO`, a frame from its length, its
key or its payload on in the others); the frame being read respects the rules on headers (`Fine`) and
was read as it is (`Reading`); and `_fragments`, `_totalPayloadLength`, `_compressed` and `_fragmented` are what
the data frames since the one that opened the message brought (`Between`, `Collects`). It has ended
behind a close frame and only there (`Ended`). One lemma per action shows that
it keeps `IInv` and takes a frame as `Accept` does, refuses it as `Reject` does, or changes nothing that
`FrameDecoder` sees; `DataVerdict`, `ControlVerdict` and `HeaderVerdict` compare each test of the code with the
rule it stands for. The assumption on the streams is that their frames can be written at all (`WireFrames`:
fields in their ranges, a length that its form can hold); reserved bits and opcodes, lengths in more
bits than they need and frames against every rule are among them.

**ClientHandshake.** `OneOutcome` says what was told; that nothing more will be told is
the other half. `Inv` is a disjunction of four states, `Connecting`, `Opened`, `Closing` and `Closed`,
each with the requests, ticks and socket events that are left in it; `Closing` has
exactly one of them to come. From it `TypeCorrect`, `OutcomeOnce` and `NoneLeft`. `EndsAgree` needs
no invariant of its own: nothing happens to an open handshake, and the lemma `Agreement` shows of
`Granted`, as the server computes it, and of what the client makes of it that they fit, for all options of both.

**WebSocketStream.** Whether an event of the stream may still come depends on the
callbacks that wait, so `Sound` relates the queue of `nextTick`s to the flags of the stream and
of the WebSocket: `CloseLast`, `FinishOnce` and `AllHarmless` say what is in the queue and in what order, `Counted`, `Complete`,
`FinishOK`, `CloseOK` and `Told` what that means for the flags. One lemma per function of
`stream.js` and of Node's streams keeps it. From it `StreamTypes` and `EventsInOrder`.

Only model-checked: all liveness properties, which are out of the prover's reach (fairness and
ENABLED). Every invariant, action property and refinement that a run checks is proved.

## Plan

What is left, in this order:

1. `pong()` of the program in `WebSocket`, and a peer that does not keep to the protocol there.
2. The `allowHalfOpen: false` option of a stream.

## Not modelled

The grammar of headers (`lib/extension.js`, `lib/subprotocol.js`) is text processing without state; its
results enter `Negotiation` and `ClientHandshake` as values. The EventTarget adapter wraps listeners and
keeps no state of its own. `concat`, `toBuffer` and `toArrayBuffer` copy bytes. TLS, HTTP, zlib
and the streams of Node are external: what is used of them is marked so in `PROJECT.json`.
Entry points, benchmarks, examples and tests are no part of the library's behaviour.
