------------------------------ MODULE Receiver ------------------------------
(***************************************************************************)
(* The parser of lib/receiver.js on bytes: chunks cut the frames of the    *)
(* peer anywhere, parsing stops while zlib works, and the limits, masks    *)
(* and rules of the protocol apply.  The socket, back-pressure and the     *)
(* listeners of the receiver are in module WebSocket.                      *)
(*                                                                         *)
(* A turn of the loop in startLoop() is one action.  While `loop` holds    *)
(* JavaScript is inside the loop and nothing else happens.                 *)
(***************************************************************************)
EXTENDS Framing, SequencesExt

CONSTANTS
    IntRange,         \* how many integers `|` knows: 2^32
    Cases,            \* [options, frames]: receivers, and frames of their peers
    Inflate(_),       \* zlib: what a payload inflates to
    Deflated(_)       \* zlib: is it deflate data at all?

ASSUME ReceiverAssumption ==
    /\ IntRange \in Nat \ {0}
    /\ \A case \in Cases :
          /\ case = [options |-> case.options, frames |-> case.frames]
          /\ case.options.isServer \in BOOLEAN
          /\ case.options.maxPayload \in Nat
          /\ case.frames \in Seq(WireFrames)

VARIABLES
    options,          \* what the constructor was given
    frames,           \* the frames of the peer
    unread,           \* their bytes that were not given to _write() yet
    buffer,           \* _buffers, as one sequence: consume() does not see the cuts
    state,            \* _state
    loop,             \* _loop
    writing,          \* a chunk is not answered: the callback of _write() is due
    err,              \* the status code of the error it was answered with, or 0
    header,           \* _fin, _opcode, _masked, _payloadLength, _mask
    message,          \* _compressed, _fragmented, _totalPayloadLength,
                      \* _messageLength and _fragments, as one sequence
    job,              \* what decompress() gave to zlib
    ended,            \* end() was called
    parsed, events    \* history: how many frames were taken, what was emitted

parser == <<buffer, state, loop, writing, err, header, message, job, ended, parsed, events>>
vars == <<options, frames, unread, parser>>

-----------------------------------------------------------------------------
(* `x | 0`: two's complement. *)
ToInt32(x) == LET low == x % IntRange
              IN IF low >= IntRange \div 2 THEN low - IntRange ELSE low

MaxPayload == ToInt32(options.maxPayload)

Limited(n) == MaxPayload > 0 /\ n > MaxPayload

NoMessage == [compressed |-> FALSE, fragmented |-> 0, totalPayloadLength |-> 0,
              messageLength |-> 0, fragments |-> <<>>]

Init ==
    /\ \E case \in Cases : options = case.options /\ frames = case.frames
    /\ unread = FlattenSeq([k \in 1 .. Len(frames) |-> Octets(frames[k])])
    /\ buffer = <<>>
    /\ state = "GET_INFO"
    /\ loop = FALSE
    /\ writing = FALSE
    /\ err = 0
    /\ header = [fin |-> FALSE, opcode |-> 0, masked |-> FALSE, payloadLength |-> 0, mask |-> <<>>]
    /\ message = NoMessage
    /\ job = <<>>
    /\ ended = FALSE
    /\ parsed = 0
    /\ events = <<>>

-----------------------------------------------------------------------------
Consume(n) == buffer' = SubSeq(buffer, n + 1, Len(buffer))

(* The loop ends and the chunk is answered, with an error. *)
Fail(code) == /\ loop' = FALSE
              /\ writing' = FALSE
              /\ err' = code

(* Faulty variant: a frame is left in the buffer until a byte follows it. *)
NeededGreedy ==
    CASE state \in {"GET_INFO", "GET_PAYLOAD_LENGTH_16"} -> 2
      [] state = "GET_PAYLOAD_LENGTH_64"                 -> 8
      [] state = "GET_MASK"                              -> 4
      [] state = "GET_DATA"                              -> header.payloadLength + 1
      [] state = "INFLATING"                             -> 0

(* The bytes a turn needs; with less the loop ends and the chunk is answered. *)
Needed ==
    CASE state \in {"GET_INFO", "GET_PAYLOAD_LENGTH_16"} -> 2
      [] state = "GET_PAYLOAD_LENGTH_64"                 -> 8
      [] state = "GET_MASK"                              -> 4
      [] state = "GET_DATA"                              -> header.payloadLength
      [] state = "INFLATING"                             -> 0

Turn(name) == loop /\ state = name /\ Len(buffer) >= Needed

Starve ==
    /\ loop /\ Len(buffer) < Needed
    /\ loop' = FALSE
    /\ writing' = FALSE
    /\ UNCHANGED <<options, frames, unread, buffer, state, err, header, message,
                   job, ended, parsed, events>>

(* Faulty variant: the mask is taken for data. *)
HaveLengthMaskless(h, m) ==
    LET counts == h.payloadLength > 0 /\ h.opcode < 8
        total == m.totalPayloadLength + h.payloadLength
    IN /\ header' = h
       /\ message' = IF counts THEN [m EXCEPT !.totalPayloadLength = total] ELSE m
       /\ IF counts /\ Limited(total)
            THEN Fail(1009) /\ UNCHANGED state
            ELSE state' = "GET_DATA" /\ UNCHANGED <<loop, writing, err>>

(* haveLength(): the header h of a frame of the message m is complete. *)
HaveLength(h, m) ==
    LET counts == h.payloadLength > 0 /\ h.opcode < 8
        total == m.totalPayloadLength + h.payloadLength
    IN /\ header' = h
       /\ message' = IF counts THEN [m EXCEPT !.totalPayloadLength = total] ELSE m
       /\ IF counts /\ Limited(total)
            THEN Fail(1009) /\ UNCHANGED state
            ELSE /\ state' = IF h.masked THEN "GET_MASK" ELSE "GET_DATA"
                 /\ UNCHANGED <<loop, writing, err>>

HasBit(byte, weight) == (byte \div weight) % 2 = 1

BadOpcode(opcode, fin, rsv1, length) ==
    \/ opcode = 0 /\ (rsv1 \/ message.fragmented = 0)
    \/ opcode \in {1, 2} /\ message.fragmented # 0
    \/ opcode \in 8 .. 10 /\ (~fin \/ rsv1 \/ length > 125)
    \/ opcode \notin {0, 1, 2, 8, 9, 10}

(* Flags and opcode, mask bit and length.  What a refused header leaves in  *)
(* the fields is never read.                                                *)
GetInfo ==
    LET rsv1 == HasBit(buffer[1], 64)
        fin == HasBit(buffer[1], 128)
        opcode == buffer[1] % 16
        length == buffer[2] % 128
        h == [header EXCEPT !.fin = fin, !.masked = HasBit(buffer[2], 128),
                            !.opcode = IF opcode = 0 THEN message.fragmented ELSE opcode,
                            !.payloadLength = length]
        m == [message EXCEPT !.compressed = IF opcode \in {1, 2} THEN rsv1 ELSE @,
                             !.fragmented = IF ~fin /\ @ = 0 THEN opcode ELSE @]
        bad == \/ HasBit(buffer[1], 32) \/ HasBit(buffer[1], 16)
               \/ rsv1 /\ ~options.deflate
               \/ BadOpcode(opcode, fin, rsv1, length)
               \/ h.masked # options.isServer
    IN /\ Turn("GET_INFO")
       /\ Consume(2)
       /\ \/ bad /\ Fail(1002) /\ UNCHANGED <<state, header, message>>
          \/ /\ ~bad /\ length \in {126, 127}
             /\ header' = h
             /\ message' = m
             /\ state' = IF length = 126 THEN "GET_PAYLOAD_LENGTH_16" ELSE "GET_PAYLOAD_LENGTH_64"
             /\ UNCHANGED <<loop, writing, err>>
          \/ ~bad /\ length < 126 /\ HaveLength(h, m)
       /\ UNCHANGED <<options, frames, unread, job, ended, parsed, events>>

GetPayloadLength16 ==
    /\ Turn("GET_PAYLOAD_LENGTH_16")
    /\ Consume(2)
    /\ HaveLength([header EXCEPT !.payloadLength = UInt16(buffer)], message)
    /\ UNCHANGED <<options, frames, unread, job, ended, parsed, events>>

GetPayloadLength64 ==
    /\ Turn("GET_PAYLOAD_LENGTH_64")
    /\ Consume(8)
    /\ IF Unsafe(buffer)
         THEN Fail(1009) /\ UNCHANGED <<state, header, message>>
         ELSE HaveLength([header EXCEPT !.payloadLength = UInt64(buffer)], message)
    /\ UNCHANGED <<options, frames, unread, job, ended, parsed, events>>

GetMask ==
    /\ Turn("GET_MASK")
    /\ Consume(4)
    /\ header' = [header EXCEPT !.mask = SubSeq(buffer, 1, 4)]
    /\ state' = "GET_DATA"
    /\ UNCHANGED <<options, frames, unread, loop, writing, err, message, job, ended, parsed, events>>

-----------------------------------------------------------------------------
Event(type, code, data) == [type |-> type, code |-> code, data |-> data]

(* The frame has been taken and the loop goes on, or goes on again. *)
Taken(emitted) == /\ parsed' = parsed + 1
                  /\ events' = events \o emitted
                  /\ state' = "GET_INFO"
                  /\ loop' = TRUE
                  /\ UNCHANGED <<writing, err, ended>>

(* It is refused. *)
Refuse(code) == Fail(code) /\ UNCHANGED <<state, ended, parsed, events>>

NotText(bytes) == ~options.skipUTF8Validation /\ ~IsValidUTF8(bytes)

(* Faulty variant: a finished message leaves _fragmented behind. *)
DataMessageOpen(m) ==
    IF ~header.fin THEN message' = m /\ Taken(<<>>)
    ELSE /\ message' = [NoMessage EXCEPT !.compressed = m.compressed, !.fragmented = m.fragmented]
         /\ \/ header.opcode = 2 /\ Taken(<<Event("binary", 0, m.fragments)>>)
            \/ header.opcode # 2 /\ NotText(m.fragments) /\ Refuse(1007)
            \/ header.opcode # 2 /\ ~NotText(m.fragments) /\ Taken(<<Event("text", 0, m.fragments)>>)

(* dataMessage(): m is the message with the payload of the frame. *)
DataMessage(m) ==
    IF ~header.fin THEN message' = m /\ Taken(<<>>)
    ELSE /\ message' = [NoMessage EXCEPT !.compressed = m.compressed]
         /\ \/ header.opcode = 2 /\ Taken(<<Event("binary", 0, m.fragments)>>)
            \/ header.opcode # 2 /\ NotText(m.fragments) /\ Refuse(1007)
            \/ header.opcode # 2 /\ ~NotText(m.fragments) /\ Taken(<<Event("text", 0, m.fragments)>>)

(* A close frame ends the loop, and with end() the receiver. *)
Conclude(code, reason) ==
    /\ parsed' = parsed + 1
    /\ events' = Append(events, Event("conclude", code, reason))
    /\ state' = "GET_INFO"
    /\ loop' = FALSE
    /\ writing' = FALSE
    /\ ended' = TRUE
    /\ UNCHANGED err

ControlMessage(data) ==
    LET code == UInt16(data)
        reason == SubSeq(data, 3, Len(data))
        bad == Len(data) = 1 \/ ~IsValidStatusCode(code)
    IN \/ header.opcode = 9 /\ Taken(<<Event("ping", 0, data)>>)
       \/ header.opcode = 10 /\ Taken(<<Event("pong", 0, data)>>)
       \/ header.opcode = 8 /\ data = <<>> /\ Conclude(1005, <<>>)
       \/ /\ header.opcode = 8 /\ data # <<>>
          /\ IF bad THEN Refuse(1002)
             ELSE IF NotText(reason) THEN Refuse(1007)
             ELSE Conclude(code, reason)

Payload == LET bytes == SubSeq(buffer, 1, header.payloadLength)
           IN IF header.masked THEN Masked(bytes, header.mask) ELSE bytes

(* The message with more data; `length` is what _messageLength becomes. *)
Keep(data, length) ==
    IF data = <<>> THEN message
    ELSE [message EXCEPT !.messageLength = length, !.fragments = @ \o data]

(* With zlib at work the loop ends without an answer to the chunk. *)
Decompress(data) ==
    /\ job' = data
    /\ state' = "INFLATING"
    /\ loop' = FALSE
    /\ UNCHANGED <<writing, err, ended, parsed, events>>

GetData ==
    /\ Turn("GET_DATA")
    /\ Consume(header.payloadLength)
    /\ \/ header.opcode > 7 /\ ControlMessage(Payload) /\ UNCHANGED <<message, job>>
       \/ header.opcode < 8 /\ message.compressed /\ Decompress(Payload) /\ UNCHANGED message
       \/ /\ header.opcode < 8 /\ ~message.compressed
          /\ DataMessage(Keep(Payload, message.totalPayloadLength))
          /\ UNCHANGED job
    /\ UNCHANGED <<options, frames, unread, header>>

-----------------------------------------------------------------------------
(* Errors of PerMessageDeflate.decompress(): invalid data, or output above  *)
(* the limit, behind which zlib may also fail (module PermessageDeflate).   *)
DecompressErrors(data) ==
    {c \in {1007, 1009} :
        \/ Limited(Len(Inflate(data)))
        \/ c = 1007 /\ ~Deflated(data)}

(* Faulty variant: every fragment is held against the limit by itself. *)
DecompressedApart(data) ==
    LET length == message.messageLength + Len(data)
    IN IF data # <<>> /\ Limited(Len(data))
         THEN Refuse(1009) /\ message' = [message EXCEPT !.messageLength = length]
         ELSE DataMessage(Keep(data, length))

(* The callback of decompress() without an error. *)
Decompressed(data) ==
    LET length == message.messageLength + Len(data)
    IN IF data # <<>> /\ Limited(length)
         THEN Refuse(1009) /\ message' = [message EXCEPT !.messageLength = length]
         ELSE DataMessage(Keep(data, length))

(* zlib is done; without an error the loop starts again. *)
InflateDone ==
    /\ err = 0 /\ ~loop /\ state = "INFLATING"
    /\ job' = <<>>
    /\ \/ \E code \in DecompressErrors(job) : Refuse(code) /\ UNCHANGED message
       \/ DecompressErrors(job) = {} /\ Decompressed(Inflate(job))
    /\ UNCHANGED <<options, frames, unread, buffer, header>>

(* The stream hands the next chunk to _write() once the one before is       *)
(* answered; behind a close frame chunks are dropped.                       *)
Write ==
    /\ err = 0 /\ ~writing
    /\ \E n \in 1 .. Len(unread) :
          /\ unread' = SubSeq(unread, n + 1, Len(unread))
          /\ \/ /\ header.opcode = 8 /\ state = "GET_INFO"
                /\ UNCHANGED <<buffer, loop, writing>>
             \/ /\ ~(header.opcode = 8 /\ state = "GET_INFO")
                /\ buffer' = buffer \o SubSeq(unread, 1, n)
                /\ loop' = TRUE
                /\ writing' = TRUE
    /\ UNCHANGED <<options, frames, state, err, header, message, job, ended, parsed, events>>

Step == \/ Starve \/ GetInfo \/ GetPayloadLength16 \/ GetPayloadLength64
        \/ GetMask \/ GetData

Next == Write \/ Step \/ InflateDone

Spec == Init /\ [][Next]_vars

(* The loop runs by itself and zlib answers; the peer need not send. *)
FairSpec == Spec /\ WF_vars(Step) /\ WF_vars(InflateDone)

-----------------------------------------------------------------------------
States == {"GET_INFO", "GET_PAYLOAD_LENGTH_16", "GET_PAYLOAD_LENGTH_64",
           "GET_MASK", "GET_DATA", "INFLATING"}

Headers == [fin : BOOLEAN, opcode : {0, 1, 2, 8, 9, 10}, masked : BOOLEAN,
            payloadLength : Nat, mask : Seq(Byte)]

Messages == [compressed : BOOLEAN, fragmented : {0, 1, 2}, totalPayloadLength : Nat,
             messageLength : Nat, fragments : Seq(Byte)]

Events == [type : {"text", "binary", "ping", "pong", "conclude"}, code : Nat, data : Seq(Byte)]

Given == [options |-> options, frames |-> frames] \in Cases

(* A turn of the loop only for a chunk that is not answered, a key where    *)
(* the peer masks, data at zlib only while it works.                        *)
Coherent ==
    /\ loop => writing
    /\ writing => loop \/ state = "INFLATING"
    /\ state = "INFLATING" => writing /\ message.compressed
    /\ state = "GET_DATA" /\ header.masked => Len(header.mask) = 4
    /\ job # <<>> => state = "INFLATING"

(* Types, and what each state of the parser presupposes. *)
TypeOK ==
    /\ Given
    /\ unread \in Seq(Byte) /\ buffer \in Seq(Byte)
    /\ state \in States /\ err \in {0, 1002, 1007, 1009}
    /\ loop \in BOOLEAN /\ writing \in BOOLEAN /\ ended \in BOOLEAN
    /\ header \in Headers /\ message \in Messages /\ job \in Seq(Byte)
    /\ parsed \in Nat /\ events \in Seq(Events)
    /\ err = 0 => Coherent

(* _messageLength counts what _fragments holds, which concat() relies on,   *)
(* and neither an unfinished message nor a delivered one exceeds maxPayload, *)
(* however it is fragmented and compressed and wherever chunks cut it.      *)
LimitHolds ==
    /\ err = 0 => /\ message.messageLength = Len(message.fragments)
                  /\ ~Limited(message.messageLength)
    /\ \A i \in 1 .. Len(events) :
          events[i].type \in {"text", "binary"} => ~Limited(Len(events[i].data))

(* Whatever chunks the bytes come in and however long zlib takes, the       *)
(* receiver takes the frames one by one, by the rules.                      *)
Decoder == INSTANCE FrameDecoder WITH
    options <- [isServer |-> options.isServer, deflate |-> options.deflate,
                limit |-> IF MaxPayload > 0 THEN MaxPayload ELSE 0,
                skipUTF8Validation |-> options.skipUTF8Validation],
    concluded <- ended

ImplementsDecoder == Decoder!Spec

(* Once all bytes of the peer are written, all its frames get taken, unless *)
(* one is refused or a close frame ends the receiver: no complete frame is  *)
(* left in the buffer, whatever the cut.                                    *)
Settles == (unread = <<>>) ~> (parsed = Len(frames) \/ err # 0 \/ ended)
=============================================================================
