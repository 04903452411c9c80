--------------------------- MODULE ReceiverProofs ---------------------------
(***************************************************************************)
(* The types and the limit of the receiver, for any frames, any cut of     *)
(* their bytes, any limit and any width of integers, by the invariant Inv; *)
(* and that it implements FrameDecoder, by the invariant IInv: the bytes   *)
(* in the buffer and those not written yet are together what is left of    *)
(* the frames in the state the parser is in, and what it keeps is what the *)
(* frames taken so far brought of the message in progress.                 *)
(***************************************************************************)
EXTENDS Receiver, FramingProofs, SequenceTheorems

(* What is assumed of zlib: it makes bytes of bytes. *)
ZlibGivesBytes == \A data \in Seq(Byte) : Inflate(data) \in Seq(Byte)

-----------------------------------------------------------------------------
(* What _totalPayloadLength counts of the frame being read. *)
Pending == IF state \in {"GET_MASK", "GET_DATA"} /\ header.opcode < 8
             THEN header.payloadLength ELSE 0

(* The counters against what is kept of the message in progress. *)
Sums ==
    /\ message.messageLength = Len(message.fragments)
    /\ ~Limited(message.messageLength)
    /\ ~Limited(message.totalPayloadLength)
    /\ ~message.compressed => message.totalPayloadLength = Len(message.fragments) + Pending
    /\ message.fragmented = 0 =>
         /\ message.fragments = <<>>
         /\ state # "INFLATING" => message.totalPayloadLength = Pending
         /\ state # "GET_INFO" => header.fin

Delivered ==
    \A i \in 1 .. Len(events) :
        events[i].type \in {"text", "binary"} => ~Limited(Len(events[i].data))

Inv == /\ TypeOK
       /\ Delivered
       /\ err = 0 => Sums
       /\ loop => err = 0

-----------------------------------------------------------------------------
LEMMA BytesAreNumbers == \A x \in Byte : x \in Nat /\ x < 256
BY DEF Byte

LEMMA Remainder ==
    ASSUME NEW x \in Nat, NEW y \in Nat \ {0}
    PROVE  x % y \in Nat /\ y \div 2 \in Int
BY SMT

(* Two digits more. *)
LEMMA Digits ==
    ASSUME NEW n \in Nat, NEW x \in Nat, NEW y \in Nat
    PROVE  256 * n + x \in Nat /\ 256 * (256 * n + x) + y \in Nat
BY SMT

(* A limit is a number, and nothing is not above it. *)
LEMMA NothingIsLimited ==
    ASSUME TypeOK
    PROVE  MaxPayload \in Int /\ ~Limited(0) /\ options.isServer \in BOOLEAN
<1> DEFINE case == [options |-> options, frames |-> frames]
<1>0. case \in Cases /\ case.options = options
  BY DEF TypeOK, Given
<1> HIDE DEF case
<1>1. options.maxPayload \in Nat /\ options.isServer \in BOOLEAN
  BY <1>0, ReceiverAssumption, Zenon
<1>2. options.maxPayload % IntRange \in Nat /\ IntRange \div 2 \in Int
  BY <1>1, ReceiverAssumption, Remainder
<1>3. MaxPayload \in Int
  BY <1>2, ReceiverAssumption DEF MaxPayload, ToInt32
<1> QED
  BY <1>1, <1>3 DEF Limited

(* Numbers read from bytes. *)
LEMMA NumbersRead ==
    ASSUME NEW b \in Seq(Byte)
    PROVE  /\ Len(b) >= 2 => UInt16(b) \in Nat
           /\ Len(b) >= 8 => UInt64(b) \in Nat
<1>1. ASSUME Len(b) >= 2 PROVE UInt16(b) \in Nat
  <2>1. b[1] \in Byte /\ b[2] \in Byte
    BY <1>1
  <2> QED
    BY <2>1, BytesAreNumbers DEF UInt16
<1>2. ASSUME Len(b) >= 8 PROVE UInt64(b) \in Nat
  <2>1. b[1] \in Byte /\ b[2] \in Byte /\ b[3] \in Byte /\ b[4] \in Byte
    BY <1>2
  <2>2. b[5] \in Byte /\ b[6] \in Byte /\ b[7] \in Byte /\ b[8] \in Byte
    BY <1>2
  <2>3. /\ b[1] \in Nat /\ b[2] \in Nat /\ b[3] \in Nat /\ b[4] \in Nat
        /\ b[5] \in Nat /\ b[6] \in Nat /\ b[7] \in Nat /\ b[8] \in Nat
    BY <2>1, <2>2, BytesAreNumbers
  <2> DEFINE n1 == 256 * (256 * b[1] + b[2]) + b[3]
             n2 == 256 * (256 * n1 + b[4]) + b[5]
             n3 == 256 * (256 * n2 + b[6]) + b[7]
  <2>4. UInt64(b) = 256 * n3 + b[8]
    BY DEF UInt64
  <2>5. n1 \in Nat
    BY ZenonT(60), <2>3, Digits
  <2> HIDE DEF n1
  <2>6. n2 \in Nat
    BY SMTT(60), <2>3, <2>5, Digits
  <2> HIDE DEF n2
  <2>7. n3 \in Nat
    BY SMTT(60), <2>3, <2>6, Digits
  <2> HIDE DEF n3
  <2> QED
    BY SMTT(60), <2>3, <2>4, <2>7, Digits
<1> QED
  BY <1>1, <1>2

(* Taking bytes off the buffer. *)
LEMMA ConsumeOK ==
    ASSUME buffer \in Seq(Byte), NEW n \in 0 .. Len(buffer)
    PROVE  /\ SubSeq(buffer, n + 1, Len(buffer)) \in Seq(Byte)
           /\ SubSeq(buffer, 1, n) \in Seq(Byte)
           /\ Len(SubSeq(buffer, 1, n)) = n
BY SubSeqProperties

-----------------------------------------------------------------------------
LEMMA InitOK == Init => Inv
<1> SUFFICES ASSUME Init PROVE Inv
  OBVIOUS
<1>1. unread \in Seq(Byte)
  <2>1. frames \in Seq(WireFrames)
    BY ReceiverAssumption DEF Init
  <2>2. unread = Behind(frames, 0)
    BY <2>1, AllFrames DEF Init
  <2>3. 0 \in 0 .. Len(frames)
    BY <2>1, LenProperties
  <2> QED
    BY <2>1, <2>2, <2>3, BehindParts
<1>2. TypeOK
  <2>1. Given
    <3>1. PICK case \in Cases : options = case.options /\ frames = case.frames
      BY DEF Init
    <3>2. case = [options |-> case.options, frames |-> case.frames]
      BY ReceiverAssumption, Zenon
    <3> QED
      BY <3>1, <3>2 DEF Given
  <2>2. header \in Headers
    BY DEF Init, Headers
  <2>3. message \in Messages
    BY DEF Init, Messages, NoMessage
  <2>4. buffer \in Seq(Byte) /\ job \in Seq(Byte) /\ parsed \in Nat /\ events \in Seq(Events)
    BY DEF Init
  <2>5. /\ state \in States /\ err \in {0, 1002, 1007, 1009}
        /\ loop \in BOOLEAN /\ writing \in BOOLEAN /\ ended \in BOOLEAN
    BY DEF Init, States
  <2>6. Coherent
    BY DEF Init, Coherent
  <2> QED
    BY <1>1, <2>1, <2>2, <2>3, <2>4, <2>5, <2>6 DEF TypeOK
<1>3. Delivered
  BY DEF Init, Delivered
<1>4. Sums
  BY <1>2, NothingIsLimited DEF Init, Sums, NoMessage, Pending
<1> QED
  BY <1>2, <1>3, <1>4 DEF Init, Inv

-----------------------------------------------------------------------------
Inputs == <<options, frames, unread>>
Rest == <<job, ended, parsed, events>>

(* What does not change keeps its part of the invariant. *)
LEMMA InputsKept ==
    ASSUME TypeOK, UNCHANGED <<options, frames>>
    PROVE  /\ Given'
           /\ MaxPayload' = MaxPayload
           /\ MaxPayload \in Int
BY NothingIsLimited DEF TypeOK, Given, MaxPayload

LEMMA DeliveredKept ==
    ASSUME TypeOK, Delivered, UNCHANGED <<options, frames, events>>
    PROVE  Delivered'
BY InputsKept DEF Delivered, Limited

LEMMA TypesKept ==
    ASSUME TypeOK, UNCHANGED Inputs, UNCHANGED <<ended, parsed, events>>, job' \in Seq(Byte),
           buffer' \in Seq(Byte), header' \in Headers, message' \in Messages,
           state' \in States, err' \in {0, 1002, 1007, 1009},
           loop' \in BOOLEAN, writing' \in BOOLEAN, err' = 0 => Coherent'
    PROVE  TypeOK'
<1>1. Given'
  BY InputsKept DEF Inputs
<1>2. /\ unread' \in Seq(Byte) /\ ended' \in BOOLEAN
      /\ parsed' \in Nat /\ events' \in Seq(Events)
  BY DEF TypeOK, Inputs
<1> QED
  BY <1>1, <1>2 DEF TypeOK

(* A failed receiver owes only its types. *)
LEMMA FailOK ==
    ASSUME Inv, NEW code \in {1002, 1007, 1009}, Fail(code), UNCHANGED Inputs,
           UNCHANGED <<state, ended, parsed, events>>, job' \in Seq(Byte),
           buffer' \in Seq(Byte), header' \in Headers, message' \in Messages
    PROVE  Inv'
<1>0. TypeOK /\ Delivered
  BY DEF Inv
<1>1. err' # 0 /\ err' \in {0, 1002, 1007, 1009} /\ loop' \in BOOLEAN /\ writing' \in BOOLEAN
  <2>1. err' = code /\ loop' = FALSE /\ writing' = FALSE
    BY DEF Fail
  <2>2. err' # 0 /\ err' \in {0, 1002, 1007, 1009}
    BY <2>1
  <2> QED
    BY ZenonT(60), <2>1, <2>2
<1>2. state' \in States
  BY <1>0 DEF TypeOK
<1>3. TypeOK'
  BY <1>0, <1>1, <1>2, TypesKept
<1>4. Delivered'
  BY <1>0, DeliveredKept DEF Inputs
<1> QED
  BY <1>1, <1>3, <1>4 DEF Inv, Fail

(* The length of a frame has not been counted yet. *)
Uncounted(h, m) ==
    /\ m.messageLength = Len(m.fragments)
    /\ ~Limited(m.messageLength)
    /\ ~Limited(m.totalPayloadLength)
    /\ ~m.compressed => m.totalPayloadLength = Len(m.fragments)
    /\ m.fragmented = 0 => /\ m.fragments = <<>>
                           /\ m.totalPayloadLength = 0
                           /\ h.fin

LEMMA HaveLengthOK ==
    ASSUME Inv, loop, err = 0, state \in States \ {"GET_DATA", "INFLATING"},
           NEW h \in Headers, NEW m \in Messages, Uncounted(h, m), HaveLength(h, m),
           buffer' \in Seq(Byte), UNCHANGED Inputs, UNCHANGED Rest
    PROVE  Inv'
<1> DEFINE counts == h.payloadLength > 0 /\ h.opcode < 8
           total == m.totalPayloadLength + h.payloadLength
           counted == [m EXCEPT !.totalPayloadLength = total]
<1>0. TypeOK /\ Delivered
  BY DEF Inv
<1>1. /\ header' = h
      /\ message' = IF counts THEN counted ELSE m
      /\ IF counts /\ Limited(total)
           THEN Fail(1009) /\ UNCHANGED state
           ELSE /\ state' = IF h.masked THEN "GET_MASK" ELSE "GET_DATA"
                /\ UNCHANGED <<loop, writing, err>>
  BY DEF HaveLength
<1>2. h.payloadLength \in Nat /\ m.totalPayloadLength \in Nat
  BY DEF Headers, Messages
<1>3. total \in Nat
  BY <1>2
<1>4. /\ counted \in Messages
      /\ counted.totalPayloadLength = total
      /\ counted.messageLength = m.messageLength
      /\ counted.fragments = m.fragments
      /\ counted.compressed = m.compressed
      /\ counted.fragmented = m.fragmented
  <2> HIDE DEF total
  <2> QED
    BY <1>3 DEF Messages
<1> HIDE DEF counted
<1>5. header' \in Headers /\ message' \in Messages
  BY <1>1, <1>4
<1>6. CASE counts /\ Limited(total)
  <2>1. Fail(1009) /\ UNCHANGED state
    BY <1>1, <1>6
  <2>2. job' \in Seq(Byte) /\ UNCHANGED <<state, ended, parsed, events>>
    BY <1>0, <2>1 DEF TypeOK, Rest
  <2> HIDE DEF total
  <2> QED
    BY <1>5, <2>1, <2>2, FailOK
<1>7. CASE ~(counts /\ Limited(total))
  <2>1. /\ state' = IF h.masked THEN "GET_MASK" ELSE "GET_DATA"
        /\ UNCHANGED <<loop, writing, err>>
    BY <1>1, <1>7
  <2>2. loop \in BOOLEAN /\ writing \in BOOLEAN /\ (loop => writing)
        /\ job = <<>>
    BY <1>0 DEF TypeOK, Coherent
  <2>3. Coherent'
    BY <1>1, <2>1, <2>2 DEF Coherent, Rest
  <2>4. TypeOK'
    <3>1. job' \in Seq(Byte) /\ UNCHANGED <<ended, parsed, events>>
      BY <2>2 DEF Rest
    <3>2. state' \in States
      BY <2>1 DEF States
    <3>3. loop' \in BOOLEAN /\ writing' \in BOOLEAN /\ err' \in {0, 1002, 1007, 1009}
      BY <2>1, <2>2
    <3> QED
      BY <1>0, <1>5, <2>3, <3>1, <3>2, <3>3, TypesKept
  <2>5. Delivered'
    BY <1>0, DeliveredKept DEF Inputs, Rest
  <2>6. message'.totalPayloadLength = m.totalPayloadLength + Pending'
    BY <1>1, <1>2, <1>4, <2>1 DEF Pending
  <2>7. ~Limited(message'.totalPayloadLength)
    BY <1>1, <1>4, <1>7 DEF Uncounted
  <2>8. /\ message'.messageLength = m.messageLength
        /\ message'.fragments = m.fragments
        /\ message'.compressed = m.compressed
        /\ message'.fragmented = m.fragmented
    BY <1>1, <1>4
  <2>9. MaxPayload' = MaxPayload
    BY <1>0, InputsKept DEF Inputs
  <2>10. Pending' \in Nat /\ header' = h
    BY <1>1, <1>2, <2>1 DEF Pending
  <2> HIDE DEF total, counts
  <2>11. Sums'
    <3>1. ~Limited(message.messageLength)' /\ ~Limited(message.totalPayloadLength)'
      BY <2>7, <2>8, <2>9 DEF Uncounted, Limited
    <3> QED
      BY <2>6, <2>8, <2>10, <3>1 DEF Sums, Uncounted
  <2> QED
    BY <2>1, <2>4, <2>5, <2>11 DEF Inv
<1> QED
  BY <1>6, <1>7

(* A turn finds the bytes it needs. *)
LEMMA TurnReads ==
    ASSUME Inv, NEW name \in States, Turn(name)
    PROVE  /\ TypeOK /\ Delivered /\ Sums /\ Coherent
           /\ loop = TRUE /\ writing = TRUE /\ err = 0 /\ state = name /\ job \in Seq(Byte)
           /\ name \in {"GET_INFO", "GET_PAYLOAD_LENGTH_16"} => Len(buffer) >= 2
           /\ name = "GET_PAYLOAD_LENGTH_64" => Len(buffer) >= 8
           /\ name = "GET_MASK" => Len(buffer) >= 4
           /\ name = "GET_DATA" => Len(buffer) >= header.payloadLength
<1>1. loop /\ state = name /\ Len(buffer) >= Needed
  BY DEF Turn
<1>2. err = 0 /\ TypeOK /\ Delivered /\ Sums
  BY <1>1 DEF Inv
<1>3. Coherent /\ loop = TRUE /\ writing = TRUE /\ job \in Seq(Byte)
  BY <1>1, <1>2 DEF TypeOK, Coherent
<1>4. /\ name \in {"GET_INFO", "GET_PAYLOAD_LENGTH_16"} => Needed = 2
      /\ name = "GET_PAYLOAD_LENGTH_64" => Needed = 8
      /\ name = "GET_MASK" => Needed = 4
      /\ name = "GET_DATA" => Needed = header.payloadLength
  BY <1>1 DEF Needed
<1> QED
  BY <1>1, <1>2, <1>3, <1>4

LEMMA SumsKept ==
    ASSUME TypeOK, Sums, UNCHANGED <<options, frames, state, header, message>>
    PROVE  Sums'
<1>1. MaxPayload' = MaxPayload
  BY InputsKept
<1>2. Pending' = Pending
  BY DEF Pending
<1> QED
  BY <1>1, <1>2 DEF Sums, Limited

LEMMA StarveOK ==
    ASSUME Inv, Starve
    PROVE  Inv'
<1>1. /\ loop /\ Len(buffer) < Needed /\ loop' = FALSE /\ writing' = FALSE
      /\ UNCHANGED Inputs /\ UNCHANGED Rest /\ UNCHANGED <<buffer, state, err, header, message>>
  BY DEF Starve, Inputs, Rest
<1>2. TypeOK /\ Delivered /\ Sums /\ err = 0 /\ Coherent
  BY <1>1 DEF Inv, TypeOK
<1>3. state # "INFLATING"
  <2>1. state = "INFLATING" => Needed = 0
    BY DEF Needed
  <2>2. Len(buffer) \in Nat
    BY <1>2 DEF TypeOK
  <2> QED
    BY <1>1, <2>1, <2>2
<1>4. Coherent'
  BY <1>1, <1>2, <1>3 DEF Coherent, Rest
<1>5. TypeOK'
  <2>1. /\ job' \in Seq(Byte) /\ buffer' \in Seq(Byte) /\ header' \in Headers
        /\ message' \in Messages /\ state' \in States /\ UNCHANGED <<ended, parsed, events>>
    BY <1>1, <1>2 DEF TypeOK, Rest
  <2>2. err' \in {0, 1002, 1007, 1009} /\ loop' \in BOOLEAN /\ writing' \in BOOLEAN
    BY <1>1, <1>2
  <2> QED
    BY <1>1, <1>2, <1>4, <2>1, <2>2, TypesKept
<1>6. Delivered'
  BY <1>1, <1>2, DeliveredKept DEF Inputs, Rest
<1>7. Sums'
  BY <1>1, <1>2, SumsKept DEF Inputs
<1> QED
  BY <1>1, <1>5, <1>6, <1>7 DEF Inv

LEMMA WriteOK ==
    ASSUME Inv, Write
    PROVE  Inv'
<1>1. PICK n \in 1 .. Len(unread) :
        /\ err = 0 /\ ~writing
        /\ unread' = SubSeq(unread, n + 1, Len(unread))
        /\ \/ UNCHANGED <<buffer, loop, writing>>
           \/ /\ buffer' = buffer \o SubSeq(unread, 1, n)
              /\ loop' = TRUE
              /\ writing' = TRUE
        /\ UNCHANGED <<options, frames, state, err, header, message, job, ended, parsed, events>>
  BY DEF Write
<1>2. TypeOK /\ Delivered /\ Sums /\ err = 0 /\ Coherent
  BY <1>1 DEF Inv, TypeOK
<1>3. unread' \in Seq(Byte) /\ SubSeq(unread, 1, n) \in Seq(Byte)
  BY <1>1, <1>2, SubSeqProperties DEF TypeOK
<1>4. /\ buffer' \in Seq(Byte) /\ loop' \in BOOLEAN /\ writing' \in BOOLEAN
      /\ state # "INFLATING" /\ ~loop
      /\ loop' => writing'
      /\ writing' => loop'
  <2>1. buffer \in Seq(Byte) /\ loop = FALSE /\ writing = FALSE /\ state # "INFLATING"
    BY <1>1, <1>2 DEF TypeOK, Coherent
  <2>2. CASE UNCHANGED <<buffer, loop, writing>>
    BY <2>1, <2>2
  <2>3. CASE buffer' = buffer \o SubSeq(unread, 1, n) /\ loop' = TRUE /\ writing' = TRUE
    BY <1>3, <2>1, <2>3, ConcatProperties
  <2> QED
    BY <1>1, <2>2, <2>3
<1>5. Coherent'
  BY <1>1, <1>2, <1>4 DEF Coherent
<1>6. TypeOK'
  <2>1. Given'
    BY <1>1, <1>2, InputsKept
  <2>2. /\ job' \in Seq(Byte) /\ header' \in Headers /\ message' \in Messages
        /\ state' \in States /\ err' \in {0, 1002, 1007, 1009} /\ ended' \in BOOLEAN
        /\ parsed' \in Nat /\ events' \in Seq(Events)
    BY <1>1, <1>2 DEF TypeOK
  <2> QED
    BY <1>3, <1>4, <1>5, <2>1, <2>2 DEF TypeOK
<1>7. Delivered'
  BY <1>1, <1>2, DeliveredKept
<1>8. Sums'
  BY <1>1, <1>2, SumsKept
<1> QED
  BY <1>1, <1>6, <1>7, <1>8 DEF Inv

-----------------------------------------------------------------------------
(* Headers and messages with a field changed. *)
LEMMA HeaderFields ==
    ASSUME NEW h \in Headers
    PROVE  /\ \A n \in Nat : LET g == [h EXCEPT !.payloadLength = n]
                             IN g \in Headers /\ g.fin = h.fin
           /\ \A k \in Seq(Byte) : LET g == [h EXCEPT !.mask = k]
                                   IN /\ g \in Headers /\ g.fin = h.fin /\ g.opcode = h.opcode
                                      /\ g.payloadLength = h.payloadLength /\ g.mask = k
BY DEF Headers

(* While a header is read nothing of the frame is counted. *)
LEMMA NothingPending ==
    ASSUME Inv, NEW name \in {"GET_PAYLOAD_LENGTH_16", "GET_PAYLOAD_LENGTH_64"}, Turn(name),
           NEW n \in Nat
    PROVE  Uncounted([header EXCEPT !.payloadLength = n], message)
<1>1. TypeOK /\ Sums /\ state = name
  BY TurnReads DEF States
<1>2. Pending = 0
  BY <1>1 DEF Pending
<1>3. [header EXCEPT !.payloadLength = n].fin = header.fin
  BY <1>1, HeaderFields DEF TypeOK
<1>4. message \in Messages
  BY <1>1 DEF TypeOK
<1> QED
  BY <1>1, <1>2, <1>3, <1>4 DEF Sums, Uncounted, Messages

LEMMA GetPayloadLength16OK ==
    ASSUME Inv, GetPayloadLength16
    PROVE  Inv'
<1>1. /\ Turn("GET_PAYLOAD_LENGTH_16") /\ Consume(2)
      /\ HaveLength([header EXCEPT !.payloadLength = UInt16(buffer)], message)
      /\ UNCHANGED Inputs /\ UNCHANGED Rest
  BY DEF GetPayloadLength16, Inputs, Rest
<1>2. /\ TypeOK /\ loop /\ err = 0 /\ state = "GET_PAYLOAD_LENGTH_16" /\ Len(buffer) >= 2
  BY <1>1, TurnReads DEF States
<1>3. buffer \in Seq(Byte) /\ header \in Headers /\ message \in Messages
  BY <1>2 DEF TypeOK
<1>4. UInt16(buffer) \in Nat
  BY <1>2, <1>3, NumbersRead
<1>5. buffer' \in Seq(Byte)
  BY <1>1, <1>2, <1>3, ConsumeOK DEF Consume
<1> DEFINE h == [header EXCEPT !.payloadLength = UInt16(buffer)]
<1>6. h \in Headers
  BY <1>3, <1>4, HeaderFields
<1>7. Uncounted(h, message)
  BY <1>1, <1>4, NothingPending
<1>8. HaveLength(h, message)
  BY <1>1
<1>9. state \in States \ {"GET_DATA", "INFLATING"}
  BY <1>2 DEF States
<1> HIDE DEF h
<1> QED
  BY <1>1, <1>2, <1>3, <1>5, <1>6, <1>7, <1>8, <1>9, HaveLengthOK

LEMMA GetPayloadLength64OK ==
    ASSUME Inv, GetPayloadLength64
    PROVE  Inv'
<1>1. /\ Turn("GET_PAYLOAD_LENGTH_64") /\ Consume(8)
      /\ IF Unsafe(buffer)
           THEN Fail(1009) /\ UNCHANGED <<state, header, message>>
           ELSE HaveLength([header EXCEPT !.payloadLength = UInt64(buffer)], message)
      /\ UNCHANGED Inputs /\ UNCHANGED Rest
  BY DEF GetPayloadLength64, Inputs, Rest
<1>2. /\ TypeOK /\ loop /\ err = 0 /\ state = "GET_PAYLOAD_LENGTH_64" /\ Len(buffer) >= 8
      /\ job \in Seq(Byte)
  BY <1>1, TurnReads DEF States
<1>3. buffer \in Seq(Byte) /\ header \in Headers /\ message \in Messages
  BY <1>2 DEF TypeOK
<1>4. UInt64(buffer) \in Nat
  BY <1>2, <1>3, NumbersRead
<1>5. buffer' \in Seq(Byte)
  BY <1>1, <1>2, <1>3, ConsumeOK DEF Consume
<1>6. CASE Unsafe(buffer)
  <2>1. Fail(1009) /\ UNCHANGED <<state, header, message>>
    BY <1>1, <1>6
  <2>2. /\ job' \in Seq(Byte) /\ header' \in Headers /\ message' \in Messages
        /\ UNCHANGED <<state, ended, parsed, events>>
    BY <1>1, <1>2, <1>3, <2>1 DEF Rest
  <2> QED
    BY <1>1, <1>5, <2>1, <2>2, FailOK
<1>7. CASE ~Unsafe(buffer)
  <2> DEFINE h == [header EXCEPT !.payloadLength = UInt64(buffer)]
  <2>1. h \in Headers
    BY <1>3, <1>4, HeaderFields
  <2>2. Uncounted(h, message)
    BY <1>1, <1>4, NothingPending
  <2>3. HaveLength(h, message)
    BY <1>1, <1>7
  <2>4. state \in States \ {"GET_DATA", "INFLATING"}
    BY <1>2 DEF States
  <2> HIDE DEF h
  <2> QED
    BY <1>1, <1>2, <1>3, <1>5, <2>1, <2>2, <2>3, <2>4, HaveLengthOK
<1> QED
  BY <1>6, <1>7

LEMMA GetMaskOK ==
    ASSUME Inv, GetMask
    PROVE  Inv'
<1>1. /\ Turn("GET_MASK") /\ Consume(4)
      /\ header' = [header EXCEPT !.mask = SubSeq(buffer, 1, 4)]
      /\ state' = "GET_DATA"
      /\ UNCHANGED Inputs /\ UNCHANGED Rest /\ UNCHANGED <<loop, writing, err, message>>
  BY DEF GetMask, Inputs, Rest
<1>2. /\ TypeOK /\ Delivered /\ Sums /\ Coherent /\ loop = TRUE /\ writing = TRUE /\ err = 0
      /\ state = "GET_MASK" /\ Len(buffer) >= 4
  BY <1>1, TurnReads DEF States
<1>3. buffer \in Seq(Byte) /\ header \in Headers /\ message \in Messages
  BY <1>2 DEF TypeOK
<1>4. buffer' \in Seq(Byte) /\ SubSeq(buffer, 1, 4) \in Seq(Byte) /\ Len(SubSeq(buffer, 1, 4)) = 4
  BY <1>1, <1>2, <1>3, ConsumeOK DEF Consume
<1>5. /\ header' \in Headers /\ header'.fin = header.fin /\ header'.opcode = header.opcode
      /\ header'.payloadLength = header.payloadLength /\ Len(header'.mask) = 4
  BY <1>1, <1>3, <1>4, HeaderFields
<1>6. Coherent'
  BY <1>1, <1>2, <1>5 DEF Coherent, Rest
<1>7. TypeOK'
  <2>1. /\ job' \in Seq(Byte) /\ message' \in Messages /\ UNCHANGED <<ended, parsed, events>>
    BY <1>1, <1>2 DEF TypeOK, Rest
  <2>2. err' \in {0, 1002, 1007, 1009} /\ loop' \in BOOLEAN /\ writing' \in BOOLEAN
        /\ state' \in States
    BY <1>1, <1>2 DEF States
  <2> QED
    BY <1>1, <1>2, <1>4, <1>5, <1>6, <2>1, <2>2, TypesKept
<1>8. Delivered'
  BY <1>1, <1>2, DeliveredKept DEF Inputs, Rest
<1>9. Sums'
  <2>1. MaxPayload' = MaxPayload
    BY <1>1, <1>2, InputsKept DEF Inputs
  <2>2. Pending' = Pending
    BY <1>1, <1>2, <1>5 DEF Pending
  <2> QED
    BY <1>1, <1>2, <1>5, <2>1, <2>2 DEF Sums, Limited
<1> QED
  BY <1>1, <1>2, <1>7, <1>8, <1>9 DEF Inv

-----------------------------------------------------------------------------
LEMMA GetInfoOK ==
    ASSUME Inv, GetInfo
    PROVE  Inv'
<1> DEFINE rsv1 == HasBit(buffer[1], 64)
           fin == HasBit(buffer[1], 128)
           masked == HasBit(buffer[2], 128)
           opcode == buffer[1] % 16
           length == buffer[2] % 128
           meant == IF opcode = 0 THEN message.fragmented ELSE opcode
           zipped == IF opcode \in {1, 2} THEN rsv1 ELSE message.compressed
           open == IF ~fin /\ message.fragmented = 0 THEN opcode ELSE message.fragmented
           h == [header EXCEPT !.fin = fin, !.masked = masked, !.opcode = meant,
                               !.payloadLength = length]
           m == [message EXCEPT !.compressed = zipped, !.fragmented = open]
           bad == \/ HasBit(buffer[1], 32) \/ HasBit(buffer[1], 16)
                  \/ rsv1 /\ ~options.deflate
                  \/ BadOpcode(opcode, fin, rsv1, length)
                  \/ h.masked # options.isServer
<1>1. /\ Turn("GET_INFO") /\ Consume(2)
      /\ UNCHANGED Inputs /\ UNCHANGED Rest
      /\ \/ bad /\ Fail(1002) /\ UNCHANGED <<state, header, message>>
         \/ /\ ~bad /\ length \in {126, 127}
            /\ header' = h
            /\ message' = m
            /\ state' = IF length = 126 THEN "GET_PAYLOAD_LENGTH_16" ELSE "GET_PAYLOAD_LENGTH_64"
            /\ UNCHANGED <<loop, writing, err>>
         \/ ~bad /\ length < 126 /\ HaveLength(h, m)
  BY DEF GetInfo, Inputs, Rest
<1>2. /\ TypeOK /\ Delivered /\ Sums /\ Coherent /\ loop = TRUE /\ writing = TRUE /\ err = 0
      /\ state = "GET_INFO" /\ Len(buffer) >= 2 /\ job \in Seq(Byte)
  BY <1>1, TurnReads DEF States
<1>3. /\ buffer \in Seq(Byte) /\ header \in Headers /\ message \in Messages
      /\ message.fragmented \in {0, 1, 2} /\ message.compressed \in BOOLEAN
  BY <1>2 DEF TypeOK, Messages
<1>4. buffer' \in Seq(Byte)
  BY <1>1, <1>2, <1>3, ConsumeOK DEF Consume
<1>5. rsv1 \in BOOLEAN /\ fin \in BOOLEAN /\ masked \in BOOLEAN
  BY DEF HasBit
<1>6. opcode \in Nat /\ length \in Nat
  <2>1. buffer[1] \in Byte /\ buffer[2] \in Byte
    BY <1>2, <1>3
  <2>2. buffer[1] \in Nat /\ buffer[2] \in Nat
    BY <2>1, BytesAreNumbers
  <2> QED
    BY <2>2
<1>7. CASE bad /\ Fail(1002) /\ UNCHANGED <<state, header, message>>
  <2>1. Fail(1002) /\ UNCHANGED <<state, header, message>>
    BY <1>7
  <2>2. /\ job' \in Seq(Byte) /\ header' \in Headers /\ message' \in Messages
        /\ UNCHANGED <<state, ended, parsed, events>>
    BY <1>1, <1>2, <1>3, <2>1 DEF Rest
  <2> QED
    BY <1>1, <1>4, <2>1, <2>2, FailOK
<1>8. ASSUME ~bad PROVE /\ h \in Headers /\ m \in Messages /\ Uncounted(h, m)
  <2>1. ~BadOpcode(opcode, fin, rsv1, length)
    BY <1>8
  <2> HIDE DEF rsv1, fin, masked, opcode, length
  <2>2. /\ opcode \in {0, 1, 2, 8, 9, 10}
        /\ opcode = 0 => message.fragmented # 0
        /\ opcode \in {1, 2} => message.fragmented = 0
        /\ opcode \in {8, 9, 10} => fin
    BY <1>6, <2>1 DEF BadOpcode
  <2>3. meant \in {0, 1, 2, 8, 9, 10} /\ open \in {0, 1, 2} /\ zipped \in BOOLEAN
    BY <1>3, <1>5, <2>2
  <2>4. open = 0 => message.fragmented = 0 /\ fin
    BY <1>5, <2>2
  <2>5. zipped = FALSE => message.compressed = FALSE \/ message.fragmented = 0
    BY <2>2
  <2> HIDE DEF meant, open, zipped
  <2>6. h \in Headers /\ h.fin = fin
    BY <1>3, <1>5, <1>6, <2>3 DEF Headers
  <2>7. /\ m \in Messages /\ m.compressed = zipped /\ m.fragmented = open
        /\ m.messageLength = message.messageLength /\ m.fragments = message.fragments
        /\ m.totalPayloadLength = message.totalPayloadLength
    BY <1>3, <2>3 DEF Messages
  <2> HIDE DEF h, m
  <2>8. Pending = 0
    BY <1>2 DEF Pending
  <2>9. message.fragmented = 0 => message.fragments = <<>> /\ message.totalPayloadLength = 0
    BY <1>2, <2>8 DEF Sums
  <2>10. Uncounted(h, m)
    <3>1. m.messageLength = Len(m.fragments) /\ ~Limited(m.messageLength)
      BY <1>2, <2>7 DEF Sums
    <3>2. ~Limited(m.totalPayloadLength)
      BY <1>2, <2>7 DEF Sums
    <3>3. m.fragmented = 0 => m.fragments = <<>> /\ m.totalPayloadLength = 0 /\ h.fin
      BY <2>4, <2>6, <2>7, <2>9
    <3>4. ~m.compressed => m.totalPayloadLength = Len(m.fragments)
      <4>1. ASSUME ~m.compressed PROVE m.totalPayloadLength = Len(m.fragments)
        <5>1. message.compressed = FALSE \/ message.fragmented = 0
          BY <2>3, <2>5, <2>7, <4>1
        <5>2. CASE message.fragmented = 0
          BY <2>7, <2>9, <5>2
        <5>3. CASE message.compressed = FALSE
          <6>1. message.totalPayloadLength = Len(message.fragments) + 0
            BY <1>2, <2>8, <5>3 DEF Sums
          <6>2. Len(message.fragments) \in Nat
            BY <1>3 DEF Messages
          <6> QED
            BY <2>7, <6>1, <6>2
        <5> QED
          BY <5>1, <5>2, <5>3
      <4> QED
        BY <4>1
    <3> QED
      BY <3>1, <3>2, <3>3, <3>4 DEF Uncounted
  <2> QED
    BY <2>6, <2>7, <2>10
<1>9. CASE ~bad /\ length < 126 /\ HaveLength(h, m)
  <2>1. h \in Headers /\ m \in Messages /\ Uncounted(h, m) /\ HaveLength(h, m)
    BY <1>8, <1>9
  <2>2. state \in States \ {"GET_DATA", "INFLATING"}
    BY <1>2 DEF States
  <2> HIDE DEF h, m
  <2> QED
    BY <1>1, <1>2, <1>4, <2>1, <2>2, HaveLengthOK
<1>10. CASE /\ ~bad /\ length \in {126, 127}
            /\ header' = h
            /\ message' = m
            /\ state' = IF length = 126 THEN "GET_PAYLOAD_LENGTH_16" ELSE "GET_PAYLOAD_LENGTH_64"
            /\ UNCHANGED <<loop, writing, err>>
  <2>1. /\ h \in Headers /\ m \in Messages /\ Uncounted(h, m)
        /\ header' = h /\ message' = m /\ UNCHANGED <<loop, writing, err>>
    BY <1>8, <1>10
  <2>2. state' \in {"GET_PAYLOAD_LENGTH_16", "GET_PAYLOAD_LENGTH_64"}
    BY <1>10
  <2> HIDE DEF h, m
  <2>3. Coherent'
    BY <1>1, <1>2, <2>1, <2>2 DEF Coherent, Rest
  <2>4. TypeOK'
    <3>1. job' \in Seq(Byte) /\ UNCHANGED <<ended, parsed, events>>
      BY <1>1, <1>2 DEF Rest
    <3>2. err' \in {0, 1002, 1007, 1009} /\ loop' \in BOOLEAN /\ writing' \in BOOLEAN
          /\ state' \in States /\ header' \in Headers /\ message' \in Messages
      BY <1>2, <2>1, <2>2 DEF States
    <3> QED
      BY <1>1, <1>2, <1>4, <2>3, <3>1, <3>2, TypesKept
  <2>5. Delivered'
    BY <1>1, <1>2, DeliveredKept DEF Inputs, Rest
  <2>6. MaxPayload' = MaxPayload
    BY <1>1, <1>2, InputsKept DEF Inputs
  <2>7. Pending' = 0
    BY <2>2 DEF Pending
  <2>8. Len(m.fragments) \in Nat
    BY <2>1 DEF Messages
  <2>9. Sums'
    BY <2>1, <2>2, <2>6, <2>7, <2>8 DEF Sums, Uncounted, Limited
  <2> QED
    BY <1>2, <2>1, <2>4, <2>5, <2>9 DEF Inv
<1> QED
  <2> HIDE DEF bad, h, m, length
  <2> QED
    BY <1>1, <1>7, <1>9, <1>10

-----------------------------------------------------------------------------
(* One event more, and none of them above the limit. *)
LEMMA OneMore ==
    ASSUME TypeOK, Delivered, UNCHANGED Inputs, NEW e \in Events,
           e.type \in {"text", "binary"} => ~Limited(Len(e.data)),
           events' = Append(events, e)
    PROVE  events' \in Seq(Events) /\ Delivered'
<1>1. events \in Seq(Events)
  BY DEF TypeOK
<1>2. /\ events' \in Seq(Events) /\ Len(events') = Len(events) + 1
      /\ \A i \in 1 .. Len(events) : events'[i] = events[i]
      /\ events'[Len(events) + 1] = e
  BY <1>1, AppendProperties
<1>3. MaxPayload' = MaxPayload
  BY InputsKept DEF Inputs
<1>4. Delivered'
  <2>1. SUFFICES ASSUME NEW i \in 1 .. Len(events'), events'[i].type \in {"text", "binary"}
                 PROVE  ~(MaxPayload > 0 /\ Len(events'[i].data) > MaxPayload)
    BY <1>3 DEF Delivered, Limited
  <2>2. CASE i \in 1 .. Len(events)
    BY <1>2, <2>1, <2>2 DEF Delivered, Limited
  <2>3. CASE i = Len(events) + 1
    BY <1>2, <2>1, <2>3 DEF Limited
  <2>4. Len(events) \in Nat
    BY <1>1
  <2> QED
    BY <1>2, <2>2, <2>3, <2>4
<1> QED
  BY <1>2, <1>4

LEMMA EventIs ==
    ASSUME NEW t \in {"text", "binary", "ping", "pong", "conclude"}, NEW c \in Nat,
           NEW d \in Seq(Byte)
    PROVE  Event(t, c, d) \in Events /\ Event(t, c, d).type = t /\ Event(t, c, d).data = d
BY DEF Event, Events

(* A frame is taken, with an event or without one. *)
LEMMA TakenOK ==
    ASSUME TypeOK, Delivered, err = 0, writing = TRUE, UNCHANGED Inputs, UNCHANGED header,
           buffer' \in Seq(Byte), job' = <<>>, message' \in Messages,
           \/ Taken(<<>>)
           \/ \E t \in {"text", "binary", "ping", "pong"}, d \in Seq(Byte) :
                 /\ Taken(<<Event(t, 0, d)>>)
                 /\ t \in {"text", "binary"} => ~Limited(Len(d))
    PROVE  /\ TypeOK' /\ Delivered' /\ err' = 0
           /\ state' = "GET_INFO"
<1>1. \/ events' = events
      \/ \E e \in Events : /\ events' = Append(events, e)
                           /\ e.type \in {"text", "binary"} => ~Limited(Len(e.data))
  <2>1. events \in Seq(Events)
    BY DEF TypeOK
  <2>2. CASE Taken(<<>>)
    BY <2>1, <2>2, ConcatEmptySeq DEF Taken
  <2>3. ASSUME NEW t \in {"text", "binary", "ping", "pong"}, NEW d \in Seq(Byte),
               Taken(<<Event(t, 0, d)>>), t \in {"text", "binary"} => ~Limited(Len(d))
        PROVE  \E e \in Events : /\ events' = Append(events, e)
                                 /\ e.type \in {"text", "binary"} => ~Limited(Len(e.data))
    <3> DEFINE e == Event(t, 0, d)
    <3>1. e \in Events /\ e.type = t /\ e.data = d
      BY EventIs
    <3>2. events' = events \o <<e>>
      BY <2>3 DEF Taken
    <3> HIDE DEF e
    <3>3. events' = Append(events, e)
      BY <2>1, <3>1, <3>2, AppendIsConcat
    <3> QED
      BY <2>3, <3>1, <3>3
  <2> QED
    BY <2>2, <2>3
<1>2. /\ state' = "GET_INFO" /\ loop' = TRUE /\ parsed' = parsed + 1
      /\ UNCHANGED <<writing, err, ended>>
  BY DEF Taken
<1>3. events' \in Seq(Events) /\ Delivered'
  <2>1. CASE events' = events
    BY <2>1, DeliveredKept DEF TypeOK, Inputs
  <2>2. CASE \E e \in Events : /\ events' = Append(events, e)
                               /\ e.type \in {"text", "binary"} => ~Limited(Len(e.data))
    BY <2>2, OneMore
  <2> QED
    BY <1>1, <2>1, <2>2
<1>4. Coherent'
  BY <1>2 DEF Coherent
<1>5. Given'
  BY InputsKept DEF Inputs
<1>6. /\ unread' \in Seq(Byte) /\ header' \in Headers /\ ended' \in BOOLEAN /\ parsed' \in Nat
      /\ state' \in States /\ err' \in {0, 1002, 1007, 1009} /\ job' \in Seq(Byte)
      /\ loop' \in BOOLEAN /\ writing' \in BOOLEAN
  BY <1>2 DEF TypeOK, Inputs, States
<1> QED
  BY <1>2, <1>3, <1>4, <1>5, <1>6 DEF TypeOK

(* The message of the frame with its payload. *)
Ready(m) ==
    /\ m.messageLength = Len(m.fragments)
    /\ ~Limited(m.messageLength)
    /\ ~Limited(m.totalPayloadLength)
    /\ ~m.compressed => m.totalPayloadLength = Len(m.fragments)
    /\ m.fragmented = 0 => header.fin

LEMMA DataMessageOK ==
    ASSUME Inv, err = 0, writing = TRUE, NEW m \in Messages, Ready(m), DataMessage(m),
           UNCHANGED Inputs, UNCHANGED header, buffer' \in Seq(Byte), job' = <<>>
    PROVE  Inv'
<1>1. TypeOK /\ Delivered /\ header \in Headers
  BY DEF Inv, TypeOK
<1>2. MaxPayload' = MaxPayload /\ MaxPayload \in Int
  BY <1>1, InputsKept DEF Inputs
<1>3. CASE ~header.fin
  <2>1. message' = m /\ Taken(<<>>)
    BY <1>3 DEF DataMessage
  <2>2. TypeOK' /\ Delivered' /\ err' = 0 /\ state' = "GET_INFO"
    BY <1>1, <2>1, TakenOK
  <2>3. Pending' = 0
    BY <2>2 DEF Pending
  <2>4. Len(m.fragments) \in Nat
    BY DEF Messages
  <2>5. Sums'
    BY <1>2, <1>3, <2>1, <2>3, <2>4 DEF Sums, Ready, Limited
  <2> QED
    BY <2>2, <2>5 DEF Inv
<1>4. CASE header.fin
  <2> DEFINE done == [NoMessage EXCEPT !.compressed = m.compressed]
  <2>1. /\ message' = done
        /\ \/ Taken(<<Event("binary", 0, m.fragments)>>)
           \/ Refuse(1007)
           \/ Taken(<<Event("text", 0, m.fragments)>>)
    BY <1>4 DEF DataMessage
  <2>2. /\ done \in Messages /\ done.totalPayloadLength = 0 /\ done.messageLength = 0
        /\ done.fragments = <<>>
    <3>1. <<>> \in Seq(Byte)
      BY EmptySeq
    <3>2. m.compressed \in BOOLEAN
      BY DEF Messages
    <3> QED
      BY <3>1, <3>2 DEF NoMessage, Messages
  <2> HIDE DEF done
  <2>3. CASE Refuse(1007)
    <3>1. Fail(1007) /\ UNCHANGED <<state, ended, parsed, events>>
      BY <2>3 DEF Refuse
    <3>2. header' \in Headers /\ message' \in Messages /\ job' \in Seq(Byte)
      BY <1>1, <2>1, <2>2
    <3> QED
      BY <3>1, <3>2, FailOK
  <2>4. CASE Taken(<<Event("binary", 0, m.fragments)>>) \/ Taken(<<Event("text", 0, m.fragments)>>)
    <3>1. m.fragments \in Seq(Byte) /\ ~Limited(Len(m.fragments)) /\ message' \in Messages
      BY <2>1, <2>2 DEF Ready, Messages
    <3>2. \E t \in {"text", "binary", "ping", "pong"}, d \in Seq(Byte) :
                 /\ Taken(<<Event(t, 0, d)>>)
                 /\ t \in {"text", "binary"} => ~Limited(Len(d))
      BY <2>4, <3>1
    <3>3. TypeOK' /\ Delivered' /\ err' = 0 /\ state' = "GET_INFO"
      BY <1>1, <3>1, <3>2, TakenOK
    <3>4. Pending' = 0
      BY <3>3 DEF Pending
    <3>5. /\ message'.totalPayloadLength = 0 /\ message'.messageLength = 0
          /\ message'.fragments = <<>> /\ Len(<<>>) = 0
      BY <2>1, <2>2
    <3>6. ~Limited(message.messageLength)' /\ ~Limited(message.totalPayloadLength)'
      BY <1>2, <3>5 DEF Limited
    <3>7. Sums'
      BY <3>3, <3>4, <3>5, <3>6 DEF Sums
    <3> QED
      BY <3>3, <3>7 DEF Inv
  <2> QED
    BY <2>1, <2>3, <2>4
<1> QED
  BY <1>3, <1>4

-----------------------------------------------------------------------------
(* The payload is as long as the header says. *)
LEMMA PayloadRead ==
    ASSUME Inv, Turn("GET_DATA")
    PROVE  Payload \in Seq(Byte) /\ Len(Payload) = header.payloadLength
<1>1. /\ TypeOK /\ Coherent /\ state = "GET_DATA" /\ Len(buffer) >= header.payloadLength
  BY TurnReads DEF States
<1>2. /\ buffer \in Seq(Byte) /\ header.payloadLength \in Nat /\ header.mask \in Seq(Byte)
      /\ header.masked => Len(header.mask) = 4
  BY <1>1 DEF TypeOK, Headers, Coherent
<1> DEFINE bytes == SubSeq(buffer, 1, header.payloadLength)
<1>3. bytes \in Seq(Byte) /\ Len(bytes) = header.payloadLength
  BY <1>1, <1>2, ConsumeOK
<1>4. Payload = IF header.masked THEN Masked(bytes, header.mask) ELSE bytes
  BY DEF Payload
<1> HIDE DEF bytes
<1>5. CASE header.masked
  <2>1. header.mask \in [1 .. 4 -> Byte]
    BY <1>2, <1>5, LenProperties
  <2> QED
    BY <1>3, <1>4, <1>5, <2>1, UnmaskMasked
<1> QED
  BY <1>3, <1>4, <1>5

(* The message with the payload of its frame. *)
LEMMA KeepOK ==
    ASSUME TypeOK, Sums, NEW data \in Seq(Byte), NEW n \in Nat,
           data # <<>> => n = message.messageLength + Len(data) /\ ~Limited(n),
           state # "GET_INFO",
           ~message.compressed => message.totalPayloadLength = Len(message.fragments) + Len(data)
    PROVE  Keep(data, n) \in Messages /\ Ready(Keep(data, n))
<1>1. message \in Messages
  BY DEF TypeOK
<1>2. message.fragments \in Seq(Byte)
  BY <1>1 DEF Messages
<1>3. CASE data = <<>>
  <2>1. Keep(data, n) = message
    BY <1>3 DEF Keep
  <2>2. Len(data) = 0 /\ Len(message.fragments) \in Nat
    BY <1>2, <1>3
  <2> QED
    BY <1>1, <2>1, <2>2 DEF Sums, Ready
<1>4. CASE data # <<>>
  <2> DEFINE more == message.fragments \o data
             k == [message EXCEPT !.messageLength = n, !.fragments = more]
  <2>1. Keep(data, n) = k
    BY <1>4 DEF Keep
  <2>2. more \in Seq(Byte) /\ Len(more) = Len(message.fragments) + Len(data)
    BY <1>2, ConcatProperties
  <2> HIDE DEF more
  <2>3. /\ k \in Messages /\ k.messageLength = n /\ k.fragments = more
        /\ k.compressed = message.compressed /\ k.fragmented = message.fragmented
        /\ k.totalPayloadLength = message.totalPayloadLength
    BY <1>1, <2>2 DEF Messages
  <2> HIDE DEF k
  <2>4. Ready(k)
    BY <1>4, <2>2, <2>3 DEF Sums, Ready
  <2> QED
    BY <2>1, <2>3, <2>4
<1> QED
  BY <1>3, <1>4

LEMMA ControlMessageOK ==
    ASSUME Inv, Turn("GET_DATA"), header.opcode > 7, NEW data \in Seq(Byte), ControlMessage(data),
           UNCHANGED Inputs, UNCHANGED <<header, message, job>>, buffer' \in Seq(Byte)
    PROVE  Inv'
<1>1. /\ TypeOK /\ Delivered /\ Sums /\ Coherent /\ loop = TRUE /\ writing = TRUE /\ err = 0
      /\ state = "GET_DATA"
  BY TurnReads DEF States
<1>2. job = <<>> /\ message \in Messages /\ header \in Headers /\ message.totalPayloadLength \in Nat
  BY <1>1 DEF TypeOK, Coherent, Messages
<1> DEFINE code == UInt16(data)
           reason == SubSeq(data, 3, Len(data))
<1>3. \/ Taken(<<Event("ping", 0, data)>>)
      \/ Taken(<<Event("pong", 0, data)>>)
      \/ data = <<>> /\ Conclude(1005, <<>>)
      \/ Refuse(1002)
      \/ Refuse(1007)
      \/ data # <<>> /\ Len(data) # 1 /\ Conclude(code, reason)
  BY DEF ControlMessage
<1>4. MaxPayload' = MaxPayload
  BY <1>1, InputsKept DEF Inputs
<1>5. ASSUME TypeOK', Delivered', err' = 0, state' = "GET_INFO"
      PROVE  Inv'
  <2>1. Pending = 0 /\ Pending' = 0
    <3>1. header.opcode \in {0, 1, 2, 8, 9, 10}
      BY <1>2 DEF Headers
    <3> QED
      BY <1>5, <3>1 DEF Pending
  <2>2. Sums'
    BY <1>1, <1>4, <1>5, <2>1 DEF Sums, Limited
  <2> QED
    BY <1>5, <2>2 DEF Inv
<1>6. CASE Taken(<<Event("ping", 0, data)>>) \/ Taken(<<Event("pong", 0, data)>>)
  <2>1. \E t \in {"text", "binary", "ping", "pong"}, d \in Seq(Byte) :
                 /\ Taken(<<Event(t, 0, d)>>)
                 /\ t \in {"text", "binary"} => ~Limited(Len(d))
    BY <1>6
  <2>2. TypeOK' /\ Delivered' /\ err' = 0 /\ state' = "GET_INFO"
    BY <1>1, <1>2, <2>1, TakenOK
  <2> QED
    BY <1>5, <2>2
<1>7. CASE Refuse(1002) \/ Refuse(1007)
  <2>1. PICK c \in {1002, 1007} : Fail(c) /\ UNCHANGED <<state, ended, parsed, events>>
    BY <1>7 DEF Refuse
  <2>2. header' \in Headers /\ message' \in Messages /\ job' \in Seq(Byte)
    BY <1>2
  <2> QED
    BY <2>1, <2>2, FailOK
<1>8. ASSUME NEW c \in Nat, NEW r \in Seq(Byte), Conclude(c, r)
      PROVE  Inv'
  <2> DEFINE e == Event("conclude", c, r)
  <2>1. e \in Events /\ e.type = "conclude"
    BY EventIs
  <2>2. /\ events' = Append(events, e) /\ parsed' = parsed + 1 /\ state' = "GET_INFO"
        /\ loop' = FALSE /\ writing' = FALSE /\ ended' = TRUE /\ err' = err
    BY <1>8 DEF Conclude
  <2> HIDE DEF e
  <2>3. events' \in Seq(Events) /\ Delivered'
    BY <1>1, <2>1, <2>2, OneMore
  <2>4. Given'
    BY <1>1, InputsKept DEF Inputs
  <2>5. Coherent'
    BY <1>2, <2>2 DEF Coherent
  <2>6. /\ unread' \in Seq(Byte) /\ parsed' \in Nat
    BY <1>1, <2>2 DEF TypeOK, Inputs
  <2>7. /\ loop' \in BOOLEAN /\ writing' \in BOOLEAN /\ ended' \in BOOLEAN
    BY <2>2
  <2>8. /\ state' \in States /\ err' \in {0, 1002, 1007, 1009}
        /\ header' \in Headers /\ message' \in Messages /\ job' \in Seq(Byte)
    BY <1>1, <1>2, <2>2 DEF States
  <2>9. TypeOK'
    BY <2>3, <2>4, <2>5, <2>6, <2>7, <2>8 DEF TypeOK
  <2> QED
    BY <1>1, <1>5, <2>2, <2>3, <2>9
<1>9. CASE data = <<>> /\ Conclude(1005, <<>>)
  <2>1. 1005 \in Nat /\ <<>> \in Seq(Byte)
    BY EmptySeq
  <2> QED
    BY ZenonT(60), <1>8, <1>9, <2>1
<1>10. CASE data # <<>> /\ Len(data) # 1 /\ Conclude(code, reason)
  <2>1. Len(data) >= 2
    <3> HIDE DEF code, reason
    <3>1. data # <<>> /\ Len(data) # 1
      BY <1>10
    <3>2. Len(data) \in Nat \ {0}
      BY <3>1, EmptySeq
    <3>3. \A n \in Nat \ {0} : n # 1 => n >= 2
      OBVIOUS
    <3> QED
      BY <3>1, <3>2, <3>3
  <2>2. code \in Nat
    BY <2>1, NumbersRead
  <2>3. reason \in Seq(Byte)
    BY <2>1, SubSeqProperties
  <2>4. Conclude(code, reason)
    BY <1>10
  <2> HIDE DEF code, reason
  <2> QED
    BY <1>8, <2>2, <2>3, <2>4
<1> QED
  BY <1>3, <1>6, <1>7, <1>9, <1>10

LEMMA GetDataOK ==
    ASSUME Inv, GetData
    PROVE  Inv'
<1>1. /\ Turn("GET_DATA") /\ Consume(header.payloadLength)
      /\ \/ header.opcode > 7 /\ ControlMessage(Payload) /\ UNCHANGED <<message, job>>
         \/ header.opcode < 8 /\ message.compressed /\ Decompress(Payload) /\ UNCHANGED message
         \/ /\ header.opcode < 8 /\ ~message.compressed
            /\ DataMessage(Keep(Payload, message.totalPayloadLength))
            /\ UNCHANGED job
      /\ UNCHANGED Inputs /\ UNCHANGED header
  BY DEF GetData, Inputs
<1>2. /\ TypeOK /\ Delivered /\ Sums /\ Coherent /\ loop = TRUE /\ writing = TRUE /\ err = 0
      /\ state = "GET_DATA" /\ Len(buffer) >= header.payloadLength
  BY <1>1, TurnReads DEF States
<1>3. /\ job = <<>> /\ buffer \in Seq(Byte) /\ header \in Headers /\ header.payloadLength \in Nat
      /\ message \in Messages
  BY <1>2 DEF TypeOK, Coherent, Headers
<1>4. buffer' \in Seq(Byte)
  BY <1>1, <1>2, <1>3, ConsumeOK DEF Consume
<1>5. Payload \in Seq(Byte) /\ Len(Payload) = header.payloadLength
  BY <1>1, PayloadRead
<1>6. CASE header.opcode > 7 /\ ControlMessage(Payload) /\ UNCHANGED <<message, job>>
  BY <1>1, <1>4, <1>5, <1>6, ControlMessageOK
<1>7. CASE header.opcode < 8 /\ message.compressed /\ Decompress(Payload) /\ UNCHANGED message
  <2>1. /\ job' = Payload /\ state' = "INFLATING" /\ loop' = FALSE
        /\ UNCHANGED <<writing, err, ended, parsed, events, header, message>>
    BY <1>1, <1>7 DEF Decompress
  <2>2. Coherent'
    BY <1>2, <1>7, <2>1 DEF Coherent
  <2>3. TypeOK'
    <3>1. job' \in Seq(Byte) /\ header' \in Headers /\ message' \in Messages
          /\ UNCHANGED <<ended, parsed, events>>
      BY <1>3, <1>5, <2>1
    <3>2. err' \in {0, 1002, 1007, 1009} /\ loop' \in BOOLEAN /\ writing' \in BOOLEAN
          /\ state' \in States
      BY <1>2, <2>1 DEF States
    <3> QED
      BY <1>1, <1>2, <1>4, <2>2, <3>1, <3>2, TypesKept
  <2>4. Delivered'
    BY <1>1, <1>2, <2>1, DeliveredKept DEF Inputs
  <2>5. MaxPayload' = MaxPayload
    BY <1>1, <1>2, InputsKept DEF Inputs
  <2>6. Sums'
    BY <1>2, <1>7, <2>1, <2>5 DEF Sums, Limited
  <2> QED
    BY <1>2, <2>1, <2>3, <2>4, <2>6 DEF Inv
<1>8. CASE /\ header.opcode < 8 /\ ~message.compressed
           /\ DataMessage(Keep(Payload, message.totalPayloadLength))
           /\ UNCHANGED job
  <2> DEFINE m == Keep(Payload, message.totalPayloadLength)
  <2>1. message.totalPayloadLength = Len(message.fragments) + Len(Payload)
    BY <1>2, <1>5, <1>8 DEF Sums, Pending
  <2>2. /\ message.totalPayloadLength \in Nat
        /\ message.messageLength = Len(message.fragments)
        /\ ~Limited(message.totalPayloadLength)
    BY <1>2, <1>3 DEF Sums, Messages
  <2>3. m \in Messages /\ Ready(m)
    BY <1>2, <1>5, <2>1, <2>2, KeepOK
  <2>4. DataMessage(m) /\ job' = <<>>
    BY <1>3, <1>8
  <2> HIDE DEF m
  <2> QED
    BY <1>1, <1>2, <1>4, <2>3, <2>4, DataMessageOK
<1> QED
  BY <1>1, <1>6, <1>7, <1>8

LEMMA InflateDoneOK ==
    ASSUME ZlibGivesBytes, Inv, InflateDone
    PROVE  Inv'
<1>1. /\ err = 0 /\ ~loop /\ state = "INFLATING" /\ job' = <<>>
      /\ \/ \E code \in DecompressErrors(job) : Refuse(code) /\ UNCHANGED message
         \/ Decompressed(Inflate(job))
      /\ UNCHANGED Inputs /\ UNCHANGED <<buffer, header>>
  BY DEF InflateDone, Inputs
<1>2. TypeOK /\ Delivered /\ Sums /\ Coherent
  BY <1>1 DEF Inv, TypeOK
<1>3. /\ message \in Messages /\ header \in Headers /\ buffer' \in Seq(Byte) /\ job \in Seq(Byte)
      /\ job' \in Seq(Byte) /\ writing = TRUE /\ message.compressed
  BY <1>1, <1>2, EmptySeq DEF TypeOK, Coherent
<1>4. Inflate(job) \in Seq(Byte)
  BY <1>3 DEF ZlibGivesBytes
<1>5. ASSUME NEW code \in {1007, 1009}, Refuse(code), message' \in Messages
      PROVE  Inv'
  <2>1. Fail(code) /\ UNCHANGED <<state, ended, parsed, events>>
    BY <1>5 DEF Refuse
  <2>2. header' \in Headers
    BY <1>1, <1>3
  <2> QED
    BY <1>1, <1>3, <1>5, <2>1, <2>2, FailOK
<1>6. CASE \E code \in DecompressErrors(job) : Refuse(code) /\ UNCHANGED message
  <2>1. PICK code \in {1007, 1009} : Refuse(code) /\ UNCHANGED message
    BY <1>6 DEF DecompressErrors
  <2> QED
    BY <1>3, <1>5, <2>1
<1>7. CASE Decompressed(Inflate(job))
  <2> DEFINE data == Inflate(job)
             length == message.messageLength + Len(data)
             m == Keep(data, length)
  <2>1. message.messageLength \in Nat /\ Len(data) \in Nat
    BY <1>3, <1>4 DEF Messages
  <2>2. length \in Nat
    BY <2>1
  <2>3. \/ Refuse(1009) /\ message' = [message EXCEPT !.messageLength = length]
        \/ (data # <<>> => ~Limited(length)) /\ DataMessage(m)
    BY <1>7 DEF Decompressed
  <2>4. CASE Refuse(1009) /\ message' = [message EXCEPT !.messageLength = length]
    <3>1. message' \in Messages
      <4> HIDE DEF length
      <4> QED
        BY <1>3, <2>2, <2>4 DEF Messages
    <3> QED
      BY <1>5, <2>4, <3>1
  <2>5. CASE (data # <<>> => ~Limited(length)) /\ DataMessage(m)
    <3>1. data # <<>> => length = message.messageLength + Len(data) /\ ~Limited(length)
      BY <2>5
    <3>2. state # "GET_INFO" /\ data \in Seq(Byte)
      BY <1>1, <1>4
    <3>3. DataMessage(m)
      BY <2>5
    <3> HIDE DEF data, length
    <3>4. m \in Messages /\ Ready(m)
      BY <1>2, <1>3, <2>2, <3>1, <3>2, KeepOK
    <3> HIDE DEF m
    <3> QED
      BY <1>1, <1>3, <3>3, <3>4, DataMessageOK
  <2> QED
    BY <2>3, <2>4, <2>5
<1> QED
  BY <1>1, <1>6, <1>7

-----------------------------------------------------------------------------
LEMMA InvNext ==
    ASSUME ZlibGivesBytes, Inv, [Next]_vars
    PROVE  Inv'
<1>1. CASE Write
  BY <1>1, WriteOK
<1>2. CASE Starve
  BY <1>2, StarveOK
<1>3. CASE GetInfo
  BY <1>3, GetInfoOK
<1>4. CASE GetPayloadLength16
  BY <1>4, GetPayloadLength16OK
<1>5. CASE GetPayloadLength64
  BY <1>5, GetPayloadLength64OK
<1>6. CASE GetMask
  BY <1>6, GetMaskOK
<1>7. CASE GetData
  BY <1>7, GetDataOK
<1>8. CASE InflateDone
  BY <1>8, InflateDoneOK
<1>9. CASE UNCHANGED vars
  <2>1. UNCHANGED <<options, frames, unread, buffer, state, loop, writing, err, header, message,
                    job, ended, parsed, events>>
    BY <1>9 DEF vars, parser
  <2>2. TypeOK'
    <3>1. Given'
      BY <2>1 DEF Inv, TypeOK, Given
    <3>2. err' = 0 => Coherent'
      BY <2>1 DEF Inv, TypeOK, Coherent
    <3> QED
      BY <2>1, <3>1, <3>2 DEF Inv, TypeOK
  <2>3. Delivered'
    BY <2>1, DeliveredKept DEF Inv
  <2>4. err' = 0 => Sums'
    BY <2>1, SumsKept DEF Inv
  <2> QED
    BY <2>1, <2>2, <2>3, <2>4 DEF Inv
<1> QED
  BY <1>1, <1>2, <1>3, <1>4, <1>5, <1>6, <1>7, <1>8, <1>9 DEF Next, Step

THEOREM Invariance == ASSUME ZlibGivesBytes PROVE Spec => []Inv
<1>1. Init => Inv
  BY InitOK
<1>2. Inv /\ [Next]_vars => Inv'
  BY InvNext
<1> QED
  BY <1>1, <1>2, PTL DEF Spec

(* In each of its states the parser has what the state needs: a chunk to    *)
(* answer while it runs, a key where the peer masks, data at zlib only      *)
(* while it waits for it; and all its numbers are numbers.                  *)
THEOREM TypeCorrect == ASSUME ZlibGivesBytes PROVE Spec => []TypeOK
<1>1. Inv => TypeOK
  BY DEF Inv
<1> QED
  BY <1>1, Invariance, PTL

(* No message above maxPayload is kept or delivered, whatever the frames,   *)
(* the cuts and what zlib makes of the payloads.                            *)
THEOREM LimitIsKept == ASSUME ZlibGivesBytes PROVE Spec => []LimitHolds
<1>1. Inv => LimitHolds
  BY DEF Inv, LimitHolds, Sums, Delivered
<1> QED
  BY <1>1, Invariance, PTL

-----------------------------------------------------------------------------
(* The rules of the decoder, on frames fs. *)
Control(fs, i) == fs[i].opcode >= 8

DataUpto(fs, k) == {i \in 1 .. k : ~Control(fs, i)}

(* A message is open behind the first k frames. *)
OpenBehind(fs, k) == \E i \in DataUpto(fs, k) : /\ \A j \in DataUpto(fs, k) : j <= i
                                                /\ ~fs[i].fin

(* Frame o opened the message that frame k belongs to. *)
Opens(fs, o, k) == /\ o \in 1 .. k
                   /\ fs[o].opcode \in {1, 2}
                   /\ \A j \in o + 1 .. k : fs[j].opcode \notin {1, 2}

(* What frame i brings of the message that frame o opened, as it comes and  *)
(* as it is meant, and what the frames from o up to k bring.                *)
Raw(fs, i) == IF Control(fs, i) THEN <<>> ELSE fs[i].payload

Meant(fs, o, i) == IF Control(fs, i) THEN <<>>
                   ELSE IF fs[o].rsv1 THEN Inflate(fs[i].payload) ELSE fs[i].payload

RawUpto(fs, o, k) == FlattenSeq([n \in 1 .. k - o + 1 |-> Raw(fs, o + n - 1)])
MeantUpto(fs, o, k) == FlattenSeq([n \in 1 .. k - o + 1 |-> Meant(fs, o, o + n - 1)])

HeaderFine(fs, deflate, isServer, k) ==
    LET f == fs[k]
    IN /\ ~f.rsv2
       /\ f.rsv1 => deflate /\ f.opcode \in {1, 2}
       /\ f.opcode \in {0, 1, 2, 8, 9, 10}
       /\ f.opcode = 0 => OpenBehind(fs, k - 1)
       /\ f.opcode \in {1, 2} => ~OpenBehind(fs, k - 1)
       /\ Control(fs, k) => f.fin /\ f.form <= 125
       /\ (f.mask # <<>>) = isServer

(* The operators the two modules share. *)
LEMMA DecoderOperators ==
    /\ \A s : Decoder!FlattenSeq(s) = FlattenSeq(s)
    /\ \A s : Decoder!UInt16(s) = UInt16(s)
    /\ \A c : Decoder!IsValidStatusCode(c) = IsValidStatusCode(c)
    /\ \A s : Decoder!IsValidUTF8(s) = IsValidUTF8(s)
<1>1. ASSUME NEW s PROVE Decoder!FlattenSeq(s) = FlattenSeq(s)
  BY Zenon DEF Decoder!FlattenSeq, FlattenSeq
<1>2. ASSUME NEW s PROVE Decoder!UInt16(s) = UInt16(s)
  BY Zenon DEF Decoder!UInt16, UInt16
<1>3. ASSUME NEW c PROVE Decoder!IsValidStatusCode(c) = IsValidStatusCode(c)
  BY Zenon DEF Decoder!IsValidStatusCode, IsValidStatusCode
<1>4. ASSUME NEW s PROVE Decoder!IsValidUTF8(s) = IsValidUTF8(s)
  BY Zenon DEF Decoder!IsValidUTF8, IsValidUTF8, Decoder!Width, Width, Decoder!Continues, Continues
<1> QED BY <1>1, <1>2, <1>3, <1>4

LEMMA DecoderOpen ==
    ASSUME NEW k
    PROVE  Decoder!Open(k) = OpenBehind(frames, k - 1)
BY DEF Decoder!Open, Decoder!DataBefore, Decoder!IsControl, OpenBehind, DataUpto, Control

LEMMA DecoderHeader ==
    ASSUME NEW k
    PROVE  Decoder!HeaderOK(k) <=> HeaderFine(frames, options.deflate, options.isServer, k)
BY DecoderOpen DEF Decoder!HeaderOK, Decoder!IsControl, HeaderFine, Control

LEMMA DecoderOpener ==
    ASSUME NEW k \in Nat, NEW o, Opens(frames, o, k), frames \in Seq(WireFrames), k <= Len(frames)
    PROVE  Decoder!Opener(k) = o
<1> DEFINE Is(i) == /\ frames[i].opcode \in {1, 2}
                    /\ \A j \in i + 1 .. k : frames[j].opcode \notin {1, 2}
<1>1. o \in 1 .. k /\ Is(o)
  BY DEF Opens
<1>2. ASSUME NEW i \in 1 .. k, Is(i) PROVE i = o
  <2>1. CASE i < o
    <3>1. o \in i + 1 .. k
      BY <1>1, <2>1
    <3> QED BY <1>1, <1>2, <3>1
  <2>2. CASE o < i
    <3>1. i \in o + 1 .. k
      BY <1>1, <2>2
    <3> QED BY <1>1, <1>2, <3>1
  <2> QED BY <1>1, <2>1, <2>2
<1>3. Decoder!Opener(k) = CHOOSE i \in 1 .. k : Is(i)
  BY DEF Decoder!Opener
<1> HIDE DEF Is
<1> QED BY <1>1, <1>2, <1>3

LEMMA DecoderContent ==
    ASSUME NEW k \in Nat, NEW o, Opens(frames, o, k), frames \in Seq(WireFrames), k <= Len(frames)
    PROVE  /\ Decoder!Compressed(k) = frames[o].rsv1
           /\ Decoder!Wire(k) = RawUpto(frames, o, k)
           /\ Decoder!Content(k) = MeantUpto(frames, o, k)
<1>1. Decoder!Opener(k) = o
  BY DecoderOpener
<1>2. Decoder!Compressed(k) = frames[o].rsv1
  BY <1>1, Zenon DEF Decoder!Compressed
<1>3. Decoder!Wire(k) = RawUpto(frames, o, k)
  <2> DEFINE W(p) == RawUpto(frames, p, k)
  <2>1. Decoder!Wire(k) = W(Decoder!Opener(k))
    BY DecoderOperators, Zenon DEF Decoder!Wire, RawUpto, Raw, Decoder!IsControl, Control
  <2> HIDE DEF W
  <2>2. Decoder!Wire(k) = W(o)
    BY <1>1, <2>1
  <2> QED BY <2>2 DEF W
<1>4. Decoder!Content(k) = MeantUpto(frames, o, k)
  <2> DEFINE C(p) == MeantUpto(frames, p, k)
  <2>1. Decoder!Content(k) = C(Decoder!Opener(k))
    BY DecoderOperators, Zenon DEF Decoder!Content, MeantUpto, Meant, Decoder!IsControl, Control, Decoder!Compressed
  <2> HIDE DEF C
  <2>2. Decoder!Content(k) = C(o)
    BY <1>1, <2>1
  <2> QED BY <2>2 DEF C
<1> QED BY <1>2, <1>3, <1>4

-----------------------------------------------------------------------------
(* Nothing is open at first; a control frame opens and closes nothing; a    *)
(* data frame leaves its message open unless it is the last.                *)
LEMMA OpenNext ==
    ASSUME NEW fs
    PROVE  /\ ~OpenBehind(fs, 0)
           /\ \A k \in Nat : Control(fs, k + 1) => OpenBehind(fs, k + 1) = OpenBehind(fs, k)
           /\ \A k \in Nat : ~Control(fs, k + 1) => OpenBehind(fs, k + 1) = ~fs[k + 1].fin
<1>1. DataUpto(fs, 0) = {}
  BY DEF DataUpto
<1>2. ASSUME NEW k \in Nat, Control(fs, k + 1) PROVE DataUpto(fs, k + 1) = DataUpto(fs, k)
  <2>1. \A i : i \in 1 .. (k + 1) <=> i \in 1 .. k \/ i = k + 1
    OBVIOUS
  <2> QED BY <1>2, <2>1, Zenon DEF DataUpto
<1>3. ASSUME NEW k \in Nat, ~Control(fs, k + 1)
      PROVE  k + 1 \in DataUpto(fs, k + 1) /\ \A i \in DataUpto(fs, k + 1) : i \in Int /\ i <= k + 1
  BY <1>3 DEF DataUpto
<1>4. ASSUME NEW k \in Nat, ~Control(fs, k + 1) PROVE OpenBehind(fs, k + 1) = ~fs[k + 1].fin
  <2>1. k + 1 \in DataUpto(fs, k + 1) /\ \A i \in DataUpto(fs, k + 1) : i \in Int /\ i <= k + 1
    BY <1>3, <1>4
  <2>2. ASSUME NEW i \in DataUpto(fs, k + 1), \A j \in DataUpto(fs, k + 1) : j <= i
        PROVE  i = k + 1
    <3>1. i \in Int /\ i <= k + 1 /\ k + 1 <= i
      BY <2>1, <2>2
    <3> QED BY <3>1
  <2> QED BY <2>1, <2>2, Zenon DEF OpenBehind
<1> QED BY <1>1, <1>2, <1>4, Zenon DEF OpenBehind

LEMMA OpensNext ==
    ASSUME NEW fs, NEW k \in Nat
    PROVE  /\ fs[k + 1].opcode \in {1, 2} => Opens(fs, k + 1, k + 1)
           /\ \A o : Opens(fs, o, k) /\ fs[k + 1].opcode \notin {1, 2} => Opens(fs, o, k + 1)
<1>1. ASSUME fs[k + 1].opcode \in {1, 2} PROVE Opens(fs, k + 1, k + 1)
  <2>1. k + 1 \in 1 .. (k + 1) /\ ((k + 1) + 1) .. (k + 1) = {}
    OBVIOUS
  <2> QED BY <1>1, <2>1, Zenon DEF Opens
<1>2. ASSUME NEW o, Opens(fs, o, k), fs[k + 1].opcode \notin {1, 2} PROVE Opens(fs, o, k + 1)
  <2>1. o \in 1 .. k
    BY <1>2 DEF Opens
  <2>2. o \in 1 .. (k + 1) /\ \A j \in (o + 1) .. (k + 1) : j \in (o + 1) .. k \/ j = k + 1
    BY <2>1
  <2> QED BY <1>2, <2>2, Zenon DEF Opens
<1> QED BY <1>1, <1>2, Zenon

-----------------------------------------------------------------------------
(* What the frames bring is bytes, and one frame more brings its part of    *)
(* them.                                                                    *)
LEMMA PartTypes ==
    ASSUME ZlibGivesBytes, NEW fs \in Seq(WireFrames), NEW o, NEW i \in 1 .. Len(fs)
    PROVE  Raw(fs, i) \in Seq(Byte) /\ Meant(fs, o, i) \in Seq(Byte)
<1>1. fs[i].payload \in Seq(Byte)
  BY FramePayload, ElementOfSeq
<1>2. Inflate(fs[i].payload) \in Seq(Byte) /\ <<>> \in Seq(Byte)
  BY <1>1, EmptySeq DEF ZlibGivesBytes
<1> QED BY <1>1, <1>2, Zenon DEF Raw, Meant

(* Indices of the frames from o on. *)
LEMMA Indices ==
    ASSUME NEW N \in Nat, NEW k \in 0 .. N, NEW o \in 1 .. k + 1
    PROVE  /\ k - o + 1 \in Nat
           /\ \A n \in 1 .. k - o + 1 : o + n - 1 \in 1 .. N
OBVIOUS

LEMMA UptoTypes ==
    ASSUME ZlibGivesBytes, NEW fs \in Seq(WireFrames), NEW k \in 0 .. Len(fs), NEW o \in 1 .. k + 1
    PROVE  /\ [n \in 1 .. k - o + 1 |-> Raw(fs, o + n - 1)] \in Seq(Seq(Byte))
           /\ [n \in 1 .. k - o + 1 |-> Meant(fs, o, o + n - 1)] \in Seq(Seq(Byte))
           /\ RawUpto(fs, o, k) \in Seq(Byte) /\ MeantUpto(fs, o, k) \in Seq(Byte)
<1> DEFINE N == k - o + 1
           rs == [n \in 1 .. N |-> Raw(fs, o + n - 1)]
           ms == [n \in 1 .. N |-> Meant(fs, o, o + n - 1)]
<1>1. N \in Nat /\ \A n \in 1 .. N : o + n - 1 \in 1 .. Len(fs)
  BY Indices, LenProperties
<1>2. \A n \in 1 .. N : Raw(fs, o + n - 1) \in Seq(Byte) /\ Meant(fs, o, o + n - 1) \in Seq(Byte)
  <2> HIDE DEF N
  <2> QED BY <1>1, PartTypes
<1>3. rs \in [1 .. N -> Seq(Byte)] /\ ms \in [1 .. N -> Seq(Byte)]
  <2> HIDE DEF N
  <2> QED BY <1>2
<1>4. rs \in Seq(Seq(Byte)) /\ ms \in Seq(Seq(Byte))
  <2> HIDE DEF rs, ms, N
  <2>1. /\ rs \in UNION {[1 .. i -> Seq(Byte)] : i \in Nat}
        /\ ms \in UNION {[1 .. i -> Seq(Byte)] : i \in Nat}
    BY <1>1, <1>3
  <2> QED BY <2>1, SeqDef
<1>5. RawUpto(fs, o, k) = FlattenSeq(rs) /\ MeantUpto(fs, o, k) = FlattenSeq(ms)
  BY DEF RawUpto, MeantUpto
<1>6. FlattenSeq(rs) \in Seq(Byte) /\ FlattenSeq(ms) \in Seq(Byte)
  <2> HIDE DEF rs, ms
  <2> QED BY <1>4, FlattenType
<1> QED BY <1>4, <1>5, <1>6

LEMMA UptoNext ==
    ASSUME ZlibGivesBytes, NEW fs \in Seq(WireFrames), NEW k \in 0 .. Len(fs), k < Len(fs),
           NEW o \in 1 .. k + 1
    PROVE  /\ RawUpto(fs, o, k + 1) = Cat(RawUpto(fs, o, k), Raw(fs, k + 1))
           /\ MeantUpto(fs, o, k + 1) = Cat(MeantUpto(fs, o, k), Meant(fs, o, k + 1))
<1> DEFINE N == k - o + 1
           M == (k + 1) - o + 1
           rs == [n \in 1 .. N |-> Raw(fs, o + n - 1)]
           ms == [n \in 1 .. N |-> Meant(fs, o, o + n - 1)]
           rt == [n \in 1 .. M |-> Raw(fs, o + n - 1)]
           mt == [n \in 1 .. M |-> Meant(fs, o, o + n - 1)]
<1>1. N \in Nat /\ M = N + 1 /\ o + (N + 1) - 1 = k + 1 /\ o \in 1 .. (k + 1) + 1
  OBVIOUS
<1>2. /\ rs \in Seq(Seq(Byte)) /\ ms \in Seq(Seq(Byte))
      /\ rt \in Seq(Seq(Byte)) /\ mt \in Seq(Seq(Byte))
  <2>1. k + 1 \in 0 .. Len(fs)
    BY LenProperties
  <2> QED BY <1>1, <2>1, UptoTypes
<1>3. /\ RawUpto(fs, o, k) = FlattenSeq(rs) /\ RawUpto(fs, o, k + 1) = FlattenSeq(rt)
      /\ MeantUpto(fs, o, k) = FlattenSeq(ms) /\ MeantUpto(fs, o, k + 1) = FlattenSeq(mt)
  BY DEF RawUpto, MeantUpto
<1> HIDE DEF N, M
<1>4. Len(rs) = N /\ Len(ms) = N /\ Len(rt) = N + 1 /\ Len(mt) = N + 1
  BY <1>1
<1>5. rt[N + 1] = Raw(fs, k + 1) /\ mt[N + 1] = Meant(fs, o, k + 1)
  <2>1. N + 1 \in 1 .. M
    BY <1>1
  <2> QED BY <1>1, <2>1
<1>6. \A i \in 1 .. N : rt[i] = rs[i] /\ mt[i] = ms[i]
  <2>1. \A i \in 1 .. N : i \in 1 .. M
    BY <1>1
  <2> QED BY <2>1
<1> HIDE DEF rs, ms, rt, mt
<1>7. FlattenSeq(rt) = Cat(FlattenSeq(rs), rt[N + 1]) /\ FlattenSeq(mt) = Cat(FlattenSeq(ms), mt[N + 1])
  BY <1>1, <1>2, <1>4, <1>6, FlattenLast
<1> QED BY <1>3, <1>5, <1>7

(* Frames from behind the last one bring nothing. *)
LEMMA UptoNone ==
    ASSUME NEW fs, NEW k \in Nat
    PROVE  RawUpto(fs, k + 1, k) = <<>> /\ MeantUpto(fs, k + 1, k) = <<>>
<1>1. k - (k + 1) + 1 = 0
  OBVIOUS
<1>2. /\ [n \in 1 .. 0 |-> Raw(fs, k + 1 + n - 1)] = <<>>
      /\ [n \in 1 .. 0 |-> Meant(fs, k + 1, k + 1 + n - 1)] = <<>>
  OBVIOUS
<1> QED BY <1>1, <1>2, FlattenNone DEF RawUpto, MeantUpto

-----------------------------------------------------------------------------
LEMMA DecoderAbove ==
    ASSUME MaxPayload \in Int, NEW b
    PROVE  Decoder!Above(b) <=> Limited(Len(b))
BY DEF Decoder!Above, Limited

LEMMA DecoderText ==
    ASSUME NEW b
    PROVE  Decoder!TextOK(b) <=> ~NotText(b)
BY DecoderOperators, Zenon DEF Decoder!TextOK, NotText

(* A close frame carries nothing, or a valid status code. *)
CloseFine(bytes) == Len(bytes) = 0 \/ (Len(bytes) > 1 /\ IsValidStatusCode(UInt16(bytes)))
ReasonOf(bytes) == SubSeq(bytes, 3, Len(bytes))

LEMMA DecoderClose ==
    ASSUME NEW f
    PROVE  /\ Decoder!CloseOK(f) <=> CloseFine(f.payload)
           /\ Decoder!Reason(f) = ReasonOf(f.payload)
           /\ Decoder!CloseCode(f) = UInt16(f.payload)
BY DecoderOperators, Zenon DEF Decoder!CloseOK, Decoder!CloseCode, Decoder!Reason, CloseFine, ReasonOf

Fine(k) == HeaderFine(frames, options.deflate, options.isServer, k)

(* The rules a frame breaks, code by code. *)
LEMMA DecoderFaults ==
    ASSUME NEW k, MaxPayload \in Int
    PROVE  LET f == frames[k]
               data == Fine(k) /\ ~Control(frames, k) /\ ~f.unsafe
               close == Fine(k) /\ f.opcode = 8
           IN /\ 1002 \in Decoder!Faults(k) <=> ~Fine(k) \/ (close /\ ~CloseFine(f.payload))
              /\ 1007 \in Decoder!Faults(k) <=>
                   \/ close /\ Len(f.payload) > 1 /\ NotText(ReasonOf(f.payload))
                   \/ data /\ f.fin /\ frames[Decoder!Opener(k)].opcode = 1 /\ NotText(Decoder!Content(k))
                   \/ data /\ Decoder!Compressed(k) /\ ~Deflated(f.payload)
              /\ 1009 \in Decoder!Faults(k) <=> f.unsafe \/ (data /\ Limited(Len(Decoder!Content(k))))
              /\ Decoder!Faults(k) \subseteq {1002, 1007, 1009}
              /\ 1007 \in Decoder!Liberties(k) <=>
                   data /\ Decoder!Compressed(k) /\ Limited(Len(Inflate(f.payload)))
              /\ 1009 \in Decoder!Liberties(k) <=> data /\ Limited(Len(Decoder!Wire(k)))
<1> DEFINE f == frames[k]
           data == Fine(k) /\ ~Control(frames, k) /\ ~f.unsafe
           close == Fine(k) /\ f.opcode = 8
           A == ~Fine(k) \/ (close /\ ~CloseFine(f.payload))
           B == \/ close /\ Len(f.payload) > 1 /\ NotText(ReasonOf(f.payload))
                \/ data /\ f.fin /\ frames[Decoder!Opener(k)].opcode = 1 /\ NotText(Decoder!Content(k))
                \/ data /\ Decoder!Compressed(k) /\ ~Deflated(f.payload)
           C == f.unsafe \/ (data /\ Limited(Len(Decoder!Content(k))))
           D == data /\ Decoder!Compressed(k) /\ Limited(Len(Inflate(f.payload)))
           E == data /\ Limited(Len(Decoder!Wire(k)))
<1>1. Decoder!HeaderOK(k) <=> Fine(k)
  BY DecoderHeader DEF Fine
<1>2. Decoder!IsControl(k) <=> Control(frames, k)
  BY Zenon DEF Decoder!IsControl, Control
<1>3. \A b : Decoder!Above(b) <=> Limited(Len(b))
  BY DecoderAbove
<1> DEFINE data0 == Decoder!HeaderOK(k) /\ ~Decoder!IsControl(k) /\ ~f.unsafe
           close0 == Decoder!HeaderOK(k) /\ f.opcode = 8
           zipped0 == data0 /\ Decoder!Compressed(k)
           A0 == ~Decoder!HeaderOK(k) \/ (close0 /\ ~Decoder!CloseOK(f))
           B0 == \/ close0 /\ Len(f.payload) > 1 /\ ~Decoder!TextOK(Decoder!Reason(f))
                 \/ data0 /\ f.fin /\ frames[Decoder!Opener(k)].opcode = 1
                    /\ ~Decoder!TextOK(Decoder!Content(k))
                 \/ zipped0 /\ ~Deflated(f.payload)
           C0 == f.unsafe \/ (data0 /\ Decoder!Above(Decoder!Content(k)))
           D0 == data0 /\ Decoder!Compressed(k) /\ Decoder!Above(Inflate(f.payload))
           E0 == data0 /\ Decoder!Above(Decoder!Wire(k))
<1>4. Decoder!Faults(k) =
        {c \in {1002, 1007, 1009} : CASE c = 1002 -> A0 [] c = 1007 -> B0 [] c = 1009 -> C0}
  BY DEF Decoder!Faults
<1>5. Decoder!Liberties(k) = {c \in {1007, 1009} : IF c = 1009 THEN E0 ELSE D0}
  BY DEF Decoder!Liberties
<1>8. (data0 <=> data) /\ (close0 <=> close)
  BY <1>1, <1>2, Zenon
<1>9. A0 <=> A
  BY <1>1, <1>8, DecoderClose, Zenon
<1>10. B0 <=> B
  BY <1>8, DecoderText, DecoderClose, Zenon
<1>11. (C0 <=> C) /\ (D0 <=> D) /\ (E0 <=> E)
  BY <1>3, <1>8, Zenon
<1> HIDE DEF A, B, C, D, E, A0, B0, C0, D0, E0
<1>12. 1002 # 1007 /\ 1002 # 1009 /\ 1007 # 1009
  OBVIOUS
<1>6. /\ 1002 \in Decoder!Faults(k) <=> A
      /\ 1007 \in Decoder!Faults(k) <=> B
      /\ 1009 \in Decoder!Faults(k) <=> C
      /\ Decoder!Faults(k) \subseteq {1002, 1007, 1009}
  <2>1. 1002 \in Decoder!Faults(k) <=> A0
    BY <1>4, <1>12
  <2>2. 1007 \in Decoder!Faults(k) <=> B0
    BY <1>4, <1>12
  <2>3. 1009 \in Decoder!Faults(k) <=> C0
    BY <1>4, <1>12
  <2>4. Decoder!Faults(k) \subseteq {1002, 1007, 1009}
    <3> DEFINE P(c) == CASE c = 1002 -> A0 [] c = 1007 -> B0 [] c = 1009 -> C0
    <3>1. Decoder!Faults(k) = {c \in {1002, 1007, 1009} : P(c)}
      BY <1>4
    <3> HIDE DEF P
    <3> QED BY <3>1
  <2>5. 1002 \in Decoder!Faults(k) <=> A
    BY <1>9, <2>1, Zenon
  <2>6. 1007 \in Decoder!Faults(k) <=> B
    BY <1>10, <2>2, Zenon
  <2>7. 1009 \in Decoder!Faults(k) <=> C
    BY <1>11, <2>3, Zenon
  <2> QED BY <2>4, <2>5, <2>6, <2>7
<1>7. /\ 1007 \in Decoder!Liberties(k) <=> D
      /\ 1009 \in Decoder!Liberties(k) <=> E
  <2>1. 1009 \in Decoder!Liberties(k) <=> E0
    BY <1>5
  <2>2. 1007 \in Decoder!Liberties(k) <=> D0
    BY <1>5
  <2> QED BY SMTT(30), <1>11, <2>1, <2>2
<1> QED BY <1>6, <1>7 DEF A, B, C, D, E

(* What a frame brings about, opcode by opcode. *)
LEMMA DecoderEffect ==
    ASSUME NEW k
    PROVE  LET f == frames[k]
           IN /\ f.opcode = 8 /\ f.payload = <<>> =>
                   Decoder!Effect(k) = <<Event("conclude", 1005, <<>>)>>
              /\ f.opcode = 8 /\ f.payload # <<>> =>
                   Decoder!Effect(k) = <<Event("conclude", UInt16(f.payload), ReasonOf(f.payload))>>
              /\ f.opcode = 9 => Decoder!Effect(k) = <<Event("ping", 0, f.payload)>>
              /\ f.opcode = 10 => Decoder!Effect(k) = <<Event("pong", 0, f.payload)>>
              /\ f.opcode \in {0, 1, 2} /\ ~f.fin => Decoder!Effect(k) = <<>>
              /\ f.opcode \in {0, 1, 2} /\ f.fin =>
                   Decoder!Effect(k) =
                     <<Event(IF frames[Decoder!Opener(k)].opcode = 1 THEN "text" ELSE "binary", 0,
                             Decoder!Content(k))>>
<1> DEFINE f == frames[k]
           c1 == <<Event("conclude", 1005, <<>>)>>
           c2 == <<Event("conclude", UInt16(f.payload), ReasonOf(f.payload))>>
           p1 == <<Event("ping", 0, f.payload)>>
           p2 == <<Event("pong", 0, f.payload)>>
           d == <<Event(IF frames[Decoder!Opener(k)].opcode = 1 THEN "text" ELSE "binary", 0,
                        Decoder!Content(k))>>
           o == f.opcode
           empty == f.payload = <<>>
           fin == f.fin
<1>1. Decoder!Effect(k) =
        CASE o = 8 -> IF empty THEN c1 ELSE c2
          [] o = 9 -> p1
          [] o = 10 -> p2
          [] o < 8 /\ ~fin -> <<>>
          [] o < 8 /\ fin -> d
  BY ZenonT(60), DecoderClose DEF Decoder!Effect, Event
<1> HIDE DEF c1, c2, p1, p2, d, o, empty, fin
<1>2. /\ o = 8 /\ empty => Decoder!Effect(k) = c1
      /\ o = 8 /\ ~empty => Decoder!Effect(k) = c2
      /\ o = 9 => Decoder!Effect(k) = p1
      /\ o = 10 => Decoder!Effect(k) = p2
      /\ o \in {0, 1, 2} /\ ~fin => Decoder!Effect(k) = <<>>
      /\ o \in {0, 1, 2} /\ fin => Decoder!Effect(k) = d
  BY <1>1
<1> QED BY <1>2, Zenon DEF c1, c2, p1, p2, d, o, empty, fin

-----------------------------------------------------------------------------
(* The bytes between the parser and the end of the stream. *)
Ahead(fs, p, s) ==
    LET f == fs[p + 1]
        behind == Behind(fs, p + 1)
    IN CASE s = "GET_INFO" -> Behind(fs, p)
         [] s \in {"GET_PAYLOAD_LENGTH_16", "GET_PAYLOAD_LENGTH_64"} -> FromLength(f, behind)
         [] s = "GET_MASK" -> FromMask(f, behind)
         [] s = "GET_DATA" -> FromData(f, behind)
         [] s = "INFLATING" -> behind

(* A message m open behind the first p frames is what they brought of it.   *)
Between(fs, p, m) ==
    /\ m.fragmented # 0 <=> OpenBehind(fs, p)
    /\ m.fragmented # 0 =>
         \E o \in 1 .. p : /\ Opens(fs, o, p)
                           /\ m.fragmented = fs[o].opcode
                           /\ m.compressed = fs[o].rsv1
                           /\ m.fragments = MeantUpto(fs, o, p)
                           /\ m.totalPayloadLength = Len(RawUpto(fs, o, p))
    /\ m.fragmented = 0 => m.fragments = <<>> /\ m.totalPayloadLength = 0

(* Of a frame with n bytes counted so far: whose message it belongs to and  *)
(* what was kept of that message.                                           *)
Collects(fs, p, n, h, m) ==
    \E o \in 1 .. p + 1 :
        /\ Opens(fs, o, p + 1)
        /\ h.opcode = fs[o].opcode
        /\ m.compressed = fs[o].rsv1
        /\ m.fragmented \in {0, fs[o].opcode}
        /\ m.fragments = MeantUpto(fs, o, p)
        /\ m.totalPayloadLength = Len(RawUpto(fs, o, p)) + n

(* What was read of the first two bytes of frame p + 1 is what they say. *)
Read(fs, p, n, h, m) ==
    LET f == fs[p + 1]
    IN /\ h.fin = f.fin /\ h.masked = (f.mask # <<>>)
       /\ Control(fs, p + 1) => h.opcode = f.opcode /\ Between(fs, p, m)
       /\ ~Control(fs, p + 1) => Collects(fs, p, n, h, m)

Counted(f, s) == IF s \in {"GET_MASK", "GET_DATA", "INFLATING"} THEN Len(f.payload) ELSE 0

(* What was read of frame p + 1 is what it says. *)
Reading(fs, p, s, h, m, j) ==
    LET f == fs[p + 1]
    IN /\ Read(fs, p, Counted(f, s), h, m)
       /\ s = "GET_PAYLOAD_LENGTH_16" => f.form = 126
       /\ s = "GET_PAYLOAD_LENGTH_64" => f.form = 127
       /\ s \in {"GET_MASK", "GET_DATA", "INFLATING"} => ~f.unsafe /\ h.payloadLength = Len(f.payload)
       /\ s = "GET_MASK" => f.mask # <<>>
       /\ s = "GET_DATA" /\ h.masked => h.mask = f.mask
       /\ s = "INFLATING" => ~Control(fs, p + 1) /\ j = f.payload

Track ==
    /\ parsed \in 0 .. Len(frames)
    /\ Cat(buffer, unread) = Ahead(frames, parsed, state)
    /\ state = "GET_INFO" => Between(frames, parsed, message)
    /\ state # "GET_INFO" => /\ parsed < Len(frames)
                             /\ Fine(parsed + 1)
                             /\ Reading(frames, parsed, state, header, message, job)

(* The receiver has ended behind a close frame, and only there. *)
Ended == /\ ended = (state = "GET_INFO" /\ header.opcode = 8)
         /\ ended => ~loop

IInv == /\ Inv
        /\ err = 0 => Ended
        /\ err = 0 /\ ~ended => Track

-----------------------------------------------------------------------------
LEMMA FramesTyped ==
    ASSUME TypeOK
    PROVE  /\ frames \in Seq(WireFrames) /\ Len(frames) \in Nat
           /\ MaxPayload \in Int /\ options.isServer \in BOOLEAN
<1> DEFINE case == [options |-> options, frames |-> frames]
<1>0. case \in Cases /\ case.frames = frames
  BY DEF TypeOK, Given
<1> HIDE DEF case
<1>1. frames \in Seq(WireFrames)
  BY <1>0, ReceiverAssumption, Zenon
<1>2. Len(frames) \in Nat
  BY <1>1, LenProperties
<1> QED BY <1>1, <1>2, NothingIsLimited

(* What no step of the decoder shows. *)
LEMMA DecoderStutters ==
    ASSUME UNCHANGED <<options, frames, parsed, events, ended, err>>
    PROVE  UNCHANGED Decoder!vars
BY DEF Decoder!vars, MaxPayload

LEMMA DecoderRejects ==
    ASSUME err = 0, ~ended, parsed < Len(frames),
           err' \in Decoder!Faults(parsed + 1) \cup Decoder!Liberties(parsed + 1),
           UNCHANGED <<options, frames, parsed, events, ended>>
    PROVE  Decoder!Next
BY DEF Decoder!Next, Decoder!Reject, Decoder!Waiting, MaxPayload

LEMMA DecoderAccepts ==
    ASSUME err = 0, ~ended, parsed < Len(frames), Decoder!Faults(parsed + 1) = {},
           parsed' = parsed + 1, events' = events \o Decoder!Effect(parsed + 1),
           ended' = (frames[parsed + 1].opcode = 8), UNCHANGED <<options, frames, err>>
    PROVE  Decoder!Next
BY DEF Decoder!Next, Decoder!Accept, Decoder!Waiting, MaxPayload

-----------------------------------------------------------------------------
(* A sequence is its beginning and its end. *)
LEMMA CatSplit ==
    ASSUME NEW S, NEW u \in Seq(S), NEW n \in 1 .. Len(u)
    PROVE  Cat(SubSeq(u, 1, n), SubSeq(u, n + 1, Len(u))) = u
<1>1. /\ 1 \in 1 .. Len(u) + 1 /\ n \in 1 - 1 .. Len(u) /\ Len(u) \in n .. Len(u)
  BY LenProperties
<1>2. SubSeq(u, 1, n) \o SubSeq(u, n + 1, Len(u)) = SubSeq(u, 1, Len(u))
  BY <1>1, ConcatAdjacentSubSeq
<1>3. SubSeq(u, 1, Len(u)) = u
  BY SubSeqFull
<1> QED BY <1>2, <1>3, Zenon DEF Cat

(* A chunk moves bytes from one side to the other. *)
LEMMA WriteTracks ==
    ASSUME IInv, Write
    PROVE  IInv' /\ UNCHANGED Decoder!vars
<1>1. PICK n \in 1 .. Len(unread) :
        /\ err = 0 /\ ~writing
        /\ unread' = SubSeq(unread, n + 1, Len(unread))
        /\ \/ /\ header.opcode = 8 /\ state = "GET_INFO"
              /\ UNCHANGED <<buffer, loop, writing>>
           \/ /\ ~(header.opcode = 8 /\ state = "GET_INFO")
              /\ buffer' = buffer \o SubSeq(unread, 1, n)
              /\ loop' = TRUE
              /\ writing' = TRUE
        /\ UNCHANGED <<options, frames, state, err, header, message, job, ended, parsed, events>>
  BY DEF Write
<1>2. Inv /\ Ended /\ (~ended => Track) /\ TypeOK
  BY <1>1 DEF IInv, Inv
<1>3. Inv'
  BY <1>2, WriteOK
<1>4. UNCHANGED Decoder!vars
  BY <1>1, DecoderStutters
<1>5. Ended'
  <2>1. UNCHANGED <<state, header, ended>>
    BY <1>1
  <2>2. CASE header.opcode = 8 /\ state = "GET_INFO"
    <3>1. loop' = loop
      BY <1>1, <2>2
    <3> QED BY <1>2, <2>1, <3>1, Zenon DEF Ended
  <2>3. CASE ~(header.opcode = 8 /\ state = "GET_INFO")
    <3>1. ended = FALSE
      BY <1>2, <2>3, Zenon DEF Ended
    <3> QED BY <1>2, <2>1, <3>1, Zenon DEF Ended
  <2> QED BY <2>2, <2>3
<1>6. ASSUME ~ended PROVE Track'
  <2>1. /\ ~(header.opcode = 8 /\ state = "GET_INFO")
        /\ buffer' = buffer \o SubSeq(unread, 1, n)
    BY <1>1, <1>2, <1>6 DEF Ended
  <2>2. buffer \in Seq(Byte) /\ unread \in Seq(Byte)
    BY <1>2 DEF TypeOK
  <2> DEFINE u1 == SubSeq(unread, 1, n)
             u2 == SubSeq(unread, n + 1, Len(unread))
  <2>3. u1 \in Seq(Byte) /\ u2 \in Seq(Byte)
    BY <2>2, SubSeqProperties
  <2>4. Cat(u1, u2) = unread
    BY <2>2, CatSplit
  <2>5. buffer' = Cat(buffer, u1) /\ unread' = u2
    BY <1>1, <2>1 DEF Cat
  <2> HIDE DEF u1, u2
  <2>6. Cat(buffer', unread') = Cat(buffer, unread)
    BY <2>2, <2>3, <2>4, <2>5, CatAssociative
  <2>7. UNCHANGED <<options, frames, state, header, message, job, parsed>>
    BY <1>1
  <2> QED BY <1>2, <1>6, <2>6, <2>7 DEF Track, Fine
<1> QED BY <1>1, <1>3, <1>4, <1>5, <1>6 DEF IInv

(* A loop that ends for want of bytes changes nothing else. *)
LEMMA StarveTracks ==
    ASSUME IInv, Starve
    PROVE  IInv' /\ UNCHANGED Decoder!vars
<1>1. /\ loop' = FALSE
      /\ UNCHANGED <<options, frames, unread, buffer, state, err, header, message, job, ended,
                     parsed, events>>
  BY DEF Starve
<1>2. Inv'
  BY StarveOK DEF IInv
<1>3. UNCHANGED Decoder!vars
  BY <1>1, DecoderStutters
<1>4. ASSUME err = 0 PROVE Ended'
  BY <1>1, <1>4 DEF Ended, IInv
<1>5. ASSUME err = 0, ~ended PROVE Track'
  BY <1>1, <1>5 DEF Track, IInv, Fine
<1> QED BY <1>1, <1>2, <1>3, <1>4, <1>5 DEF IInv

-----------------------------------------------------------------------------
(* A turn of the loop starts where the track says. *)
LEMMA TurnTracks ==
    ASSUME IInv, NEW name \in States, Turn(name)
    PROVE  /\ Inv /\ TypeOK /\ Track
           /\ loop = TRUE /\ err = 0 /\ ~ended /\ state = name
<1>1. Inv
  BY DEF IInv
<1>2. TypeOK /\ loop = TRUE /\ err = 0 /\ state = name
  BY <1>1, TurnReads
<1>3. ~ended
  BY <1>2 DEF IInv, Ended
<1> QED BY <1>1, <1>2, <1>3 DEF IInv

LEMMA AheadIs ==
    ASSUME NEW fs, NEW p
    PROVE  /\ Ahead(fs, p, "GET_INFO") = Behind(fs, p)
           /\ Ahead(fs, p, "GET_PAYLOAD_LENGTH_16") = FromLength(fs[p + 1], Behind(fs, p + 1))
           /\ Ahead(fs, p, "GET_PAYLOAD_LENGTH_64") = FromLength(fs[p + 1], Behind(fs, p + 1))
           /\ Ahead(fs, p, "GET_MASK") = FromMask(fs[p + 1], Behind(fs, p + 1))
           /\ Ahead(fs, p, "GET_DATA") = FromData(fs[p + 1], Behind(fs, p + 1))
           /\ Ahead(fs, p, "INFLATING") = Behind(fs, p + 1)
BY DEF Ahead

(* The track behind a step within a frame, and behind one that takes it. *)
LEMMA TrackWithin ==
    ASSUME UNCHANGED <<options, frames, parsed>>, parsed \in 0 .. Len(frames), parsed < Len(frames),
           Fine(parsed + 1), NEW s \in States \ {"GET_INFO"}, state' = s,
           Cat(buffer', unread') = Ahead(frames, parsed, s),
           Reading(frames, parsed, s, header', message', job')
    PROVE  Track'
BY DEF Track, Fine

LEMMA TrackBetween ==
    ASSUME UNCHANGED <<options, frames>>, parsed' = parsed + 1, parsed \in 0 .. Len(frames),
           parsed < Len(frames), state' = "GET_INFO",
           Cat(buffer', unread') = Behind(frames, parsed + 1),
           Between(frames, parsed + 1, message')
    PROVE  Track'
<1>1. parsed' \in 0 .. Len(frames)
  BY LenProperties
<1>2. Cat(buffer', unread') = Ahead(frames, parsed', state')
  BY AheadIs
<1> QED BY <1>1, <1>2 DEF Track

-----------------------------------------------------------------------------
(* The frame being read, and the bytes behind it. *)
LEMMA FrameRead ==
    ASSUME TypeOK, Track, parsed < Len(frames)
    PROVE  /\ frames \in Seq(WireFrames) /\ parsed \in Nat /\ parsed + 1 \in 1 .. Len(frames)
           /\ parsed + 1 \in 0 .. Len(frames)
           /\ frames[parsed + 1] \in WireFrames
           /\ Behind(frames, parsed + 1) \in Seq(Byte)
           /\ MaxPayload \in Int
<1>1. frames \in Seq(WireFrames) /\ Len(frames) \in Nat /\ MaxPayload \in Int
  BY FramesTyped
<1>2. parsed \in 0 .. Len(frames)
  BY DEF Track
<1>3. parsed \in Nat /\ parsed + 1 \in 1 .. Len(frames) /\ parsed + 1 \in 0 .. Len(frames)
  BY <1>1, <1>2
<1>4. frames[parsed + 1] \in WireFrames
  BY <1>1, <1>3, ElementOfSeq
<1>5. Behind(frames, parsed + 1) \in Seq(Byte)
  BY <1>1, <1>3, BehindParts
<1> QED BY <1>1, <1>3, <1>4, <1>5

(* The verdict on a data frame, *)
LEMMA DataVerdict ==
    ASSUME frames \in Seq(WireFrames), MaxPayload \in Int, NEW k \in 1 .. Len(frames),
           Fine(k), ~Control(frames, k), ~frames[k].unsafe, NEW o, Opens(frames, o, k)
    PROVE  LET f == frames[k]
               bytes == MeantUpto(frames, o, k)
           IN /\ Limited(Len(bytes)) => 1009 \in Decoder!Faults(k)
              /\ f.fin /\ frames[o].opcode = 1 /\ NotText(bytes) => 1007 \in Decoder!Faults(k)
              /\ frames[o].rsv1 /\ ~Deflated(f.payload) => 1007 \in Decoder!Faults(k)
              /\ /\ ~Limited(Len(bytes))
                 /\ ~(f.fin /\ frames[o].opcode = 1 /\ NotText(bytes))
                 /\ frames[o].rsv1 => Deflated(f.payload)
                 => Decoder!Faults(k) = {}
              /\ frames[o].rsv1 /\ Limited(Len(Inflate(f.payload))) => 1007 \in Decoder!Liberties(k)
              /\ Limited(Len(RawUpto(frames, o, k))) => 1009 \in Decoder!Liberties(k)
<1> DEFINE f == frames[k]
           data == Fine(k) /\ ~Control(frames, k) /\ ~f.unsafe
           close == Fine(k) /\ f.opcode = 8
<1>1. k \in Nat /\ k <= Len(frames)
  BY LenProperties
<1>2. /\ Decoder!Opener(k) = o /\ Decoder!Compressed(k) = frames[o].rsv1
      /\ Decoder!Wire(k) = RawUpto(frames, o, k) /\ Decoder!Content(k) = MeantUpto(frames, o, k)
  BY <1>1, DecoderOpener, DecoderContent
<1>3. data /\ ~close
  BY DEF Control
<1>4. /\ 1002 \in Decoder!Faults(k) <=> ~Fine(k) \/ (close /\ ~CloseFine(f.payload))
      /\ 1007 \in Decoder!Faults(k) <=>
           \/ close /\ Len(f.payload) > 1 /\ NotText(ReasonOf(f.payload))
           \/ data /\ f.fin /\ frames[Decoder!Opener(k)].opcode = 1 /\ NotText(Decoder!Content(k))
           \/ data /\ Decoder!Compressed(k) /\ ~Deflated(f.payload)
      /\ 1009 \in Decoder!Faults(k) <=> f.unsafe \/ (data /\ Limited(Len(Decoder!Content(k))))
      /\ Decoder!Faults(k) \subseteq {1002, 1007, 1009}
      /\ 1007 \in Decoder!Liberties(k) <=>
           data /\ Decoder!Compressed(k) /\ Limited(Len(Inflate(f.payload)))
      /\ 1009 \in Decoder!Liberties(k) <=> data /\ Limited(Len(Decoder!Wire(k)))
  BY DecoderFaults
<1> HIDE DEF data, close
<1> DEFINE text == f.fin /\ frames[o].opcode = 1 /\ NotText(MeantUpto(frames, o, k))
           zipped == frames[o].rsv1
           broken == ~Deflated(f.payload)
           above == Limited(Len(MeantUpto(frames, o, k)))
           blown == Limited(Len(Inflate(f.payload)))
           heavy == Limited(Len(RawUpto(frames, o, k)))
<1>5. /\ 1002 \in Decoder!Faults(k) <=> ~Fine(k) \/ (close /\ ~CloseFine(f.payload))
      /\ 1007 \in Decoder!Faults(k) <=>
           \/ close /\ Len(f.payload) > 1 /\ NotText(ReasonOf(f.payload))
           \/ data /\ text
           \/ data /\ zipped /\ broken
      /\ 1009 \in Decoder!Faults(k) <=> f.unsafe \/ (data /\ above)
      /\ 1007 \in Decoder!Liberties(k) <=> data /\ zipped /\ blown
      /\ 1009 \in Decoder!Liberties(k) <=> data /\ heavy
  BY <1>2, <1>4
<1> HIDE DEF text, zipped, broken, above, blown, heavy
<1>6. /\ 1002 \notin Decoder!Faults(k)
      /\ 1007 \in Decoder!Faults(k) <=> text \/ (zipped /\ broken)
      /\ 1009 \in Decoder!Faults(k) <=> above
      /\ 1007 \in Decoder!Liberties(k) <=> zipped /\ blown
      /\ 1009 \in Decoder!Liberties(k) <=> heavy
  BY <1>3, <1>5
<1>7. ASSUME ~above, ~text, zipped => ~broken PROVE Decoder!Faults(k) = {}
  BY <1>4, <1>6, <1>7
<1> QED BY <1>6, <1>7 DEF text, zipped, broken, above, blown, heavy

(* on a control frame *)
LEMMA ControlVerdict ==
    ASSUME MaxPayload \in Int, NEW k, frames[k] \in WireFrames, Fine(k), Control(frames, k)
    PROVE  LET f == frames[k]
               reason == ReasonOf(f.payload)
           IN /\ f.opcode = 8 /\ ~CloseFine(f.payload) => 1002 \in Decoder!Faults(k)
              /\ f.opcode = 8 /\ Len(f.payload) > 1 /\ NotText(reason) => 1007 \in Decoder!Faults(k)
              /\ f.opcode = 8 /\ CloseFine(f.payload) /\ ~(Len(f.payload) > 1 /\ NotText(reason))
                 => Decoder!Faults(k) = {}
              /\ f.opcode # 8 => Decoder!Faults(k) = {}
<1> DEFINE f == frames[k]
           data == Fine(k) /\ ~Control(frames, k) /\ ~f.unsafe
           close == Fine(k) /\ f.opcode = 8
<1>1. ~f.unsafe
  <2>1. f.form <= 125
    BY Zenon DEF Fine, HeaderFine
  <2>2. f.form \in Nat
    BY FramePayload
  <2>3. f.form < 126
    BY <2>1, <2>2
  <2> QED BY <2>3, ShortLength
<1>2. ~data /\ (close <=> f.opcode = 8)
  OBVIOUS
<1>3. /\ 1002 \in Decoder!Faults(k) <=> ~Fine(k) \/ (close /\ ~CloseFine(f.payload))
      /\ 1007 \in Decoder!Faults(k) <=>
           \/ close /\ Len(f.payload) > 1 /\ NotText(ReasonOf(f.payload))
           \/ data /\ f.fin /\ frames[Decoder!Opener(k)].opcode = 1 /\ NotText(Decoder!Content(k))
           \/ data /\ Decoder!Compressed(k) /\ ~Deflated(f.payload)
      /\ 1009 \in Decoder!Faults(k) <=> f.unsafe \/ (data /\ Limited(Len(Decoder!Content(k))))
      /\ Decoder!Faults(k) \subseteq {1002, 1007, 1009}
  BY DecoderFaults
<1> DEFINE fine == CloseFine(f.payload)
           worded == Len(f.payload) > 1 /\ NotText(ReasonOf(f.payload))
           text == f.fin /\ frames[Decoder!Opener(k)].opcode = 1 /\ NotText(Decoder!Content(k))
           zipped == Decoder!Compressed(k) /\ ~Deflated(f.payload)
           above == Limited(Len(Decoder!Content(k)))
           closing == f.opcode = 8
<1>4. /\ 1002 \in Decoder!Faults(k) <=> ~Fine(k) \/ (close /\ ~fine)
      /\ 1007 \in Decoder!Faults(k) <=>
           \/ close /\ worded
           \/ data /\ text
           \/ data /\ zipped
      /\ 1009 \in Decoder!Faults(k) <=> f.unsafe \/ (data /\ above)
  BY <1>3
<1>5. ~data /\ (close <=> closing) /\ ~f.unsafe /\ Fine(k)
  BY <1>1, <1>2
<1> HIDE DEF data, close, fine, worded, text, zipped, above, closing
<1>6. /\ 1002 \in Decoder!Faults(k) <=> closing /\ ~fine
      /\ 1007 \in Decoder!Faults(k) <=> closing /\ worded
      /\ 1009 \notin Decoder!Faults(k)
  BY <1>4, <1>5
<1>7. ASSUME closing => fine /\ ~worded PROVE Decoder!Faults(k) = {}
  BY <1>3, <1>6, <1>7
<1> QED BY <1>6, <1>7 DEF fine, worded, closing

(* and on a header. *)
LEMMA HeaderVerdict ==
    ASSUME MaxPayload \in Int, NEW k
    PROVE  /\ ~Fine(k) => 1002 \in Decoder!Faults(k)
           /\ frames[k].unsafe => 1009 \in Decoder!Faults(k)
<1> DEFINE f == frames[k]
           data == Fine(k) /\ ~Control(frames, k) /\ ~f.unsafe
           close == Fine(k) /\ f.opcode = 8
<1>1. /\ 1002 \in Decoder!Faults(k) <=> ~Fine(k) \/ (close /\ ~CloseFine(f.payload))
      /\ 1009 \in Decoder!Faults(k) <=> f.unsafe \/ (data /\ Limited(Len(Decoder!Content(k))))
  BY DecoderFaults
<1> HIDE DEF data, close
<1> QED BY <1>1

-----------------------------------------------------------------------------
(* A step that refuses. *)
LEMMA RefusalTracks ==
    ASSUME Inv', err = 0, ~ended, parsed < Len(frames), NEW code \in {1002, 1007, 1009}, err' = code,
           code \in Decoder!Faults(parsed + 1) \cup Decoder!Liberties(parsed + 1),
           UNCHANGED <<options, frames, parsed, events, ended>>
    PROVE  IInv' /\ Decoder!Next
<1>1. Decoder!Next
  BY DecoderRejects
<1>2. err' # 0
  OBVIOUS
<1> QED BY <1>1, <1>2 DEF IInv

-----------------------------------------------------------------------------
(* A frame without a key has nothing in front of its payload. *)
LEMMA Unmasked ==
    ASSUME NEW f \in WireFrames, f.mask = <<>>, NEW r \in Seq(Byte)
    PROVE  FromMask(f, r) = FromData(f, r)
<1>1. FromData(f, r) \in Seq(Byte)
  BY FrameOctets
<1> QED BY <1>1, CatNothing DEF FromMask

(* Numbers of bytes, message by message. *)
LEMMA HeavierBy ==
    ASSUME ZlibGivesBytes, frames \in Seq(WireFrames), NEW p \in 0 .. Len(frames), p < Len(frames),
           NEW o \in 1 .. p + 1, ~Control(frames, p + 1)
    PROVE  /\ Len(RawUpto(frames, o, p)) \in Nat
           /\ Len(RawUpto(frames, o, p + 1)) = Len(RawUpto(frames, o, p)) + Len(frames[p + 1].payload)
<1>1. p + 1 \in 1 .. Len(frames)
  BY LenProperties
<1>2. RawUpto(frames, o, p) \in Seq(Byte)
  BY UptoTypes
<1>3. Raw(frames, p + 1) = frames[p + 1].payload
  BY DEF Raw
<1>4. Raw(frames, p + 1) \in Seq(Byte)
  BY <1>1, PartTypes
<1>5. RawUpto(frames, o, p + 1) = Cat(RawUpto(frames, o, p), Raw(frames, p + 1))
  BY UptoNext
<1>6. Len(RawUpto(frames, o, p)) \in Nat
  BY <1>2, LenProperties
<1>7. Len(Cat(RawUpto(frames, o, p), Raw(frames, p + 1))) = Len(RawUpto(frames, o, p)) + Len(Raw(frames, p + 1))
  BY <1>2, <1>4, CatTypes
<1> QED BY <1>3, <1>5, <1>6, <1>7, Zenon

(* haveLength(): the limit counts the payloads of the message so far. *)
LEMMA HaveLengthTracks ==
    ASSUME ZlibGivesBytes, TypeOK, Inv', Track, err = 0, ~ended, parsed < Len(frames), Fine(parsed + 1),
           ~frames[parsed + 1].unsafe, NEW h \in Headers, NEW m \in Messages, HaveLength(h, m),
           h.payloadLength = Len(frames[parsed + 1].payload), Read(frames, parsed, 0, h, m),
           Cat(buffer', unread') = FromMask(frames[parsed + 1], Behind(frames, parsed + 1)),
           UNCHANGED <<options, frames, parsed, events, ended>>
    PROVE  IInv' /\ (Decoder!Next \/ UNCHANGED Decoder!vars)
<1> DEFINE p == parsed
           f == frames[p + 1]
           counts == h.payloadLength > 0 /\ h.opcode < 8
           total == m.totalPayloadLength + h.payloadLength
           s == IF h.masked THEN "GET_MASK" ELSE "GET_DATA"
           counted == [m EXCEPT !.totalPayloadLength = total]
<1>1. /\ frames \in Seq(WireFrames) /\ p \in Nat /\ p + 1 \in 1 .. Len(frames)
      /\ f \in WireFrames /\ Behind(frames, p + 1) \in Seq(Byte) /\ MaxPayload \in Int
      /\ p \in 0 .. Len(frames)
  BY FrameRead DEF Track
<1>2. /\ header' = h
      /\ message' = IF counts THEN counted ELSE m
      /\ IF counts /\ Limited(total) THEN Fail(1009) /\ UNCHANGED state
                                     ELSE state' = s /\ UNCHANGED <<loop, writing, err>>
  BY DEF HaveLength
<1>3. /\ h.fin = f.fin /\ h.masked = (f.mask # <<>>)
      /\ Control(frames, p + 1) => h.opcode = f.opcode /\ Between(frames, p, m)
      /\ ~Control(frames, p + 1) => Collects(frames, p, 0, h, m)
  BY Zenon DEF Read
<1>4. /\ h.payloadLength \in Nat /\ m.totalPayloadLength \in Nat /\ h.masked \in BOOLEAN
  BY DEF Headers, Messages
<1> HIDE DEF counted, s
<1>5. ASSUME ~(counts /\ Limited(total)), Read(frames, p, Len(f.payload), h, message')
      PROVE  IInv' /\ UNCHANGED Decoder!vars
  <2>1. state' = s /\ err' = err
    BY <1>2, <1>5
  <2>2. UNCHANGED Decoder!vars
    BY <2>1, DecoderStutters
  <2>3. s \in {"GET_MASK", "GET_DATA"} /\ (s = "GET_MASK" <=> f.mask # <<>>)
    BY <1>3, <1>4 DEF s
  <2>4. Ended'
    <3>1. state' # "GET_INFO" /\ ended' = FALSE
      <4>1. ended' = ended /\ ended \in BOOLEAN
        BY DEF TypeOK
      <4> QED BY <2>1, <2>3, <4>1
    <3> QED BY <3>1 DEF Ended
  <2>5. Counted(f, s) = Len(f.payload)
    BY <2>3 DEF Counted
  <2>6. Reading(frames, p, s, header', message', job')
    <3>1. s = "GET_DATA" => ~h.masked
      BY <1>3, <2>3
    <3> QED BY <1>2, <1>5, <2>3, <2>5, <3>1 DEF Reading
  <2>7. Cat(buffer', unread') = Ahead(frames, p, s)
    <3>1. CASE s = "GET_MASK"
      BY <3>1, AheadIs
    <3>2. CASE s = "GET_DATA"
      BY <1>1, <2>3, <3>2, AheadIs, Unmasked
    <3> QED BY <2>3, <3>1, <3>2
  <2>8. Track'
    <3>1. s \in States \ {"GET_INFO"}
      BY <2>3 DEF States
    <3> QED BY <1>1, <2>1, <2>6, <2>7, <3>1, TrackWithin
  <2> QED BY <2>2, <2>4, <2>8 DEF IInv
<1>6. CASE Control(frames, p + 1)
  <2>1. h.opcode = f.opcode /\ f.opcode >= 8
    BY <1>3, <1>6 DEF Control
  <2>2. f.opcode \in 0 .. 15
    BY <1>1, FrameHead
  <2>3. ~counts
    BY <2>1, <2>2
  <2>4. message' = m
    BY <1>2, <2>3
  <2>5. Read(frames, p, Len(f.payload), h, message')
    BY <1>3, <1>6, <2>4, Zenon DEF Read
  <2> QED BY <1>5, <2>3, <2>5
<1>7. CASE ~Control(frames, p + 1)
  <2>1. PICK o \in 1 .. p + 1 :
          /\ Opens(frames, o, p + 1)
          /\ h.opcode = frames[o].opcode
          /\ m.compressed = frames[o].rsv1
          /\ m.fragmented \in {0, frames[o].opcode}
          /\ m.fragments = MeantUpto(frames, o, p)
          /\ m.totalPayloadLength = Len(RawUpto(frames, o, p)) + 0
    BY <1>3, <1>7, Zenon DEF Collects
  <2>2. h.opcode \in {1, 2}
    BY <2>1 DEF Opens
  <2>3. /\ Len(RawUpto(frames, o, p)) \in Nat
        /\ Len(RawUpto(frames, o, p + 1)) = Len(RawUpto(frames, o, p)) + Len(f.payload)
    BY <1>1, <1>7, HeavierBy
  <2>4. total = Len(RawUpto(frames, o, p + 1))
    BY <2>1, <2>3
  <2>5. CASE counts /\ Limited(total)
    <3>1. err' = 1009
      BY <1>2, <2>5 DEF Fail
    <3>2. 1009 \in Decoder!Liberties(p + 1)
      <4>1. Limited(Len(RawUpto(frames, o, p + 1)))
        BY <2>4, <2>5
      <4> HIDE DEF total
      <4> QED BY <1>1, <1>7, <2>1, <4>1, DataVerdict
    <3> QED BY <3>1, <3>2, RefusalTracks
  <2>6. CASE ~(counts /\ Limited(total))
    <3>1. message' = counted
      <4>1. CASE counts
        BY <1>2, <4>1
      <4>2. CASE ~counts
        <5>1. h.payloadLength = 0
          BY <1>4, <2>2, <4>2
        <5>2. total = m.totalPayloadLength
          BY <1>4, <5>1
        <5>3. counted = m
          BY <5>2 DEF counted, Messages
        <5> QED BY <1>2, <4>2, <5>3
      <4> QED BY <4>1, <4>2
    <3>2. /\ counted.compressed = m.compressed /\ counted.fragmented = m.fragmented
          /\ counted.fragments = m.fragments /\ counted.totalPayloadLength = total
      BY DEF counted, Messages
    <3>3. total = Len(RawUpto(frames, o, p)) + Len(f.payload)
      BY <2>1, <2>3
    <3> HIDE DEF total
    <3>4. Collects(frames, p, Len(f.payload), h, counted)
      BY <2>1, <3>2, <3>3, Zenon DEF Collects
    <3>5. Read(frames, p, Len(f.payload), h, message')
      BY <1>3, <1>7, <3>1, <3>4, Zenon DEF Read
    <3> QED BY <1>5, <2>6, <3>5 DEF total
  <2> QED BY <2>5, <2>6
<1> QED BY <1>6, <1>7

-----------------------------------------------------------------------------
(* The first two bytes are those of the next frame. *)
LEMMA HeadRead ==
    ASSUME IInv, Turn("GET_INFO")
    PROVE  /\ parsed < Len(frames)
           /\ buffer[1] = HeadPart(frames[parsed + 1])[1]
           /\ buffer[2] = HeadPart(frames[parsed + 1])[2]
           /\ Cat(SubSeq(buffer, 3, Len(buffer)), unread)
                = FromLength(frames[parsed + 1], Behind(frames, parsed + 1))
<1> DEFINE f == frames[parsed + 1]
           behind == Behind(frames, parsed + 1)
<1>1. TypeOK /\ Track /\ state = "GET_INFO" /\ Len(buffer) >= 2
  BY TurnTracks, TurnReads DEF States, IInv
<1>2. frames \in Seq(WireFrames) /\ Len(frames) \in Nat /\ parsed \in 0 .. Len(frames)
  BY <1>1, FramesTyped DEF Track
<1>3. buffer \in Seq(Byte) /\ unread \in Seq(Byte)
  BY <1>1 DEF TypeOK
<1>4. Cat(buffer, unread) = Behind(frames, parsed)
  BY <1>1, AheadIs DEF Track
<1>5. parsed < Len(frames)
  <2>1. CASE parsed = Len(frames)
    <3>1. Cat(buffer, unread) = <<>>
      BY <1>2, <1>4, <2>1, BehindNext
    <3>2. Len(Cat(buffer, unread)) = Len(buffer) + Len(unread)
      BY <1>3, CatTypes
    <3>3. Len(Cat(buffer, unread)) = 0
      BY <3>1
    <3>4. Len(buffer) \in Nat /\ Len(unread) \in Nat
      BY <1>3, LenProperties
    <3> QED BY <1>1, <3>2, <3>3, <3>4
  <2> QED BY <1>2, <2>1
<1>6. f \in WireFrames /\ behind \in Seq(Byte)
  BY <1>1, <1>5, FrameRead
<1>7. Cat(buffer, unread) = Cat(Octets(f), behind)
  BY <1>2, <1>4, <1>5, BehindNext
<1>8. /\ HeadPart(f) \in Seq(Byte) /\ Len(HeadPart(f)) = 2 /\ FromLength(f, behind) \in Seq(Byte)
      /\ Cat(Octets(f), behind) = Cat(HeadPart(f), FromLength(f, behind))
  BY <1>6, FrameOctets
<1> HIDE DEF f, behind
<1>9. Cat(buffer, unread) = Cat(HeadPart(f), FromLength(f, behind))
  BY <1>7, <1>8
<1> DEFINE h == HeadPart(f)
           r == FromLength(f, behind)
<1> HIDE DEF h, r
<1>10. h \in Seq(Byte) /\ r \in Seq(Byte) /\ Cat(buffer, unread) = Cat(h, r)
  BY <1>8, <1>9 DEF h, r
<1>11. Len(h) <= Len(buffer)
  BY <1>1, <1>8 DEF h
<1>12. \A i \in 1 .. Len(h) : buffer[i] = h[i]
  BY <1>3, <1>10, <1>11, SameBytes
<1>13. Cat(SubSeq(buffer, Len(h) + 1, Len(buffer)), unread) = r
  BY <1>3, <1>10, <1>11, SameBytes
<1>14. Len(h) + 1 = 3 /\ 1 \in 1 .. Len(h) /\ 2 \in 1 .. Len(h)
  BY <1>8 DEF h
<1>15. buffer[1] = h[1] /\ buffer[2] = h[2] /\ Cat(SubSeq(buffer, 3, Len(buffer)), unread) = r
  BY <1>12, <1>13, <1>14, Zenon
<1> QED BY <1>5, <1>15 DEF f, behind, h, r

(* A header is refused when a rule is broken. *)
LEMMA HeaderRules ==
    ASSUME TypeOK, NEW f \in WireFrames, NEW k, f = frames[k],
           message.fragmented # 0 <=> OpenBehind(frames, k - 1)
    PROVE  Fine(k) <=> ~(\/ f.rsv2 \/ FALSE
                         \/ f.rsv1 /\ ~options.deflate
                         \/ BadOpcode(f.opcode, f.fin, f.rsv1, f.form)
                         \/ (f.mask # <<>>) # options.isServer)
<1> DEFINE op == f.opcode
           fin == f.fin
           rsv1 == f.rsv1
           rsv2 == f.rsv2
           keyed == f.mask # <<>>
           open == OpenBehind(frames, k - 1)
           deflate == options.deflate
           isServer == options.isServer
           form == f.form
<1>1. /\ op \in 0 .. 15 /\ form \in 0 .. 127 /\ fin \in BOOLEAN /\ rsv1 \in BOOLEAN
      /\ rsv2 \in BOOLEAN /\ isServer \in BOOLEAN /\ keyed \in BOOLEAN
  BY FrameHead, FramesTyped
<1>2. Fine(k) <=> /\ ~rsv2
                  /\ rsv1 => deflate /\ op \in {1, 2}
                  /\ op \in {0, 1, 2, 8, 9, 10}
                  /\ op = 0 => open
                  /\ op \in {1, 2} => ~open
                  /\ op >= 8 => fin /\ form <= 125
                  /\ keyed = isServer
  BY Zenon DEF Fine, HeaderFine, Control
<1>3. BadOpcode(op, fin, rsv1, form) <=>
        \/ op = 0 /\ (rsv1 \/ ~open)
        \/ op \in {1, 2} /\ open
        \/ op \in 8 .. 10 /\ (~fin \/ rsv1 \/ form > 125)
        \/ op \notin {0, 1, 2, 8, 9, 10}
  BY Zenon DEF BadOpcode
<1> HIDE DEF op, fin, rsv1, rsv2, keyed, open, deflate, isServer, form
<1>4. Fine(k) <=> ~(\/ rsv2 \/ FALSE
                    \/ rsv1 /\ ~deflate
                    \/ BadOpcode(op, fin, rsv1, form)
                    \/ keyed # isServer)
  <2>1. (form > 125) <=> ~(form <= 125)
    BY <1>1
  <2>2. op \in 8 .. 10 <=> op = 8 \/ op = 9 \/ op = 10
    BY <1>1
  <2>3. CASE op \notin {0, 1, 2, 8, 9, 10}
    BY <1>2, <1>3, <2>3, Zenon
  <2>4. CASE op = 0
    <3>1. ~(op >= 8) /\ op \notin {1, 2} /\ ~(op \in 8 .. 10)
      BY <2>4
    <3> QED BY <1>2, <1>3, <2>4, <3>1, Zenon
  <2>5. CASE op \in {1, 2}
    <3>1. ~(op >= 8) /\ op # 0 /\ ~(op \in 8 .. 10)
      BY <2>5
    <3> QED BY <1>2, <1>3, <2>5, <3>1, Zenon
  <2>6. CASE op \in {8, 9, 10}
    <3>1. op >= 8 /\ op # 0 /\ op \notin {1, 2} /\ op \in 8 .. 10
      BY <2>6
    <3> QED BY <1>2, <1>3, <2>1, <2>6, <3>1, Zenon
  <2> QED BY <2>3, <2>4, <2>5, <2>6
<1> QED BY <1>4 DEF op, fin, rsv1, rsv2, keyed, open, deflate, isServer, form

(* A header that is not refused says which message the frame belongs to. *)
LEMMA HeaderReads ==
    ASSUME TypeOK, frames \in Seq(WireFrames), NEW p \in 0 .. Len(frames), p < Len(frames),
           Between(frames, p, message), Fine(p + 1), NEW h, NEW m,
           h.fin = frames[p + 1].fin, h.masked = (frames[p + 1].mask # <<>>),
           h.opcode = IF frames[p + 1].opcode = 0 THEN message.fragmented ELSE frames[p + 1].opcode,
           m = [message EXCEPT
                  !.compressed = IF frames[p + 1].opcode \in {1, 2} THEN frames[p + 1].rsv1 ELSE @,
                  !.fragmented = IF ~frames[p + 1].fin /\ @ = 0 THEN frames[p + 1].opcode ELSE @]
    PROVE  Read(frames, p, 0, h, m)
<1> DEFINE f == frames[p + 1]
           zipped == IF f.opcode \in {1, 2} THEN f.rsv1 ELSE message.compressed
           open == IF ~f.fin /\ message.fragmented = 0 THEN f.opcode ELSE message.fragmented
<1>1. Len(frames) \in Nat /\ p \in Nat /\ p + 1 \in 1 .. Len(frames)
  BY LenProperties
<1>2. f \in WireFrames
  BY <1>1, ElementOfSeq
<1>3. f.opcode \in 0 .. 15 /\ f.fin \in BOOLEAN
  BY <1>2, FrameHead
<1>4. message \in Messages
  BY DEF TypeOK
<1>5. m = [message EXCEPT !.compressed = zipped, !.fragmented = open]
  OBVIOUS
<1> HIDE DEF zipped, open
<1>6. /\ m.compressed = zipped /\ m.fragmented = open /\ m.fragments = message.fragments
      /\ m.totalPayloadLength = message.totalPayloadLength
  BY <1>4, <1>5 DEF Messages
<1> USE DEF zipped, open
<1>7. /\ f.opcode \in {0, 1, 2, 8, 9, 10}
      /\ f.opcode = 0 => OpenBehind(frames, p)
      /\ f.opcode \in {1, 2} => ~OpenBehind(frames, p)
      /\ Control(frames, p + 1) => f.fin
  <2>1. p + 1 - 1 = p
    BY <1>1
  <2> QED BY <2>1 DEF Fine, HeaderFine
<1>8. CASE Control(frames, p + 1)
  <2>1. f.fin /\ f.opcode # 0 /\ f.opcode \notin {1, 2}
    BY <1>7, <1>8 DEF Control
  <2>2. zipped = message.compressed /\ open = message.fragmented
    BY <2>1
  <2>3. h.opcode = f.opcode
    BY <2>1
  <2> HIDE DEF zipped, open
  <2>4. Between(frames, p, m)
    BY <1>6, <2>2, Zenon DEF Between
  <2> QED BY <1>8, <2>3, <2>4, Zenon DEF Read
<1>9. CASE f.opcode = 0
  <2>1. message.fragmented # 0
    BY <1>7, <1>9, Zenon DEF Between
  <2>2. PICK o \in 1 .. p : /\ Opens(frames, o, p)
                            /\ message.fragmented = frames[o].opcode
                            /\ message.compressed = frames[o].rsv1
                            /\ message.fragments = MeantUpto(frames, o, p)
                            /\ message.totalPayloadLength = Len(RawUpto(frames, o, p))
    BY <2>1, Zenon DEF Between
  <2>3. o \in 1 .. p + 1 /\ Opens(frames, o, p + 1)
    <3>1. f.opcode \notin {1, 2}
      BY <1>9
    <3>2. Opens(frames, o, p + 1)
      BY <1>1, <2>2, <3>1, OpensNext
    <3> QED BY <1>1, <2>2, <3>2
  <2>4. zipped = message.compressed /\ open = message.fragmented /\ h.opcode = message.fragmented
    BY <1>9, <2>1
  <2>5. ~Control(frames, p + 1)
    BY <1>9 DEF Control
  <2>6. message.totalPayloadLength = message.totalPayloadLength + 0
    BY <1>4 DEF Messages
  <2> HIDE DEF zipped, open
  <2>7. Collects(frames, p, 0, h, m)
    BY <1>6, <2>2, <2>3, <2>4, <2>6 DEF Collects
  <2> QED BY <2>5, <2>7, Zenon DEF Read
<1>10. CASE f.opcode \in {1, 2}
  <2>1. message.fragmented = 0 /\ message.fragments = <<>> /\ message.totalPayloadLength = 0
    BY <1>7, <1>10, Zenon DEF Between
  <2>2. Opens(frames, p + 1, p + 1) /\ p + 1 \in 1 .. p + 1
    BY <1>1, <1>10, OpensNext
  <2>3. RawUpto(frames, p + 1, p) = <<>> /\ MeantUpto(frames, p + 1, p) = <<>>
    BY <1>1, UptoNone
  <2>4. zipped = f.rsv1 /\ open \in {0, f.opcode} /\ h.opcode = f.opcode
    BY <1>10, <2>1
  <2>5. ~Control(frames, p + 1)
    BY <1>10 DEF Control
  <2>6. Len(RawUpto(frames, p + 1, p)) + 0 = 0
    BY <2>3
  <2> HIDE DEF zipped, open
  <2>7. Collects(frames, p, 0, h, m)
    BY <1>6, <2>1, <2>2, <2>3, <2>4, <2>6, Zenon DEF Collects
  <2> QED BY <2>5, <2>7, Zenon DEF Read
<1> QED BY <1>7, <1>8, <1>9, <1>10 DEF Control

-----------------------------------------------------------------------------
(* getInfo(): the header is refused when it breaks a rule, and else read. *)
LEMMA GetInfoTracks ==
    ASSUME ZlibGivesBytes, IInv, GetInfo
    PROVE  IInv' /\ (Decoder!Next \/ UNCHANGED Decoder!vars)
<1> DEFINE p == parsed
           f == frames[p + 1]
           behind == Behind(frames, p + 1)
           rsv1 == HasBit(buffer[1], 64)
           fin == HasBit(buffer[1], 128)
           opcode == buffer[1] % 16
           length == buffer[2] % 128
           masked == HasBit(buffer[2], 128)
           h == [header EXCEPT !.fin = fin, !.masked = masked,
                               !.opcode = IF opcode = 0 THEN message.fragmented ELSE opcode,
                               !.payloadLength = length]
           m == [message EXCEPT !.compressed = IF opcode \in {1, 2} THEN rsv1 ELSE @,
                                !.fragmented = IF ~fin /\ @ = 0 THEN opcode ELSE @]
           bad == \/ HasBit(buffer[1], 32) \/ HasBit(buffer[1], 16)
                  \/ rsv1 /\ ~options.deflate
                  \/ BadOpcode(opcode, fin, rsv1, length)
                  \/ h.masked # options.isServer
<1>1. /\ Turn("GET_INFO") /\ Consume(2)
      /\ \/ bad /\ Fail(1002) /\ UNCHANGED <<state, header, message>>
         \/ /\ ~bad /\ length \in {126, 127}
            /\ header' = h
            /\ message' = m
            /\ state' = IF length = 126 THEN "GET_PAYLOAD_LENGTH_16" ELSE "GET_PAYLOAD_LENGTH_64"
            /\ UNCHANGED <<loop, writing, err>>
         \/ ~bad /\ length < 126 /\ HaveLength(h, m)
      /\ UNCHANGED <<options, frames, unread, job, ended, parsed, events>>
  BY DEF GetInfo
<1>2. Inv' /\ Inv /\ TypeOK /\ Track /\ err = 0 /\ ~ended /\ state = "GET_INFO" /\ Sums
  BY <1>1, TurnTracks, GetInfoOK DEF States, IInv, Inv
<1>3. /\ parsed < Len(frames)
      /\ buffer[1] = HeadPart(f)[1] /\ buffer[2] = HeadPart(f)[2]
      /\ Cat(SubSeq(buffer, 3, Len(buffer)), unread) = FromLength(f, behind)
  BY <1>1, HeadRead
<1>4. /\ frames \in Seq(WireFrames) /\ p \in Nat /\ f \in WireFrames /\ behind \in Seq(Byte)
      /\ MaxPayload \in Int /\ p \in 0 .. Len(frames) /\ p + 1 - 1 = p
  BY <1>2, <1>3, FrameRead DEF Track
<1>5. Cat(buffer', unread') = FromLength(f, behind)
  <2>1. 2 + 1 = 3
    OBVIOUS
  <2>2. buffer' = SubSeq(buffer, 3, Len(buffer)) /\ unread' = unread
    BY <1>1, <2>1 DEF Consume
  <2> QED BY <1>3, <2>2
<1>6. /\ fin = f.fin /\ rsv1 = f.rsv1 /\ HasBit(buffer[1], 32) = f.rsv2 /\ HasBit(buffer[1], 16) = FALSE
      /\ opcode = f.opcode
  BY <1>3, <1>4, FirstByte DEF HasBit
<1>7. masked = (f.mask # <<>>) /\ length = f.form
  BY <1>3, <1>4, SecondByte DEF HasBit
<1> HIDE DEF rsv1, fin, opcode, length, masked
<1>8. /\ h.fin = fin /\ h.masked = masked /\ h.payloadLength = length
      /\ h.opcode = IF opcode = 0 THEN message.fragmented ELSE opcode
  BY <1>2 DEF TypeOK, Headers
<1>9. Between(frames, p, message)
  BY <1>2 DEF Track
<1>10. Fine(p + 1) <=> ~bad
  <2>1. message.fragmented # 0 <=> OpenBehind(frames, p + 1 - 1)
    BY <1>4, <1>9 DEF Between
  <2>2. Fine(p + 1) <=> ~(\/ f.rsv2 \/ FALSE
                          \/ f.rsv1 /\ ~options.deflate
                          \/ BadOpcode(f.opcode, f.fin, f.rsv1, f.form)
                          \/ (f.mask # <<>>) # options.isServer)
    BY <1>2, <1>4, <2>1, HeaderRules
  <2> QED BY <1>6, <1>7, <1>8, <2>2
<1>11. ASSUME ~bad PROVE Read(frames, p, 0, h, m)
  <2>1. Fine(p + 1)
    BY <1>10, <1>11
  <2> DEFINE g == [message EXCEPT
                     !.compressed = IF f.opcode \in {1, 2} THEN f.rsv1 ELSE @,
                     !.fragmented = IF ~f.fin /\ @ = 0 THEN f.opcode ELSE @]
  <2>2. m = g
    BY <1>6
  <2>3. /\ h.fin = f.fin /\ h.masked = (f.mask # <<>>)
        /\ h.opcode = IF f.opcode = 0 THEN message.fragmented ELSE f.opcode
    BY <1>6, <1>7, <1>8
  <2> HIDE DEF h, m
  <2> QED BY <1>2, <1>3, <1>4, <1>9, <2>1, <2>2, <2>3, HeaderReads
<1>12. CASE bad /\ Fail(1002) /\ UNCHANGED <<state, header, message>>
  <2>1. err' = 1002
    BY <1>12 DEF Fail
  <2>2. 1002 \in Decoder!Faults(p + 1)
    BY <1>4, <1>10, <1>12, HeaderVerdict
  <2> HIDE DEF bad
  <2> QED BY <1>1, <1>2, <1>3, <2>1, <2>2, RefusalTracks
<1>13. CASE /\ ~bad /\ length \in {126, 127}
            /\ header' = h
            /\ message' = m
            /\ state' = IF length = 126 THEN "GET_PAYLOAD_LENGTH_16" ELSE "GET_PAYLOAD_LENGTH_64"
            /\ UNCHANGED <<loop, writing, err>>
  <2> DEFINE s == IF length = 126 THEN "GET_PAYLOAD_LENGTH_16" ELSE "GET_PAYLOAD_LENGTH_64"
  <2>1. Fine(p + 1) /\ Read(frames, p, 0, h, m)
    BY <1>10, <1>11, <1>13
  <2>2. /\ state' = s /\ header' = h /\ message' = m /\ UNCHANGED err
        /\ length \in {126, 127}
    BY <1>13
  <2> HIDE DEF h, m, bad
  <2>3. /\ s \in {"GET_PAYLOAD_LENGTH_16", "GET_PAYLOAD_LENGTH_64"}
        /\ s = "GET_PAYLOAD_LENGTH_16" => f.form = 126
        /\ s = "GET_PAYLOAD_LENGTH_64" => f.form = 127
    BY <1>7, <2>2
  <2> HIDE DEF s
  <2>4. UNCHANGED Decoder!vars
    BY <1>1, <2>2, DecoderStutters
  <2>5. Ended'
    <3>1. state' # "GET_INFO" /\ ended' = FALSE
      <4>1. ended' = ended /\ ended \in BOOLEAN
        BY <1>1, <1>2 DEF TypeOK
      <4> QED BY <1>2, <2>2, <2>3, <4>1
    <3> QED BY <3>1 DEF Ended
  <2>6. Counted(f, s) = 0
    BY <2>3 DEF Counted
  <2>7. Reading(frames, p, s, header', message', job')
    BY <2>1, <2>2, <2>3, <2>6 DEF Reading
  <2>8. Cat(buffer', unread') = Ahead(frames, p, s)
    BY <1>5, <2>3, AheadIs
  <2>9. Track'
    <3>1. s \in States \ {"GET_INFO"}
      BY <2>3 DEF States
    <3> QED BY <1>1, <1>3, <1>4, <2>1, <2>2, <2>7, <2>8, <3>1, TrackWithin
  <2> QED BY <1>2, <2>4, <2>5, <2>9 DEF IInv
<1>14. CASE ~bad /\ length < 126 /\ HaveLength(h, m)
  <2>1. Fine(p + 1) /\ Read(frames, p, 0, h, m)
    BY <1>10, <1>11, <1>14
  <2>2. ~f.unsafe /\ h.payloadLength = Len(f.payload)
    BY <1>4, <1>7, <1>8, <1>14, ShortLength
  <2>3. FromLength(f, behind) = FromMask(f, behind)
    <3>1. LengthPart(f) \in Seq(Byte) /\ Len(LengthPart(f)) = 0
      <4>1. LengthSize(f) = 0
        BY <1>7, <1>14 DEF LengthSize
      <4> QED BY <1>4, <4>1, LengthRead
    <3>2. LengthPart(f) = <<>>
      BY <3>1, EmptySeq
    <3>3. FromMask(f, behind) \in Seq(Byte)
      BY <1>4, FrameOctets
    <3> QED BY <3>2, <3>3, CatNothing DEF FromLength
  <2>4. h \in Headers /\ m \in Messages
    <3>1. fin \in BOOLEAN /\ rsv1 \in BOOLEAN /\ masked \in BOOLEAN
      BY DEF fin, rsv1, masked, HasBit
    <3>2. opcode \in {0, 1, 2, 8, 9, 10}
      BY <1>6, <2>1, Zenon DEF Fine, HeaderFine
    <3>3. length \in Nat
      BY <1>4, <1>7, FramePayload
    <3>4. header \in Headers /\ message \in Messages /\ message.fragmented \in {0, 1, 2}
      BY <1>2 DEF TypeOK, Messages
    <3>5. (IF opcode = 0 THEN message.fragmented ELSE opcode) \in {0, 1, 2, 8, 9, 10}
      BY <3>2, <3>4
    <3>6. (IF ~fin /\ message.fragmented = 0 THEN opcode ELSE message.fragmented) \in {0, 1, 2}
      <4>1. CASE opcode \in {0, 1, 2}
        BY <3>4, <4>1
      <4>2. CASE opcode \in {8, 9, 10}
        <5>1. Control(frames, p + 1)
          BY <1>6, <4>2 DEF Control
        <5>2. fin
          BY <1>6, <2>1, <5>1, Zenon DEF Fine, HeaderFine
        <5> QED BY <3>4, <5>2
      <4> QED BY <3>2, <4>1, <4>2
    <3>7. (IF opcode \in {1, 2} THEN rsv1 ELSE message.compressed) \in BOOLEAN
      BY <3>1, <3>4 DEF Messages
    <3> QED BY <3>1, <3>3, <3>4, <3>5, <3>6, <3>7 DEF Headers, Messages
  <2>5. HaveLength(h, m)
    BY <1>14
  <2> HIDE DEF h, m, bad
  <2> QED BY <1>1, <1>2, <1>3, <1>5, <2>1, <2>2, <2>3, <2>4, <2>5, HaveLengthTracks
<1> QED BY <1>1, <1>12, <1>13, <1>14

-----------------------------------------------------------------------------
(* What a turn reads of a part of the frame is that part. *)
LEMMA Consumes ==
    ASSUME buffer \in Seq(Byte), unread \in Seq(Byte), NEW a \in Seq(Byte), NEW r \in Seq(Byte),
           NEW n, Len(a) = n, Len(buffer) >= n, Cat(buffer, unread) = Cat(a, r),
           Consume(n), UNCHANGED unread
    PROVE  /\ Cat(buffer', unread') = r
           /\ SubSeq(buffer, 1, n) = a
           /\ \A i \in 1 .. n : buffer[i] = a[i]
<1>1. Len(a) <= Len(buffer)
  BY LenProperties
<1>2. \A i \in 1 .. Len(a) : buffer[i] = a[i]
  BY <1>1, SameBytes
<1>3. Cat(SubSeq(buffer, Len(a) + 1, Len(buffer)), unread) = r
  BY <1>1, SameBytes
<1>4. SubSeq(buffer, 1, Len(a)) = a
  BY <1>1, SameBytes
<1>5. buffer' = SubSeq(buffer, Len(a) + 1, Len(buffer)) /\ unread' = unread
  BY Zenon DEF Consume
<1> QED BY <1>2, <1>3, <1>4, <1>5, Zenon

(* A frame whose longer length has been read. *)
LEMMA LengthTracks ==
    ASSUME ZlibGivesBytes, Inv', NEW s \in {"GET_PAYLOAD_LENGTH_16", "GET_PAYLOAD_LENGTH_64"},
           TypeOK, Track, state = s, err = 0, ~ended,
           ~frames[parsed + 1].unsafe, NEW n, n = Len(frames[parsed + 1].payload),
           HaveLength([header EXCEPT !.payloadLength = n], message),
           Cat(buffer', unread') = FromMask(frames[parsed + 1], Behind(frames, parsed + 1)),
           UNCHANGED <<options, frames, parsed, events, ended>>
    PROVE  IInv' /\ (Decoder!Next \/ UNCHANGED Decoder!vars)
<1> DEFINE p == parsed
           f == frames[p + 1]
           h == [header EXCEPT !.payloadLength = n]
<1>1. p < Len(frames) /\ Fine(p + 1) /\ Reading(frames, p, s, header, message, job)
  BY DEF Track
<1>2. n \in Nat
  BY <1>1, FrameRead, FramePayload
<1>3. header \in Headers /\ message \in Messages
  BY DEF TypeOK
<1>4. /\ h \in Headers /\ h.payloadLength = n /\ h.fin = header.fin /\ h.masked = header.masked
      /\ h.opcode = header.opcode
  BY <1>2, <1>3 DEF Headers
<1>5. Counted(f, s) = 0
  BY DEF Counted
<1> HIDE DEF h
<1>6. Read(frames, p, 0, header, message)
  BY <1>1, <1>5, Zenon DEF Reading
<1>7. Read(frames, p, 0, h, message)
  BY <1>4, <1>6, Zenon DEF Read, Collects
<1>8. HaveLength(h, message)
  BY DEF h
<1> QED BY <1>1, <1>3, <1>4, <1>7, <1>8, HaveLengthTracks

(* getPayloadLength16() reads the length that was written. *)
LEMMA GetPayloadLength16Tracks ==
    ASSUME ZlibGivesBytes, IInv, GetPayloadLength16
    PROVE  IInv' /\ (Decoder!Next \/ UNCHANGED Decoder!vars)
<1> DEFINE s == "GET_PAYLOAD_LENGTH_16"
           f == frames[parsed + 1]
           behind == Behind(frames, parsed + 1)
<1>1. /\ Turn(s) /\ Consume(2)
      /\ HaveLength([header EXCEPT !.payloadLength = UInt16(buffer)], message)
      /\ UNCHANGED <<options, frames, unread, job, ended, parsed, events>>
  BY DEF GetPayloadLength16
<1>2. /\ Inv' /\ Inv /\ TypeOK /\ Track /\ err = 0 /\ ~ended /\ state = s /\ Len(buffer) >= 2
  BY <1>1, TurnTracks, TurnReads, GetPayloadLength16OK DEF States, IInv
<1>3. parsed < Len(frames) /\ f.form = 126
  BY <1>2 DEF Track, Reading
<1>4. f \in WireFrames /\ behind \in Seq(Byte)
  BY <1>2, <1>3, FrameRead
<1>5. ~f.unsafe
  BY <1>3, <1>4, FrameLength
<1>6. /\ LengthPart(f) \in Seq(Byte) /\ Len(LengthPart(f)) = 2
      /\ UInt16(LengthPart(f)) = Len(f.payload)
  BY <1>3, <1>4, LengthRead DEF LengthSize
<1>7. FromMask(f, behind) \in Seq(Byte)
  BY <1>4, FrameOctets
<1>8. Cat(buffer, unread) = Cat(LengthPart(f), FromMask(f, behind))
  BY <1>2, AheadIs DEF Track, FromLength
<1>9. buffer \in Seq(Byte) /\ unread \in Seq(Byte)
  BY <1>2 DEF TypeOK
<1>10. UNCHANGED unread
  BY <1>1
<1> DEFINE l == LengthPart(f)
           r == FromMask(f, behind)
<1> HIDE DEF l, r
<1>11. Cat(buffer', unread') = r /\ \A i \in 1 .. 2 : buffer[i] = l[i]
  <2>1. /\ l \in Seq(Byte) /\ r \in Seq(Byte) /\ Len(l) = 2 /\ Cat(buffer, unread) = Cat(l, r)
    BY <1>6, <1>7, <1>8 DEF l, r
  <2> QED BY <1>1, <1>2, <1>9, <1>10, <2>1, Consumes
<1>12. UInt16(buffer) = Len(f.payload)
  <2>1. 1 \in 1 .. 2 /\ 2 \in 1 .. 2
    OBVIOUS
  <2>2. buffer[1] = l[1] /\ buffer[2] = l[2]
    BY <1>11, <2>1
  <2>3. UInt16(buffer) = UInt16(l)
    BY <2>2, Zenon DEF UInt16
  <2> QED BY <1>6, <2>3 DEF l
<1>13. Cat(buffer', unread') = FromMask(f, behind)
  BY <1>11 DEF r
<1> DEFINE n == UInt16(buffer)
<1>14. HaveLength([header EXCEPT !.payloadLength = n], message)
  BY <1>1
<1> HIDE DEF n
<1>15. n = Len(f.payload)
  BY <1>12 DEF n
<1> QED BY <1>1, <1>2, <1>5, <1>13, <1>14, <1>15, LengthTracks

(* getPayloadLength64() reads it too, or refuses one it cannot hold. *)
LEMMA GetPayloadLength64Tracks ==
    ASSUME ZlibGivesBytes, IInv, GetPayloadLength64
    PROVE  IInv' /\ (Decoder!Next \/ UNCHANGED Decoder!vars)
<1> DEFINE s == "GET_PAYLOAD_LENGTH_64"
           f == frames[parsed + 1]
           behind == Behind(frames, parsed + 1)
<1>1. /\ Turn(s) /\ Consume(8)
      /\ IF Unsafe(buffer)
           THEN Fail(1009) /\ UNCHANGED <<state, header, message>>
           ELSE HaveLength([header EXCEPT !.payloadLength = UInt64(buffer)], message)
      /\ UNCHANGED <<options, frames, unread, job, ended, parsed, events>>
  BY DEF GetPayloadLength64
<1>2. /\ Inv' /\ Inv /\ TypeOK /\ Track /\ err = 0 /\ ~ended /\ state = s /\ Len(buffer) >= 8
  BY <1>1, TurnTracks, TurnReads, GetPayloadLength64OK DEF States, IInv
<1>3. parsed < Len(frames) /\ f.form = 127
  BY <1>2 DEF Track, Reading
<1>4. f \in WireFrames /\ behind \in Seq(Byte) /\ MaxPayload \in Int
  BY <1>2, <1>3, FrameRead
<1>6. /\ LengthPart(f) \in Seq(Byte) /\ Len(LengthPart(f)) = 8
      /\ Unsafe(LengthPart(f)) = f.unsafe
      /\ ~f.unsafe => UInt64(LengthPart(f)) = Len(f.payload)
  BY <1>3, <1>4, LengthRead DEF LengthSize
<1>7. FromMask(f, behind) \in Seq(Byte)
  BY <1>4, FrameOctets
<1>8. Cat(buffer, unread) = Cat(LengthPart(f), FromMask(f, behind))
  BY <1>2, AheadIs DEF Track, FromLength
<1>9. buffer \in Seq(Byte) /\ unread \in Seq(Byte)
  BY <1>2 DEF TypeOK
<1>10. UNCHANGED unread
  BY <1>1
<1> DEFINE l == LengthPart(f)
           r == FromMask(f, behind)
<1> HIDE DEF l, r
<1>11. Cat(buffer', unread') = r /\ \A i \in 1 .. 8 : buffer[i] = l[i]
  <2>1. /\ l \in Seq(Byte) /\ r \in Seq(Byte) /\ Len(l) = 8 /\ Cat(buffer, unread) = Cat(l, r)
    BY <1>6, <1>7, <1>8 DEF l, r
  <2> QED BY <1>1, <1>2, <1>9, <1>10, <2>1, Consumes
<1>12. Unsafe(buffer) = f.unsafe /\ (~f.unsafe => UInt64(buffer) = Len(f.payload))
  <2>1. \A i \in {1, 2, 3, 4, 5, 6, 7, 8} : i \in 1 .. 8
    OBVIOUS
  <2>2. /\ buffer[1] = l[1] /\ buffer[2] = l[2] /\ buffer[3] = l[3] /\ buffer[4] = l[4]
        /\ buffer[5] = l[5] /\ buffer[6] = l[6] /\ buffer[7] = l[7] /\ buffer[8] = l[8]
    BY <1>11, <2>1
  <2>3. UInt64(buffer) = UInt64(l) /\ Unsafe(buffer) = Unsafe(l)
    BY SMTT(30), <2>2 DEF UInt64, Unsafe
  <2> QED BY <1>6, <2>3 DEF l
<1>13. Cat(buffer', unread') = FromMask(f, behind)
  BY <1>11 DEF r
<1>14. CASE Unsafe(buffer)
  <2>1. err' = 1009
    BY <1>1, <1>14 DEF Fail
  <2>2. 1009 \in Decoder!Faults(parsed + 1)
    BY ZenonT(60), <1>4, <1>12, <1>14, HeaderVerdict
  <2> QED BY <1>1, <1>2, <1>3, <2>1, <2>2, RefusalTracks
<1>15. CASE ~Unsafe(buffer)
  <2> DEFINE n == UInt64(buffer)
  <2>1. HaveLength([header EXCEPT !.payloadLength = n], message)
    BY <1>1, <1>15
  <2> HIDE DEF n
  <2>2. ~f.unsafe /\ n = Len(f.payload)
    BY <1>12, <1>15 DEF n
  <2> QED BY <1>1, <1>2, <1>13, <2>1, <2>2, LengthTracks
<1> QED BY <1>14, <1>15

(* getMask() reads the key. *)
LEMMA GetMaskTracks ==
    ASSUME IInv, GetMask
    PROVE  IInv' /\ UNCHANGED Decoder!vars
<1> DEFINE f == frames[parsed + 1]
           behind == Behind(frames, parsed + 1)
           key == SubSeq(buffer, 1, 4)
           h == [header EXCEPT !.mask = key]
<1>1. /\ Turn("GET_MASK") /\ Consume(4)
      /\ header' = h
      /\ state' = "GET_DATA"
      /\ UNCHANGED <<options, frames, unread, loop, writing, err, message, job, ended, parsed, events>>
  BY DEF GetMask
<1>2. /\ Inv' /\ Inv /\ TypeOK /\ Track /\ err = 0 /\ ~ended /\ state = "GET_MASK" /\ Len(buffer) >= 4
  BY <1>1, TurnTracks, TurnReads, GetMaskOK DEF States, IInv
<1>3. /\ parsed < Len(frames) /\ parsed \in 0 .. Len(frames) /\ Fine(parsed + 1)
      /\ Reading(frames, parsed, "GET_MASK", header, message, job)
  BY <1>2 DEF Track
<1>4. f \in WireFrames /\ behind \in Seq(Byte)
  BY <1>2, <1>3, FrameRead
<1>5. f.mask # <<>> /\ ~f.unsafe /\ header.payloadLength = Len(f.payload)
  BY <1>3 DEF Reading
<1>6. f.mask \in Seq(Byte) /\ Len(f.mask) = 4 /\ FromData(f, behind) \in Seq(Byte)
  BY <1>4, <1>5, FrameMask, FrameOctets
<1>7. Cat(buffer, unread) = Cat(f.mask, FromData(f, behind))
  BY <1>2, AheadIs DEF Track, FromMask
<1>8. buffer \in Seq(Byte) /\ unread \in Seq(Byte) /\ UNCHANGED unread
  BY <1>1, <1>2 DEF TypeOK
<1>9. Cat(buffer', unread') = FromData(f, behind) /\ key = f.mask
  <2> DEFINE a == f.mask
             r == FromData(f, behind)
  <2> HIDE DEF a, r
  <2>1. /\ a \in Seq(Byte) /\ r \in Seq(Byte) /\ Len(a) = 4 /\ Cat(buffer, unread) = Cat(a, r)
        /\ Len(buffer) >= 4 /\ Consume(4)
    BY <1>1, <1>2, <1>6, <1>7 DEF a, r
  <2>2. Cat(buffer', unread') = r
    BY <1>8, <2>1, Consumes
  <2>3. SubSeq(buffer, 1, 4) = a
    BY <1>8, <2>1, Consumes
  <2> QED BY <2>2, <2>3 DEF a, r
<1> HIDE DEF key
<1>10. /\ h.fin = header.fin /\ h.masked = header.masked /\ h.opcode = header.opcode
       /\ h.payloadLength = header.payloadLength /\ h.mask = key
  BY <1>2 DEF TypeOK, Headers
<1> HIDE DEF h
<1>11. UNCHANGED Decoder!vars
  BY <1>1, DecoderStutters
<1>12. Ended'
  <2>1. state' # "GET_INFO" /\ ended' = FALSE
    <3>1. ended' = ended /\ ended \in BOOLEAN
      BY <1>1, <1>2 DEF TypeOK
    <3> QED BY <1>1, <1>2, <3>1
  <2> QED BY <2>1 DEF Ended
<1>13. Reading(frames, parsed, "GET_DATA", h, message, job)
  <2>1. Counted(f, "GET_MASK") = Counted(f, "GET_DATA")
    BY DEF Counted
  <2>2. Read(frames, parsed, Counted(f, "GET_DATA"), header, message)
    BY <1>3, <2>1, Zenon DEF Reading
  <2>3. Read(frames, parsed, Counted(f, "GET_DATA"), h, message)
    BY <1>10, <2>2, Zenon DEF Read, Collects
  <2> QED BY <1>5, <1>9, <1>10, <2>3 DEF Reading
<1>14. Track'
  <2>1. "GET_DATA" \in States \ {"GET_INFO"}
    BY DEF States
  <2>2. Cat(buffer', unread') = Ahead(frames, parsed, "GET_DATA")
    BY <1>9, AheadIs
  <2>3. Reading(frames, parsed, "GET_DATA", header', message', job')
    BY <1>1, <1>13
  <2> QED BY <1>1, <1>3, <2>1, <2>2, <2>3, TrackWithin
<1> QED BY <1>2, <1>11, <1>12, <1>14 DEF IInv

-----------------------------------------------------------------------------
(* A frame is taken, and the receiver goes on. *)
LEMMA TakenTracks ==
    ASSUME Inv', TypeOK, Track, err = 0, ~ended, parsed < Len(frames),
           Decoder!Faults(parsed + 1) = {}, NEW e, Taken(e), e = Decoder!Effect(parsed + 1),
           frames[parsed + 1].opcode # 8, header.opcode # 8,
           Cat(buffer', unread') = Behind(frames, parsed + 1),
           Between(frames, parsed + 1, message'), UNCHANGED <<options, frames, header>>
    PROVE  IInv' /\ Decoder!Next
<1>1. /\ parsed' = parsed + 1 /\ events' = events \o Decoder!Effect(parsed + 1)
      /\ state' = "GET_INFO" /\ UNCHANGED <<err, ended>>
  BY Zenon DEF Taken
<1>2. ended = FALSE /\ ended' = FALSE /\ ended' = (frames[parsed + 1].opcode = 8)
  BY <1>1 DEF TypeOK
<1>3. Decoder!Next
  BY <1>1, <1>2, DecoderAccepts
<1>4. Ended'
  BY <1>1, <1>2 DEF Ended
<1>5. Track'
  <2>1. parsed \in 0 .. Len(frames)
    BY DEF Track
  <2> QED BY <1>1, <2>1, TrackBetween
<1> QED BY <1>3, <1>4, <1>5 DEF IInv

(* A control frame leaves the message in progress alone. *)
LEMMA BetweenControl ==
    ASSUME ZlibGivesBytes, NEW fs \in Seq(WireFrames), NEW p \in 0 .. Len(fs), p < Len(fs),
           NEW m, Between(fs, p, m), Control(fs, p + 1)
    PROVE  Between(fs, p + 1, m)
<1>1. p \in Nat /\ p + 1 \in 1 .. Len(fs)
  BY LenProperties
<1>2. OpenBehind(fs, p + 1) = OpenBehind(fs, p)
  BY <1>1, OpenNext
<1>3. fs[p + 1].opcode \notin {1, 2}
  BY DEF Control
<1>4. ASSUME m.fragmented # 0
      PROVE  \E o \in 1 .. p + 1 : /\ Opens(fs, o, p + 1)
                                   /\ m.fragmented = fs[o].opcode
                                   /\ m.compressed = fs[o].rsv1
                                   /\ m.fragments = MeantUpto(fs, o, p + 1)
                                   /\ m.totalPayloadLength = Len(RawUpto(fs, o, p + 1))
  <2>1. PICK o \in 1 .. p : /\ Opens(fs, o, p)
                            /\ m.fragmented = fs[o].opcode
                            /\ m.compressed = fs[o].rsv1
                            /\ m.fragments = MeantUpto(fs, o, p)
                            /\ m.totalPayloadLength = Len(RawUpto(fs, o, p))
    BY <1>4, Zenon DEF Between
  <2>2. o \in 1 .. p + 1 /\ Opens(fs, o, p + 1)
    BY <1>1, <1>3, <2>1, OpensNext
  <2>3. Raw(fs, p + 1) = <<>> /\ Meant(fs, o, p + 1) = <<>>
    BY DEF Raw, Meant
  <2>4. RawUpto(fs, o, p) \in Seq(Byte) /\ MeantUpto(fs, o, p) \in Seq(Byte)
    BY <2>2, UptoTypes
  <2>5. /\ RawUpto(fs, o, p + 1) = Cat(RawUpto(fs, o, p), <<>>)
        /\ MeantUpto(fs, o, p + 1) = Cat(MeantUpto(fs, o, p), <<>>)
    BY <2>2, <2>3, UptoNext
  <2>6. RawUpto(fs, o, p + 1) = RawUpto(fs, o, p) /\ MeantUpto(fs, o, p + 1) = MeantUpto(fs, o, p)
    BY <2>4, <2>5, CatNothing
  <2> QED BY <2>1, <2>2, <2>6, Zenon
<1> QED BY <1>2, <1>4, Zenon DEF Between

-----------------------------------------------------------------------------
(* dataMessage(): the message goes on, or it is delivered or refused. *)
LEMMA DataMessageTracks ==
    ASSUME Inv', TypeOK, Track, err = 0, ~ended, parsed < Len(frames), Fine(parsed + 1),
           ~Control(frames, parsed + 1), ~frames[parsed + 1].unsafe,
           NEW o \in 1 .. parsed + 1, Opens(frames, o, parsed + 1),
           header.opcode = frames[o].opcode, header.fin = frames[parsed + 1].fin,
           NEW m \in Messages, m.compressed = frames[o].rsv1, m.fragmented \in {0, frames[o].opcode},
           ~header.fin => m.fragmented # 0,
           m.fragments = MeantUpto(frames, o, parsed + 1),
           m.totalPayloadLength = Len(RawUpto(frames, o, parsed + 1)),
           ~Limited(Len(m.fragments)), frames[o].rsv1 => Deflated(frames[parsed + 1].payload),
           DataMessage(m), Cat(buffer', unread') = Behind(frames, parsed + 1),
           UNCHANGED <<options, frames, header>>
    PROVE  IInv' /\ Decoder!Next
<1> DEFINE p == parsed
           k == p + 1
           f == frames[k]
           text == frames[o].opcode = 1
           bytes == MeantUpto(frames, o, k)
<1>1. /\ frames \in Seq(WireFrames) /\ p \in Nat /\ k \in 1 .. Len(frames)
      /\ f \in WireFrames /\ MaxPayload \in Int
  BY FrameRead
<1>2. /\ f.fin /\ text /\ NotText(bytes) => 1007 \in Decoder!Faults(k)
      /\ ~(f.fin /\ text /\ NotText(bytes)) => Decoder!Faults(k) = {}
  BY <1>1, DataVerdict
<1>3. frames[o].opcode \in {1, 2} /\ header.opcode \in {1, 2} /\ header.opcode # 8
  BY DEF Opens
<1>4. f.opcode \in {0, 1, 2} /\ f.opcode # 8
  <2>1. f.opcode \in {0, 1, 2, 8, 9, 10}
    BY Zenon DEF Fine, HeaderFine
  <2> QED BY <2>1 DEF Control
<1>5. OpenBehind(frames, k) = ~f.fin
  BY <1>1, OpenNext
<1>6. f.fin \in BOOLEAN
  BY <1>1, FrameHead
<1>7. Decoder!Opener(k) = o /\ Decoder!Content(k) = bytes
  <2>1. k \in Nat /\ k <= Len(frames)
    BY <1>1, LenProperties
  <2> QED BY <1>1, <2>1, DecoderOpener, DecoderContent
<1>8. /\ ~f.fin => Decoder!Effect(k) = <<>>
      /\ f.fin => Decoder!Effect(k) = <<Event(IF text THEN "text" ELSE "binary", 0, bytes)>>
  <2>1. /\ f.opcode \in {0, 1, 2} /\ ~f.fin => Decoder!Effect(k) = <<>>
        /\ f.opcode \in {0, 1, 2} /\ f.fin =>
             Decoder!Effect(k) =
               <<Event(IF frames[Decoder!Opener(k)].opcode = 1 THEN "text" ELSE "binary", 0,
                       Decoder!Content(k))>>
    BY DecoderEffect
  <2> QED BY <1>4, <1>7, <2>1
<1>9. ASSUME ~header.fin PROVE IInv' /\ Decoder!Next
  <2>1. message' = m /\ Taken(<<>>)
    BY <1>9 DEF DataMessage
  <2>2. ~f.fin /\ Decoder!Faults(k) = {} /\ Decoder!Effect(k) = <<>>
    BY <1>2, <1>8, <1>9
  <2>3. m.fragmented # 0 /\ m.fragmented = frames[o].opcode
    BY <1>9
  <2> HIDE DEF k
  <2>4. Between(frames, k, m)
    BY <1>5, <2>2, <2>3, Zenon DEF Between, k
  <2> USE DEF k
  <2> QED BY <1>3, <1>4, <2>1, <2>2, <2>4, TakenTracks
<1>10. ASSUME header.fin PROVE IInv' /\ Decoder!Next
  <2> DEFINE none == [NoMessage EXCEPT !.compressed = m.compressed]
  <2>1. /\ message' = none
        /\ \/ header.opcode = 2 /\ Taken(<<Event("binary", 0, m.fragments)>>)
           \/ header.opcode # 2 /\ NotText(m.fragments) /\ Refuse(1007)
           \/ header.opcode # 2 /\ ~NotText(m.fragments) /\ Taken(<<Event("text", 0, m.fragments)>>)
    BY <1>10 DEF DataMessage
  <2>2. /\ none.fragmented = 0 /\ none.fragments = <<>> /\ none.totalPayloadLength = 0
    BY DEF NoMessage
  <2> HIDE DEF none
  <2>3. Between(frames, k, message')
    BY <1>5, <1>10, <2>1, <2>2, Zenon DEF Between
  <2>4. f.fin /\ Decoder!Effect(k) = <<Event(IF text THEN "text" ELSE "binary", 0, bytes)>>
    BY <1>8, <1>10
  <2>5. CASE header.opcode = 2 /\ Taken(<<Event("binary", 0, m.fragments)>>)
    <3>1. ~text
      BY <2>5
    <3>2. Decoder!Faults(k) = {} /\ <<Event("binary", 0, m.fragments)>> = Decoder!Effect(k)
      BY <1>2, <2>4, <3>1
    <3> QED BY <1>3, <1>4, <2>3, <2>5, <3>2, TakenTracks
  <2>6. CASE header.opcode # 2 /\ NotText(m.fragments) /\ Refuse(1007)
    <3>1. 1007 \in Decoder!Faults(k)
      BY <1>2, <1>3, <2>4, <2>6
    <3>2. err' = 1007 /\ UNCHANGED <<parsed, events, ended>>
      BY <2>6 DEF Refuse, Fail
    <3> QED BY <3>1, <3>2, RefusalTracks
  <2>7. CASE header.opcode # 2 /\ ~NotText(m.fragments) /\ Taken(<<Event("text", 0, m.fragments)>>)
    <3>1. text
      BY <1>3, <2>7
    <3>2. Decoder!Faults(k) = {} /\ <<Event("text", 0, m.fragments)>> = Decoder!Effect(k)
      BY <1>2, <2>4, <2>7, <3>1
    <3> QED BY <1>3, <1>4, <2>3, <2>7, <3>2, TakenTracks
  <2> QED BY <2>1, <2>5, <2>6, <2>7
<1> QED BY <1>9, <1>10

(* A close frame ends the receiver. *)
LEMMA ConcludeTracks ==
    ASSUME Inv', TypeOK, err = 0, ~ended, parsed < Len(frames), Decoder!Faults(parsed + 1) = {},
           NEW code, NEW reason, Conclude(code, reason),
           Decoder!Effect(parsed + 1) = <<Event("conclude", code, reason)>>,
           frames[parsed + 1].opcode = 8, header.opcode = 8, UNCHANGED <<options, frames, header>>
    PROVE  IInv' /\ Decoder!Next
<1> DEFINE e == Event("conclude", code, reason)
<1>1. /\ parsed' = parsed + 1 /\ events' = Append(events, e) /\ state' = "GET_INFO"
      /\ loop' = FALSE /\ ended' = TRUE /\ UNCHANGED err
  BY DEF Conclude
<1>2. events' = events \o Decoder!Effect(parsed + 1)
  <2>1. events \in Seq(Events)
    BY DEF TypeOK
  <2> HIDE DEF e
  <2>2. Append(events, e) = events \o <<e>>
    BY <2>1
  <2>3. Decoder!Effect(parsed + 1) = <<e>>
    BY DEF e
  <2> QED BY <1>1, <2>2, <2>3, Zenon
<1>3. Decoder!Next
  <2>1. ended' = (frames[parsed + 1].opcode = 8)
    BY <1>1
  <2> QED BY <1>1, <1>2, <2>1, DecoderAccepts
<1>4. Ended'
  BY <1>1 DEF Ended
<1> QED BY <1>1, <1>3, <1>4 DEF IInv

(* controlMessage(): the receiver judges a control frame as the rules do. *)
LEMMA ControlMessageTracks ==
    ASSUME ZlibGivesBytes, Inv', TypeOK, Track, err = 0, ~ended, parsed < Len(frames),
           Fine(parsed + 1), Control(frames, parsed + 1), header.opcode = frames[parsed + 1].opcode,
           Between(frames, parsed, message), NEW data, data = frames[parsed + 1].payload,
           ControlMessage(data), Cat(buffer', unread') = Behind(frames, parsed + 1),
           UNCHANGED <<options, frames, header, message>>
    PROVE  IInv' /\ Decoder!Next
<1> DEFINE p == parsed
           k == p + 1
           f == frames[k]
           code == UInt16(data)
           reason == SubSeq(data, 3, Len(data))
           bad == Len(data) = 1 \/ ~IsValidStatusCode(code)
<1>1. /\ frames \in Seq(WireFrames) /\ f \in WireFrames /\ MaxPayload \in Int
      /\ p \in 0 .. Len(frames)
  BY FrameRead DEF Track
<1>2. Between(frames, k, message')
  <2>1. Between(frames, k, message)
    BY <1>1, BetweenControl
  <2> QED BY <2>1
<1>3. /\ f.opcode = 8 /\ ~CloseFine(data) => 1002 \in Decoder!Faults(k)
      /\ f.opcode = 8 /\ Len(data) > 1 /\ NotText(reason) => 1007 \in Decoder!Faults(k)
      /\ f.opcode = 8 /\ CloseFine(data) /\ ~(Len(data) > 1 /\ NotText(reason))
         => Decoder!Faults(k) = {}
      /\ f.opcode # 8 => Decoder!Faults(k) = {}
  BY <1>1, ControlVerdict DEF ReasonOf
<1>4. /\ f.opcode = 8 /\ data = <<>> => Decoder!Effect(k) = <<Event("conclude", 1005, <<>>)>>
      /\ f.opcode = 8 /\ data # <<>> => Decoder!Effect(k) = <<Event("conclude", code, reason)>>
      /\ f.opcode = 9 => Decoder!Effect(k) = <<Event("ping", 0, data)>>
      /\ f.opcode = 10 => Decoder!Effect(k) = <<Event("pong", 0, data)>>
  BY DecoderEffect DEF ReasonOf
<1>5. \/ header.opcode = 9 /\ Taken(<<Event("ping", 0, data)>>)
      \/ header.opcode = 10 /\ Taken(<<Event("pong", 0, data)>>)
      \/ header.opcode = 8 /\ data = <<>> /\ Conclude(1005, <<>>)
      \/ /\ header.opcode = 8 /\ data # <<>>
         /\ IF bad THEN Refuse(1002)
            ELSE IF NotText(reason) THEN Refuse(1007)
            ELSE Conclude(code, reason)
  BY DEF ControlMessage
<1>6. data \in Seq(Byte) /\ Len(data) \in Nat
  BY <1>1, FramePayload
<1>7. data # <<>> => (CloseFine(data) <=> ~bad) /\ Len(data) > 0
  <2>1. data # <<>> => Len(data) > 0
    BY <1>6, EmptySeq
  <2>2. CloseFine(data) <=> Len(data) = 0 \/ (Len(data) > 1 /\ IsValidStatusCode(code))
    BY DEF CloseFine
  <2>3. ASSUME data # <<>> PROVE CloseFine(data) <=> ~bad
    <3>1. Len(data) # 0 /\ (Len(data) > 1 <=> Len(data) # 1)
      <4> DEFINE n == Len(data)
      <4>1. n \in Nat /\ n > 0
        BY <1>6, <2>1, <2>3
      <4> HIDE DEF n
      <4>2. n # 0 /\ (n > 1 <=> n # 1)
        BY <4>1
      <4> QED BY <4>2 DEF n
    <3> QED BY <2>2, <3>1, Zenon
  <2> QED BY <2>1, <2>3, Zenon
<1>8. data = <<>> => CloseFine(data) /\ ~(Len(data) > 1)
  <2>1. data = <<>> => Len(data) = 0
    BY EmptySeq
  <2> QED BY <1>6, <2>1 DEF CloseFine
<1> HIDE DEF bad, reason, code
<1>9. CASE header.opcode = 9 /\ Taken(<<Event("ping", 0, data)>>)
  BY <1>2, <1>3, <1>4, <1>9, TakenTracks
<1>10. CASE header.opcode = 10 /\ Taken(<<Event("pong", 0, data)>>)
  BY <1>2, <1>3, <1>4, <1>10, TakenTracks
<1>11. CASE header.opcode = 8 /\ data = <<>> /\ Conclude(1005, <<>>)
  BY <1>3, <1>4, <1>8, <1>11, ConcludeTracks
<1>12. CASE header.opcode = 8 /\ data # <<>> /\ bad /\ Refuse(1002)
  <2>1. 1002 \in Decoder!Faults(k)
    BY <1>3, <1>7, <1>12
  <2>2. err' = 1002 /\ UNCHANGED <<parsed, events, ended>>
    BY <1>12 DEF Refuse, Fail
  <2> QED BY <2>1, <2>2, RefusalTracks
<1>13. CASE header.opcode = 8 /\ data # <<>> /\ ~bad /\ NotText(reason) /\ Refuse(1007)
  <2>1. Len(data) > 1
    <3>1. Len(data) # 1 /\ Len(data) > 0
      BY <1>7, <1>13, Zenon DEF bad
    <3> DEFINE n == Len(data)
    <3>2. n \in Nat /\ n # 1 /\ n > 0
      BY <1>6, <3>1
    <3> HIDE DEF n
    <3>3. n > 1
      BY <3>2
    <3> QED BY <3>3 DEF n
  <2>2. 1007 \in Decoder!Faults(k)
    BY <1>3, <1>13, <2>1
  <2>3. err' = 1007 /\ UNCHANGED <<parsed, events, ended>>
    BY <1>13 DEF Refuse, Fail
  <2> QED BY <2>2, <2>3, RefusalTracks
<1>14. CASE header.opcode = 8 /\ data # <<>> /\ ~bad /\ ~NotText(reason) /\ Conclude(code, reason)
  BY <1>3, <1>4, <1>7, <1>14, ConcludeTracks
<1> QED BY <1>5, <1>9, <1>10, <1>11, <1>12, <1>13, <1>14

-----------------------------------------------------------------------------
(* The message with the data of one frame more. *)
LEMMA KeepTracks ==
    ASSUME ZlibGivesBytes, TypeOK, Track, parsed < Len(frames), ~Control(frames, parsed + 1),
           NEW o \in 1 .. parsed + 1, message.fragments = MeantUpto(frames, o, parsed),
           NEW data, data = Meant(frames, o, parsed + 1), NEW n
    PROVE  LET m == Keep(data, n)
           IN /\ data \in Seq(Byte)
              /\ m.fragments = MeantUpto(frames, o, parsed + 1)
              /\ m.compressed = message.compressed /\ m.fragmented = message.fragmented
              /\ m.totalPayloadLength = message.totalPayloadLength
              /\ Len(MeantUpto(frames, o, parsed + 1)) = Len(message.fragments) + Len(data)
<1> DEFINE p == parsed
           k == p + 1
           m == Keep(data, n)
           before == MeantUpto(frames, o, p)
<1>1. frames \in Seq(WireFrames) /\ k \in 1 .. Len(frames) /\ p \in 0 .. Len(frames)
  BY FrameRead DEF Track
<1>2. before \in Seq(Byte)
  BY <1>1, UptoTypes
<1>3. data \in Seq(Byte)
  BY <1>1, PartTypes
<1>4. MeantUpto(frames, o, k) = Cat(before, data)
  BY <1>1, UptoNext
<1>5. message \in Messages
  BY DEF TypeOK
<1> HIDE DEF before, k
<1>6. Len(Cat(before, data)) = Len(before) + Len(data)
  BY <1>2, <1>3, CatTypes
<1>7. /\ m.fragments = Cat(before, data)
      /\ m.compressed = message.compressed /\ m.fragmented = message.fragmented
      /\ m.totalPayloadLength = message.totalPayloadLength
  <2>1. CASE data = <<>>
    <3>1. m = message
      BY <2>1 DEF Keep
    <3>2. Cat(before, data) = before
      BY <1>2, <2>1, CatNothing
    <3>3. message.fragments = before
      BY DEF before
    <3> HIDE DEF m
    <3> QED BY <3>1, <3>2, <3>3
  <2>2. CASE data # <<>>
    <3> DEFINE c == message.fragments \o data
    <3>1. m = [message EXCEPT !.messageLength = n, !.fragments = c]
      BY <2>2 DEF Keep
    <3>2. c = Cat(before, data)
      BY Zenon DEF Cat, before
    <3> HIDE DEF m, c
    <3>3. /\ m.fragments = c /\ m.compressed = message.compressed
          /\ m.fragmented = message.fragmented
          /\ m.totalPayloadLength = message.totalPayloadLength
      BY <1>5, <3>1 DEF Messages
    <3> QED BY <3>2, <3>3
  <2> QED BY <2>1, <2>2
<1> QED BY <1>3, <1>4, <1>6, <1>7 DEF before, k

(* The payload that is read is the one that was sent. *)
LEMMA PayloadTracks ==
    ASSUME TypeOK, Track, state = "GET_DATA", Consume(header.payloadLength), UNCHANGED unread,
           Len(buffer) >= header.payloadLength
    PROVE  /\ Payload = frames[parsed + 1].payload
           /\ Cat(buffer', unread') = Behind(frames, parsed + 1)
<1> DEFINE f == frames[parsed + 1]
           r == Behind(frames, parsed + 1)
           d == DataPart(f)
           n == header.payloadLength
           bytes == SubSeq(buffer, 1, n)
<1>1. parsed < Len(frames) /\ Reading(frames, parsed, "GET_DATA", header, message, job)
  BY DEF Track
<1>2. /\ n = Len(f.payload) /\ header.masked = (f.mask # <<>>)
      /\ header.masked => header.mask = f.mask
  BY <1>1, Zenon DEF Reading, Read
<1>3. f \in WireFrames /\ r \in Seq(Byte)
  BY <1>1, FrameRead
<1>4. /\ d \in Seq(Byte) /\ Len(d) = n
      /\ (IF f.mask = <<>> THEN d ELSE Masked(d, f.mask)) = f.payload
  BY <1>2, <1>3, DataRead
<1>5. Cat(buffer, unread) = Cat(d, r)
  <2>1. Cat(buffer, unread) = Ahead(frames, parsed, "GET_DATA")
    BY DEF Track
  <2> QED BY <2>1, AheadIs DEF FromData
<1>6. buffer \in Seq(Byte) /\ unread \in Seq(Byte) /\ Len(buffer) >= n /\ Consume(n)
  BY DEF TypeOK
<1> HIDE DEF d, r, n
<1>7. Cat(buffer', unread') = r
  BY <1>3, <1>4, <1>5, <1>6, Consumes
<1>8. bytes = d
  BY <1>3, <1>4, <1>5, <1>6, Consumes
<1>9. Payload = IF header.masked THEN Masked(bytes, header.mask) ELSE bytes
  BY DEF Payload, n
<1> HIDE DEF bytes
<1>10. Payload = f.payload
  <2>1. CASE f.mask = <<>>
    BY <1>2, <1>4, <1>8, <1>9, <2>1
  <2>2. CASE f.mask # <<>>
    BY <1>2, <1>4, <1>8, <1>9, <2>2, Zenon
  <2> QED BY <2>1, <2>2
<1> QED BY <1>7, <1>10 DEF r

-----------------------------------------------------------------------------
(* getData(): the frame goes where its opcode says. *)
LEMMA GetDataTracks ==
    ASSUME ZlibGivesBytes, IInv, GetData
    PROVE  IInv' /\ (Decoder!Next \/ UNCHANGED Decoder!vars)
<1> DEFINE p == parsed
           k == p + 1
           f == frames[k]
           s == "GET_DATA"
<1>1. /\ Turn(s) /\ Consume(header.payloadLength)
      /\ \/ header.opcode > 7 /\ ControlMessage(Payload) /\ UNCHANGED <<message, job>>
         \/ header.opcode < 8 /\ message.compressed /\ Decompress(Payload) /\ UNCHANGED message
         \/ /\ header.opcode < 8 /\ ~message.compressed
            /\ DataMessage(Keep(Payload, message.totalPayloadLength))
            /\ UNCHANGED job
      /\ UNCHANGED <<options, frames, unread, header>>
  BY DEF GetData
<1>2. /\ Inv' /\ Inv /\ TypeOK /\ Track /\ Sums /\ err = 0 /\ ~ended /\ state = s
      /\ Len(buffer) >= header.payloadLength
  BY <1>1, TurnTracks, TurnReads, GetDataOK DEF States, IInv
<1>3. /\ p < Len(frames) /\ p \in 0 .. Len(frames) /\ Fine(k)
      /\ Reading(frames, p, s, header, message, job)
  BY <1>2 DEF Track
<1>4. /\ frames \in Seq(WireFrames) /\ f \in WireFrames
  BY <1>2, <1>3, FrameRead
<1>5. Payload = f.payload /\ Cat(buffer', unread') = Behind(frames, k)
  BY <1>1, <1>2, PayloadTracks
<1>6. /\ Read(frames, p, Len(f.payload), header, message) /\ ~f.unsafe
      /\ header.payloadLength = Len(f.payload)
  <2>1. Counted(f, s) = Len(f.payload)
    BY DEF Counted
  <2> QED BY <1>3, <2>1, Zenon DEF Reading
<1>7. /\ header.fin = f.fin
      /\ Control(frames, k) => header.opcode = f.opcode /\ Between(frames, p, message)
      /\ ~Control(frames, k) => Collects(frames, p, Len(f.payload), header, message)
  BY <1>6, Zenon DEF Read
<1>8. ASSUME ~Control(frames, k) PROVE header.opcode \in {1, 2}
  BY <1>7, <1>8 DEF Collects, Opens
<1>9. ASSUME Control(frames, k) PROVE header.opcode > 7
  <2>1. f.opcode \in 0 .. 15
    BY <1>4, FrameHead
  <2> QED BY <1>7, <1>9, <2>1 DEF Control
<1>10. CASE header.opcode > 7 /\ ControlMessage(Payload) /\ UNCHANGED <<message, job>>
  <2>1. Control(frames, k)
    BY <1>8, <1>10
  <2> QED BY <1>1, <1>2, <1>3, <1>5, <1>7, <1>10, <2>1, ControlMessageTracks
<1>11. CASE header.opcode < 8 /\ message.compressed /\ Decompress(Payload) /\ UNCHANGED message
  <2>1. ~Control(frames, k)
    <3>1. ~(header.opcode > 7)
      BY <1>2, <1>11 DEF TypeOK, Headers
    <3> QED BY <1>9, <3>1
  <2>2. /\ job' = f.payload /\ state' = "INFLATING" /\ UNCHANGED <<err, ended, parsed, events>>
    BY <1>5, <1>11 DEF Decompress
  <2>3. UNCHANGED Decoder!vars
    BY <1>1, <2>2, DecoderStutters
  <2>4. Ended'
    <3>1. state' # "GET_INFO" /\ ended' = FALSE
      <4>1. ended' = ended /\ ended \in BOOLEAN
        BY <1>2, <2>2 DEF TypeOK
      <4> QED BY <1>2, <2>2, <4>1
    <3> QED BY <3>1 DEF Ended
  <2>5. Reading(frames, p, "INFLATING", header', message', job')
    <3>1. Counted(f, "INFLATING") = Len(f.payload)
      BY DEF Counted
    <3>2. header' = header /\ message' = message
      BY <1>1, <1>11
    <3> QED BY <1>6, <2>1, <2>2, <3>1, <3>2 DEF Reading
  <2>6. Cat(buffer', unread') = Ahead(frames, p, "INFLATING")
    BY <1>5, AheadIs
  <2>7. "INFLATING" \in States \ {"GET_INFO"}
    BY DEF States
  <2>8. Track'
    BY <1>1, <1>3, <2>2, <2>5, <2>6, <2>7, TrackWithin
  <2> QED BY <1>2, <2>3, <2>4, <2>8 DEF IInv
<1>12. CASE /\ header.opcode < 8 /\ ~message.compressed
            /\ DataMessage(Keep(Payload, message.totalPayloadLength))
            /\ UNCHANGED job
  <2>1. ~Control(frames, k)
    <3>1. ~(header.opcode > 7)
      BY <1>2, <1>12 DEF TypeOK, Headers
    <3> QED BY <1>9, <3>1
  <2>2. PICK o \in 1 .. p + 1 :
          /\ Opens(frames, o, k)
          /\ header.opcode = frames[o].opcode
          /\ message.compressed = frames[o].rsv1
          /\ message.fragmented \in {0, frames[o].opcode}
          /\ message.fragments = MeantUpto(frames, o, p)
          /\ message.totalPayloadLength = Len(RawUpto(frames, o, p)) + Len(f.payload)
    BY <1>7, <2>1, Zenon DEF Collects
  <2> DEFINE data == Payload
             n == message.totalPayloadLength
             m == Keep(data, n)
  <2>3. data = Meant(frames, o, k)
    BY <1>5, <1>12, <2>1, <2>2, Zenon DEF Meant
  <2>4. data \in Seq(Byte) /\ Len(data) = header.payloadLength
    BY <1>1, <1>2, PayloadRead
  <2>5. n \in Nat /\ n = Len(message.fragments) + Len(data) /\ ~Limited(n)
        /\ n = message.messageLength + Len(data)
    <3>1. Pending = header.payloadLength
      BY <1>2, <1>12 DEF Pending
    <3>2. n \in Nat
      BY <1>2 DEF TypeOK, Messages
    <3> QED BY <1>2, <1>12, <2>4, <3>1, <3>2 DEF Sums
  <2> HIDE DEF data, n
  <2>6. m \in Messages
    <3>1. ~message.compressed => message.totalPayloadLength = Len(message.fragments) + Len(data)
      BY <2>5 DEF n
    <3>2. state # "GET_INFO"
      BY <1>2
    <3> QED BY <1>2, <2>4, <2>5, <3>1, <3>2, KeepOK
  <2>7. /\ m.fragments = MeantUpto(frames, o, k)
        /\ m.compressed = message.compressed /\ m.fragmented = message.fragmented
        /\ m.totalPayloadLength = n
        /\ Len(MeantUpto(frames, o, k)) = Len(message.fragments) + Len(data)
    BY <1>2, <1>3, <2>1, <2>2, <2>3, KeepTracks DEF n
  <2>8. ~header.fin => message.fragmented # 0
    BY <1>2 DEF Sums
  <2>9. n = Len(RawUpto(frames, o, k))
    BY <1>3, <1>4, <2>1, <2>2, HeavierBy DEF n
  <2>10. DataMessage(m)
    BY <1>12 DEF data, n
  <2>11. ~Limited(Len(m.fragments)) /\ ~frames[o].rsv1
    BY <1>12, <2>2, <2>5, <2>7
  <2> HIDE DEF m
  <2>12. IInv' /\ Decoder!Next
    BY <1>1, <1>2, <1>3, <1>5, <1>6, <1>7, <2>1, <2>2, <2>6, <2>7, <2>8, <2>9, <2>10, <2>11,
       DataMessageTracks
  <2> QED BY <2>12
<1> QED BY <1>1, <1>10, <1>11, <1>12

-----------------------------------------------------------------------------
(* What is above the limit stays above it with more. *)
LEMMA LimitedMore ==
    ASSUME MaxPayload \in Int, NEW n \in Nat, NEW k \in Nat, Limited(n)
    PROVE  Limited(k + n)
BY DEF Limited

(* zlib answers for the frame it was given, whatever was written meanwhile. *)
LEMMA InflateDoneTracks ==
    ASSUME ZlibGivesBytes, IInv, InflateDone
    PROVE  IInv' /\ (Decoder!Next \/ UNCHANGED Decoder!vars)
<1> DEFINE p == parsed
           k == p + 1
           f == frames[k]
           s == "INFLATING"
           data == Inflate(job)
           length == message.messageLength + Len(data)
<1>1. /\ err = 0 /\ ~loop /\ state = s /\ job' = <<>>
      /\ \/ \E code \in DecompressErrors(job) : Refuse(code) /\ UNCHANGED message
         \/ DecompressErrors(job) = {} /\ Decompressed(data)
      /\ UNCHANGED <<options, frames, unread, buffer, header>>
  BY DEF InflateDone
<1>2. Inv' /\ Inv /\ TypeOK /\ Sums /\ Coherent
  BY <1>1, InflateDoneOK DEF IInv, Inv, TypeOK
<1>3. ~ended /\ Track
  BY <1>1 DEF IInv, Ended
<1>4. /\ p < Len(frames) /\ p \in 0 .. Len(frames) /\ Fine(k)
      /\ Reading(frames, p, s, header, message, job)
  BY <1>1, <1>3 DEF Track
<1>5. frames \in Seq(WireFrames) /\ f \in WireFrames /\ k \in 1 .. Len(frames) /\ MaxPayload \in Int
  BY <1>2, <1>3, <1>4, FrameRead
<1>6. Cat(buffer', unread') = Behind(frames, k)
  <2>1. Cat(buffer, unread) = Behind(frames, k)
    BY <1>1, <1>3, AheadIs DEF Track
  <2> QED BY <1>1, <2>1
<1>7. /\ Read(frames, p, Len(f.payload), header, message) /\ ~f.unsafe
      /\ ~Control(frames, k) /\ job = f.payload
  <2>1. Counted(f, s) = Len(f.payload)
    BY DEF Counted
  <2> QED BY <1>4, <2>1, Zenon DEF Reading
<1>8. header.fin = f.fin /\ Collects(frames, p, Len(f.payload), header, message)
  BY <1>7, Zenon DEF Read
<1>9. PICK o \in 1 .. p + 1 :
        /\ Opens(frames, o, k)
        /\ header.opcode = frames[o].opcode
        /\ message.compressed = frames[o].rsv1
        /\ message.fragmented \in {0, frames[o].opcode}
        /\ message.fragments = MeantUpto(frames, o, p)
        /\ message.totalPayloadLength = Len(RawUpto(frames, o, p)) + Len(f.payload)
  BY <1>8, Zenon DEF Collects
<1>10. message.compressed /\ writing = TRUE
  BY <1>1, <1>2 DEF Coherent, TypeOK
<1>11. frames[o].rsv1
  BY <1>9, <1>10
<1>12. data = Meant(frames, o, k)
  BY <1>7, <1>11, Zenon DEF Meant
<1>13. /\ message \in Messages /\ message.messageLength \in Nat
       /\ message.messageLength = Len(message.fragments) /\ ~Limited(message.messageLength)
  BY <1>2 DEF TypeOK, Messages, Sums
<1>14. /\ 1009 \in Decoder!Faults(k) \/ ~Limited(Len(MeantUpto(frames, o, k)))
       /\ ~Deflated(f.payload) => 1007 \in Decoder!Faults(k)
       /\ Limited(Len(Inflate(f.payload))) => 1007 \in Decoder!Liberties(k)
  BY <1>4, <1>5, <1>7, <1>9, <1>11, DataVerdict
<1> DEFINE m == Keep(data, length)
<1>15. /\ data \in Seq(Byte)
       /\ m.fragments = MeantUpto(frames, o, k)
       /\ m.compressed = message.compressed /\ m.fragmented = message.fragmented
       /\ m.totalPayloadLength = message.totalPayloadLength
       /\ Len(MeantUpto(frames, o, k)) = Len(message.fragments) + Len(data)
  BY <1>2, <1>3, <1>4, <1>7, <1>9, <1>12, KeepTracks
<1>16. length = Len(MeantUpto(frames, o, k)) /\ length \in Nat /\ Len(data) \in Nat
  <2>1. Len(data) \in Nat
    BY <1>15, LenProperties
  <2> HIDE DEF data
  <2> QED BY <1>13, <1>15, <2>1
<1>17. \A code \in DecompressErrors(job) :
         /\ code \in {1007, 1009}
         /\ Limited(Len(data)) \/ (code = 1007 /\ ~Deflated(job))
  BY DEF DecompressErrors
<1>18. ASSUME NEW code \in DecompressErrors(job), Refuse(code)
       PROVE  IInv' /\ Decoder!Next
  <2>1. err' = code /\ UNCHANGED <<parsed, events, ended>>
    BY <1>18 DEF Refuse, Fail
  <2>2. code \in Decoder!Faults(k) \cup Decoder!Liberties(k)
    <3>1. CASE code = 1007
      BY <1>7, <1>14, <1>17, <1>18, <3>1
    <3>2. CASE code = 1009
      <4>1. Limited(Len(data))
        BY <1>17, <1>18, <3>2
      <4> DEFINE l == Len(data)
                 n == message.messageLength
      <4>2. l \in Nat /\ n \in Nat /\ Limited(l)
        BY <1>13, <1>16, <4>1
      <4>3. length = n + l
        OBVIOUS
      <4> HIDE DEF l, n
      <4>4. Limited(n + l)
        BY <1>5, <4>2, LimitedMore
      <4> HIDE DEF length
      <4> QED BY <1>14, <1>16, <3>2, <4>3, <4>4
    <3> QED BY <1>17, <1>18, <3>1, <3>2
  <2>3. code \in {1002, 1007, 1009}
    BY <1>17, <1>18
  <2> QED BY <1>1, <1>2, <1>3, <1>4, <2>1, <2>2, <2>3, RefusalTracks
<1>19. ASSUME DecompressErrors(job) = {}, Decompressed(data)
       PROVE  IInv' /\ Decoder!Next
  <2>1. Deflated(f.payload)
    BY <1>7, <1>19 DEF DecompressErrors
  <2>2. \/ /\ data # <<>> /\ Limited(length) /\ Refuse(1009)
        \/ /\ ~(data # <<>> /\ Limited(length)) /\ DataMessage(m)
    BY <1>19 DEF Decompressed
  <2>3. CASE data # <<>> /\ Limited(length) /\ Refuse(1009)
    <3>1. err' = 1009 /\ UNCHANGED <<parsed, events, ended>>
      BY <2>3 DEF Refuse, Fail
    <3> HIDE DEF length, data
    <3>2. 1009 \in Decoder!Faults(k)
      BY <1>14, <1>16, <2>3
    <3> QED BY <1>1, <1>2, <1>3, <1>4, <3>1, <3>2, RefusalTracks
  <2>4. CASE ~(data # <<>> /\ Limited(length)) /\ DataMessage(m)
    <3>1. ~Limited(length)
      <4>1. CASE data = <<>>
        <5>1. Len(data) = 0
          BY <4>1, EmptySeq
        <5>2. length = message.messageLength
          <6> HIDE DEF data
          <6> QED BY <1>13, <5>1
        <5> QED BY <1>13, <5>2
      <4>2. CASE data # <<>>
        BY <2>4, <4>2
      <4> QED BY <4>1, <4>2
    <3> HIDE DEF data
    <3>2. m \in Messages
      <4>1. data # <<>> => length = message.messageLength + Len(data) /\ ~Limited(length)
        BY <3>1
      <4> HIDE DEF length
      <4> QED BY <1>1, <1>2, <1>10, <1>15, <1>16, <4>1, KeepOK
    <3>3. ~header.fin => m.fragmented # 0
      BY <1>1, <1>2, <1>15 DEF Sums
    <3>4. m.totalPayloadLength = Len(RawUpto(frames, o, k))
      BY <1>4, <1>5, <1>7, <1>9, <1>15, HeavierBy
    <3>5. ~Limited(Len(m.fragments))
      BY <1>15, <1>16, <3>1
    <3>6. DataMessage(m)
      BY <2>4
    <3> HIDE DEF m
    <3> QED BY <1>1, <1>2, <1>3, <1>4, <1>6, <1>7, <1>8, <1>9, <1>15, <2>1, <3>2, <3>3, <3>4, <3>5,
               <3>6, DataMessageTracks
  <2> QED BY <2>2, <2>3, <2>4
<1> QED BY <1>1, <1>18, <1>19

-----------------------------------------------------------------------------
(* At first all frames are ahead and no message is in progress. *)
LEMMA InitTracks ==
    ASSUME Inv, Init
    PROVE  IInv /\ Decoder!Start
<1>1. /\ unread = FlattenSeq([k \in 1 .. Len(frames) |-> Octets(frames[k])])
      /\ buffer = <<>> /\ state = "GET_INFO" /\ header.opcode = 0 /\ message = NoMessage
      /\ loop = FALSE /\ err = 0 /\ ended = FALSE /\ parsed = 0 /\ events = <<>>
  BY DEF Init
<1>2. Decoder!Start
  BY <1>1 DEF Decoder!Start
<1>3. Ended
  <2>1. header.opcode # 8 /\ ended = FALSE
    BY <1>1
  <2> QED BY <2>1 DEF Ended
<1>4. Between(frames, 0, message)
  <2>1. /\ message.fragmented = 0 /\ message.fragments = <<>> /\ message.totalPayloadLength = 0
    BY <1>1 DEF NoMessage
  <2>2. ~OpenBehind(frames, 0)
    BY OpenNext
  <2> QED BY <2>1, <2>2, Zenon DEF Between
<1>5. unread \in Seq(Byte) /\ frames \in Seq(WireFrames) /\ Len(frames) \in Nat
  BY FramesTyped DEF Inv, TypeOK
<1>6. Cat(buffer, unread) = Behind(frames, 0)
  <2>1. unread = Behind(frames, 0)
    BY <1>1, <1>5, AllFrames
  <2>2. Cat(<<>>, unread) = unread
    BY <1>5, CatNothing
  <2> QED BY <1>1, <2>1, <2>2
<1>7. Track
  <2>1. parsed \in 0 .. Len(frames)
    BY <1>1, <1>5
  <2>2. Cat(buffer, unread) = Ahead(frames, parsed, state)
    BY <1>1, <1>6, AheadIs
  <2> QED BY <1>1, <1>4, <2>1, <2>2 DEF Track
<1> QED BY <1>2, <1>3, <1>7 DEF IInv

(* Every step keeps the invariant and is one of the decoder, or none. *)
LEMMA StepTracks ==
    ASSUME ZlibGivesBytes, IInv, [Next]_vars
    PROVE  IInv' /\ [Decoder!Next]_(Decoder!vars)
<1>1. CASE Write
  BY <1>1, WriteTracks
<1>2. CASE Starve
  BY <1>2, StarveTracks
<1>3. CASE GetInfo
  BY <1>3, GetInfoTracks
<1>4. CASE GetPayloadLength16
  BY <1>4, GetPayloadLength16Tracks
<1>5. CASE GetPayloadLength64
  BY <1>5, GetPayloadLength64Tracks
<1>6. CASE GetMask
  BY <1>6, GetMaskTracks
<1>7. CASE GetData
  BY <1>7, GetDataTracks
<1>8. CASE InflateDone
  BY <1>8, InflateDoneTracks
<1>9. CASE UNCHANGED vars
  <2>1. UNCHANGED <<options, frames, unread, buffer, state, loop, writing, err, header, message,
                    job, ended, parsed, events>>
    BY <1>9 DEF vars, parser
  <2>2. Inv'
    BY <1>9, InvNext DEF IInv
  <2>3. UNCHANGED Decoder!vars
    BY <2>1, DecoderStutters
  <2>4. ASSUME err = 0 PROVE Ended'
    BY <2>1, <2>4 DEF IInv, Ended
  <2>5. ASSUME err = 0, ~ended PROVE Track'
    BY <2>1, <2>5 DEF IInv, Track, Fine
  <2> QED BY <2>1, <2>2, <2>3, <2>4, <2>5 DEF IInv
<1> QED
  BY <1>1, <1>2, <1>3, <1>4, <1>5, <1>6, <1>7, <1>8, <1>9 DEF Next, Step

(* What the receiver emits, when it refuses a frame and with which status   *)
(* code, is what the rules on frames say, whatever chunks the bytes come in *)
(* and however long zlib takes: every step of the parser is a step of       *)
(* FrameDecoder or none that shows.                                         *)
THEOREM DecodesByTheRules == ASSUME ZlibGivesBytes PROVE Spec => ImplementsDecoder
<1>1. Init => IInv /\ Decoder!Start
  BY InitOK, InitTracks
<1>2. IInv /\ [Next]_vars => IInv' /\ [Decoder!Next]_(Decoder!vars)
  BY StepTracks
<1> QED
  BY <1>1, <1>2, PTL DEF Spec, ImplementsDecoder, Decoder!Spec
=============================================================================
