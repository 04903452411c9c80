---------------------------- MODULE FrameDecoder ----------------------------
(***************************************************************************)
(* What a receiver promises, without bytes and chunks: the frames of the   *)
(* peer are taken one after the other; each either respects the rules and  *)
(* has its effect, or is refused with the status code of a rule it breaks. *)
(* The rules are stated on the frames received so far, not on the state of *)
(* a parser.                                                               *)
(***************************************************************************)
EXTENDS Framing, SequencesExt

CONSTANTS Inflate(_),     \* what zlib makes of the payload of one frame
          Deflated(_)     \* is the payload deflate data at all?

VARIABLES options,        \* isServer, deflate, limit, skipUTF8Validation
          frames,         \* the frames of the peer
          parsed,         \* how many of them have been taken
          events,         \* what they brought about
          concluded,      \* a close frame was taken
          err             \* the status code of the refusal, 0 without one

vars == <<options, frames, parsed, events, concluded, err>>

-----------------------------------------------------------------------------
IsControl(k) == frames[k].opcode >= 8

(* The data frame before frame k, if there is one, and the message it leaves open. *)
DataBefore(k) == {i \in 1 .. k - 1 : ~IsControl(i)}

Open(k) == \E i \in DataBefore(k) : /\ \A j \in DataBefore(k) : j <= i
                                    /\ ~frames[i].fin

(* The frame that opened the message frame k belongs to. *)
Opener(k) == CHOOSE i \in 1 .. k : /\ frames[i].opcode \in {1, 2}
                                   /\ \A j \in i + 1 .. k : frames[j].opcode \notin {1, 2}

Compressed(k) == frames[Opener(k)].rsv1

(* The payloads of the message up to frame k, as they came and as they are meant. *)
Wire(k) == FlattenSeq([n \in 1 .. k - Opener(k) + 1 |->
    LET i == Opener(k) + n - 1 IN IF IsControl(i) THEN <<>> ELSE frames[i].payload])

Content(k) == FlattenSeq([n \in 1 .. k - Opener(k) + 1 |->
    LET i == Opener(k) + n - 1
    IN IF IsControl(i) THEN <<>>
       ELSE IF Compressed(k) THEN Inflate(frames[i].payload) ELSE frames[i].payload])

Above(bytes) == options.limit > 0 /\ Len(bytes) > options.limit

-----------------------------------------------------------------------------
(* Rules on the header (RFC 6455, 5.1 to 5.5; RFC 7692, 6). *)
HeaderOK(k) ==
    LET f == frames[k]
    IN /\ ~f.rsv2
       /\ f.rsv1 => options.deflate /\ f.opcode \in {1, 2}
       /\ f.opcode \in {0, 1, 2, 8, 9, 10}
       /\ f.opcode = 0 => Open(k)
       /\ f.opcode \in {1, 2} => ~Open(k)
       /\ IsControl(k) => f.fin /\ f.form <= 125
       /\ (f.mask # <<>>) = options.isServer

CloseCode(f) == UInt16(f.payload)
Reason(f) == SubSeq(f.payload, 3, Len(f.payload))

CloseOK(f) == Len(f.payload) = 0 \/ (Len(f.payload) > 1 /\ IsValidStatusCode(CloseCode(f)))

TextOK(bytes) == options.skipUTF8Validation \/ IsValidUTF8(bytes)

(* The status codes a refusal of frame k may give: those of the rules it breaks. *)
Faults(k) ==
    LET f == frames[k]
        data == HeaderOK(k) /\ ~IsControl(k) /\ ~f.unsafe
        close == HeaderOK(k) /\ f.opcode = 8
        zipped == data /\ Compressed(k)
    IN {c \in {1002, 1007, 1009} :
          CASE c = 1002 -> ~HeaderOK(k) \/ (close /\ ~CloseOK(f))
            [] c = 1007 ->
                 \/ close /\ Len(f.payload) > 1 /\ ~TextOK(Reason(f))
                 \/ data /\ f.fin /\ frames[Opener(k)].opcode = 1 /\ ~TextOK(Content(k))
                 \/ zipped /\ ~Deflated(f.payload)
            [] c = 1009 -> f.unsafe \/ (data /\ Above(Content(k)))}

(* Two liberties the code takes: compressed bytes count against the limit  *)
(* too, and zlib may call data invalid that it was stopped in the middle of. *)
Liberties(k) ==
    LET data == HeaderOK(k) /\ ~IsControl(k) /\ ~frames[k].unsafe
    IN {c \in {1007, 1009} :
          IF c = 1009 THEN data /\ Above(Wire(k))
                      ELSE data /\ Compressed(k) /\ Above(Inflate(frames[k].payload))}

Effect(k) ==
    LET f == frames[k]
        event(type, code, data) == <<[type |-> type, code |-> code, data |-> data]>>
    IN CASE f.opcode = 8 -> IF f.payload = <<>> THEN event("conclude", 1005, <<>>)
                                                ELSE event("conclude", CloseCode(f), Reason(f))
         [] f.opcode = 9 -> event("ping", 0, f.payload)
         [] f.opcode = 10 -> event("pong", 0, f.payload)
         [] f.opcode < 8 /\ ~f.fin -> <<>>
         [] f.opcode < 8 /\ f.fin ->
              event(IF frames[Opener(k)].opcode = 1 THEN "text" ELSE "binary", 0, Content(k))

-----------------------------------------------------------------------------
Start == /\ parsed = 0
         /\ events = <<>>
         /\ concluded = FALSE
         /\ err = 0

Waiting == err = 0 /\ ~concluded /\ parsed < Len(frames)

Accept == /\ Waiting
          /\ Faults(parsed + 1) = {}
          /\ parsed' = parsed + 1
          /\ events' = events \o Effect(parsed + 1)
          /\ concluded' = (frames[parsed + 1].opcode = 8)
          /\ UNCHANGED <<options, frames, err>>

Reject == /\ Waiting
          /\ err' \in Faults(parsed + 1) \cup Liberties(parsed + 1)
          /\ UNCHANGED <<options, frames, parsed, events, concluded>>

Next == Accept \/ Reject

Spec == Start /\ [][Next]_vars
=============================================================================
