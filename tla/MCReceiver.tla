---------------------------- MODULE MCReceiver ----------------------------
(* Streams of frames for TLC, and a codec: a payload is a sequence of pairs, *)
(* a byte and how often it is repeated.                                     *)
EXTENDS Receiver

RunLength(data) ==
    FlattenSeq([i \in 1 .. Len(data) \div 2 |-> [n \in 1 .. data[2 * i] |-> data[2 * i - 1]]])

EvenLength(data) == Len(data) % 2 = 0

Plain(opcode, fin, payload) == Frame(opcode, fin, FALSE, <<>>, payload)
Zipped(opcode, fin, payload) == Frame(opcode, fin, opcode # 0, <<>>, payload)
Odd(n) == [i \in 1 .. n |-> i % 2]

(* A client's view.  The first half of a character and its second half, an  *)
(* empty continuation, deflated fragments within the limit and above it and *)
(* no deflate data, pings, close frames, and frames that break a rule.      *)
FromServer ==
    {Plain(1, TRUE, <<65>>), Plain(1, FALSE, <<206>>), Plain(0, TRUE, <<186>>),
     Plain(0, FALSE, <<>>), Plain(2, FALSE, <<1, 2>>), Plain(0, TRUE, <<3, 4, 5>>),
     Zipped(2, FALSE, <<7, 3>>), Zipped(0, TRUE, <<8, 2>>), Zipped(1, TRUE, <<9>>),
     Plain(9, TRUE, <<1>>), Plain(10, TRUE, <<>>), Plain(8, TRUE, <<>>),
     Plain(8, TRUE, <<3, 232, 65>>), Plain(8, TRUE, <<3>>), Plain(8, TRUE, <<3, 237>>),
     [Plain(2, TRUE, <<1>>) EXCEPT !.rsv2 = TRUE], Plain(3, TRUE, <<>>),
     Plain(9, FALSE, <<>>)}

(* A server's view: keys, and lengths in 16 and 64 bits. *)
Key == <<1, 0, 255, 128>>
FromClient ==
    {Frame(2, TRUE, FALSE, Key, <<1, 2, 3, 4, 5>>), Frame(8, TRUE, FALSE, Key, <<3, 233, 206, 186>>),
     Frame(2, TRUE, FALSE, Key, <<>>), Plain(1, TRUE, <<>>),
     [Frame(2, TRUE, FALSE, Key, <<7>>) EXCEPT !.form = 126],
     [Frame(2, TRUE, FALSE, Key, <<7>>) EXCEPT !.form = 127],
     [Frame(2, TRUE, FALSE, Key, <<>>) EXCEPT !.form = 127, !.unsafe = TRUE],
     [Frame(9, TRUE, FALSE, Key, <<1>>) EXCEPT !.form = 126]}

SeqsOf(S, n) == UNION {[1 .. m -> S] : m \in 1 .. n}

Receives(isServer, deflate, maxPayload, streams) ==
    [options : {[isServer |-> isServer, deflate |-> deflate, maxPayload |-> maxPayload,
                 skipUTF8Validation |-> FALSE]},
     frames : streams]

(* Limits that fit the width, that become negative and that become small.   *)
Mixed == {Plain(1, FALSE, <<206>>), Plain(0, FALSE, <<>>), Plain(0, TRUE, <<186>>),
          Zipped(2, FALSE, <<7, 3>>), Zipped(0, TRUE, <<8, 1>>), Plain(9, TRUE, <<1>>)}

Long == <<Frame(2, TRUE, FALSE, Key, [i \in 1 .. 126 |-> i]), Frame(9, TRUE, FALSE, Key, <<1>>)>>

MCCases ==
    Receives(FALSE, TRUE, 4, SeqsOf(FromServer, 3))
    \cup Receives(FALSE, TRUE, 20, SeqsOf({f \in FromServer : f.opcode < 3}, 2))
    \cup Receives(FALSE, TRUE, 36, SeqsOf({f \in FromServer : f.opcode < 3}, 2))
    \cup Receives(FALSE, TRUE, 4, [1 .. 4 -> Mixed])
    \cup Receives(FALSE, FALSE, 0, SeqsOf(FromServer, 1))
    \cup Receives(TRUE, TRUE, 0, {Long})
    \cup Receives(TRUE, FALSE, 4, SeqsOf(FromClient, 2))
=============================================================================
