---------------------------- MODULE SenderProofs ----------------------------
(***************************************************************************)
(* Proofs about Sender.tla: its structure is invariant, frames keep their  *)
(* order through queue and compressor, the sender implements FrameLog, the *)
(* close frame is the last one, what is written can be decoded, the count  *)
(* of buffered bytes is exact, and no callback runs twice.                 *)
(***************************************************************************)
EXTENDS Sender, SequenceTheorems, WellFoundedInduction, TLAPS

(* The prefix dequeue() hands over ends within the queue, at its end or     *)
(* before the first frame that must be compressed.                          *)
LEMMA ReadyIsIndex ==
    ASSUME NEW q \in Seq(Params)
    PROVE  /\ Ready(q) \in 0 .. Len(q)
           /\ Ready(q) < Len(q) => q[Ready(q) + 1].compress
<1> DEFINE P(n) == /\ \A i \in 1 .. n : ~q[i].compress
                   /\ n < Len(q) => q[n + 1].compress
           T == {n \in Nat : n < Len(q) /\ q[n + 1].compress}
<1>1. \E n \in 0 .. Len(q) : P(n)
  <2>1. CASE T = {}
    <3>1. ASSUME NEW i \in 1 .. Len(q) PROVE ~q[i].compress
      <4>1. i - 1 \in Nat /\ i - 1 < Len(q) /\ (i - 1) + 1 = i
        OBVIOUS
      <4>2. i - 1 \notin T
        BY <2>1
      <4> QED BY <4>1, <4>2
    <3>2. P(Len(q))
      BY <3>1
    <3> QED BY <3>2
  <2>2. CASE T # {}
    <3> DEFINE R == OpToRel(<, Nat)
    <3>1. T \subseteq Nat
      OBVIOUS
    <3> HIDE DEF T, R
    <3>2. PICK n \in T : \A m \in T : ~(<<m, n>> \in R)
      BY <2>2, <3>1, NatLessThanWellFounded, WFMin DEF R
    <3>3. ASSUME NEW m \in T PROVE ~(m < n)
      BY <3>1, <3>2, Zenon DEF R, OpToRel
    <3>4. ASSUME NEW i \in 1 .. n PROVE ~q[i].compress
      <4>1. i - 1 \in Nat /\ i - 1 < n /\ (i - 1) + 1 = i
        BY <3>1
      <4>2. n < Len(q)
        BY DEF T
      <4>3. i - 1 \notin T
        BY <3>3, <4>1
      <4> QED BY <3>1, <4>1, <4>2, <4>3 DEF T
    <3> QED BY <3>1, <3>4 DEF T
  <2> QED BY <2>1, <2>2
<1>2. P(Ready(q)) /\ Ready(q) \in 0 .. Len(q)
  BY <1>1, Zenon DEF Ready
<1> QED BY <1>2

(* Running callbacks changes neither the number of calls nor their type. *)
LEMMA AnswerType ==
    ASSUME NEW counts \in Seq(Nat), NEW cs
    PROVE  /\ Answer(cs, counts) \in Seq(Nat)
           /\ Len(Answer(cs, counts)) = Len(counts)
<1>1. DOMAIN counts = 1 .. Len(counts) /\ Len(counts) \in Nat
  OBVIOUS
<1>2. \A c \in 1 .. Len(counts) : counts[c] \in Nat
  OBVIOUS
<1> QED BY <1>1, <1>2 DEF Answer

-----------------------------------------------------------------------------
(* A frame submitted to the sender leaves its structure intact. *)
LEMMA SubmitStruct ==
    ASSUME StructOK, NEW p \in Params, Submit(p),
           readyState' \in {"OPEN", "CLOSING"},
           firstFragment' \in BOOLEAN, compress' \in BOOLEAN,
           flushed' = flushed
    PROVE  StructOK'
<1> USE DEF StructOK
<1>1. /\ accepted' \in Seq(Params)
      /\ Append(answers, 0) \in Seq(Nat)
      /\ Len(Append(answers, 0)) = Len(accepted')
  BY DEF Submit, Enqueue, Dispatch
<1>2. CASE deflating
  <2>1. /\ queue' = Append(queue, p) /\ answers' = Append(answers, 0)
        /\ UNCHANGED <<deflating, job, written, socket>>
    BY <1>2 DEF Submit, Enqueue, Dispatch
  <2>2. queue' \in Seq(Params)
    BY <2>1
  <2>3. job' # <<>> => job'[1].compress /\ deflating'
    BY <2>1
  <2>4. deflating' /\ deflating' \in BOOLEAN
    BY <1>2, <2>1
  <2>5. job' = <<>> => socket' = "destroyed"
    BY <1>2, <2>1
  <2> QED BY <1>1, <2>1, <2>2, <2>3, <2>4, <2>5
<1>3. CASE ~deflating /\ p.compress
  <2>1. job' = <<p>> /\ deflating' /\ UNCHANGED <<queue, written, socket>>
    BY <1>3 DEF Submit, Enqueue, Dispatch
  <2>2. answers' = Append(answers, 0)
    BY <1>3 DEF Submit, Enqueue, Dispatch
  <2> QED BY <1>1, <1>3, <2>1, <2>2
<1>4. CASE ~deflating /\ ~p.compress
  <2>1. SendFrames(<<p>>, Append(answers, 0)) /\ UNCHANGED <<deflating, job, queue>>
    BY <1>4 DEF Submit, Enqueue, Dispatch
  <2>4. /\ ~deflating' /\ deflating' \in BOOLEAN
        /\ job' = <<>> /\ queue' = <<>>
        /\ job' \in Seq(Params) /\ Len(job') <= 1 /\ queue' \in Seq(Params)
    BY <1>4, <2>1
  <2>2. CASE socket = "open"
    <3>1. /\ written' = written \o <<p>> /\ socket' = socket
          /\ answers' = Append(answers, 0)
      BY <2>1, <2>2 DEF SendFrames
    <3>2. written' \in Seq(Params) /\ Len(written') = Len(written) + 1
      BY <3>1
    <3> QED BY <1>1, <2>2, <2>4, <3>1, <3>2
  <2>3. CASE socket # "open"
    <3>1. answers' = Answer(Calls(<<p>>), Append(answers, 0))
      BY <2>1, <2>3 DEF SendFrames
    <3>2. answers' \in Seq(Nat) /\ Len(answers') = Len(accepted')
      BY <1>1, <3>1, AnswerType
    <3>3. written' = written /\ socket' = "destroyed"
      BY <2>1, <2>3 DEF SendFrames
    <3> QED BY <1>1, <2>4, <3>2, <3>3
  <2> QED BY <2>2, <2>3
<1> QED BY <1>2, <1>3, <1>4

(* So does the return of a compressed frame, with what it releases. *)
LEMMA CompressDoneStruct == StructOK /\ CompressDone => StructOK'
<1> SUFFICES ASSUME StructOK, CompressDone PROVE StructOK'
  OBVIOUS
<1> USE DEF StructOK
<1>1. CASE socket = "destroyed"
  <2>1. answers' = Answer(Calls(job \o queue), answers)
    BY <1>1 DEF CompressDone, FailWaiting, Release
  <2>2. answers' \in Seq(Nat) /\ Len(answers') = Len(answers)
    BY <2>1, AnswerType
  <2>3. /\ job' = <<>>
        /\ UNCHANGED <<deflating, queue, written, socket, readyState,
                       firstFragment, compress, flushed, accepted>>
    BY <1>1 DEF CompressDone, FailWaiting, Release
  <2>4. deflating'
    BY <2>3 DEF CompressDone, FailWaiting, Release
  <2> QED BY <1>1, <2>2, <2>3, <2>4
<1>2. CASE socket # "destroyed"
  <2> DEFINE n == Ready(queue)
             rest == SubSeq(queue, n + 1, Len(queue))
             out == job \o SubSeq(queue, 1, n)
  <2>1. /\ SendFrames(out, answers)
        /\ job' = IF rest = <<>> THEN <<>> ELSE <<Head(rest)>>
        /\ deflating' = (rest # <<>>)
        /\ queue' = IF rest = <<>> THEN <<>> ELSE Tail(rest)
        /\ UNCHANGED <<readyState, firstFragment, compress, flushed, accepted>>
    BY <1>2 DEF CompressDone, FailWaiting, Release
  <2>2. n \in 0 .. Len(queue) /\ (n < Len(queue) => queue[n + 1].compress)
    BY ReadyIsIndex
  <2> HIDE DEF n
  <2>3. rest \in Seq(Params) /\ out \in Seq(Params)
    BY <2>2
  <2>4. rest # <<>> => Head(rest).compress /\ Head(rest) \in Params /\ Tail(rest) \in Seq(Params)
    BY <2>2
  <2> HIDE DEF rest, out
  <2>7. /\ job' \in Seq(Params) /\ Len(job') <= 1 /\ queue' \in Seq(Params)
        /\ deflating' \in BOOLEAN
        /\ job' # <<>> => job'[1].compress /\ deflating'
        /\ ~deflating' => job' = <<>> /\ queue' = <<>>
        /\ deflating' => job' # <<>>
    <3>1. CASE rest = <<>>
      <4>1. ~deflating' /\ deflating' \in BOOLEAN
        BY <2>1, <3>1
      <4>2. job' = <<>> /\ queue' = <<>>
        BY <2>1, <3>1
      <4> QED BY <4>1, <4>2
    <3>2. CASE rest # <<>>
      <4>1. deflating' /\ deflating' \in BOOLEAN
        BY <2>1, <3>2
      <4>2. job' = <<Head(rest)>> /\ queue' = Tail(rest)
        BY <2>1, <3>2
      <4> QED BY <2>4, <3>2, <4>1, <4>2
    <3> QED BY <3>1, <3>2
  <2>5. CASE socket = "open"
    <3>1. written' = written \o out /\ socket' = socket /\ answers' = answers
      BY <2>1, <2>5 DEF SendFrames
    <3>2. written' \in Seq(Params) /\ Len(written') >= Len(written)
      BY <2>3, <3>1
    <3> QED BY <2>1, <2>5, <2>7, <3>1, <3>2
  <2>6. CASE socket # "open"
    <3>1. answers' = Answer(Calls(out), answers)
      BY <2>1, <2>6 DEF SendFrames
    <3>2. answers' \in Seq(Nat) /\ Len(answers') = Len(answers)
      BY <3>1, AnswerType
    <3>3. written' = written /\ socket' = "destroyed"
      BY <2>1, <2>6 DEF SendFrames
    <3> QED BY <2>1, <2>7, <3>2, <3>3
  <2> QED BY <2>5, <2>6
<1> QED BY <1>1, <1>2

(* What send() submits is a well-formed frame. *)
LEMMA SendSubmits ==
    ASSUME StructOK, NEW size \in Sizes, NEW want \in BOOLEAN, NEW fin \in BOOLEAN,
           Send(size, want, fin)
    PROVE  /\ \E p \in Params : Submit(p)
           /\ compress' \in BOOLEAN /\ firstFragment' \in BOOLEAN
           /\ UNCHANGED <<readyState, flushed>>
<1> DEFINE asked == want /\ PerMessageDeflate
           p == [call |-> NextCall, size |-> size, fin |-> fin,
                 opcode |-> IF firstFragment THEN "data" ELSE "cont",
                 rsv1 |-> firstFragment /\ compress',
                 compress |-> PerMessageDeflate /\ compress']
<1> USE SenderAssumption
<1>0. Len(accepted) \in Nat
  BY DEF StructOK
<1>1. /\ Submit(p) /\ compress' = Latch(size, asked) /\ firstFragment' = fin
      /\ UNCHANGED <<readyState, flushed>> /\ NextCall <= MaxCalls
  BY DEF Send
<1>2. compress' \in BOOLEAN
  <2>1. asked \in BOOLEAN
    BY Zenon
  <2>2. (size >= Threshold) \in BOOLEAN
    OBVIOUS
  <2>3. firstFragment \in BOOLEAN /\ compress \in BOOLEAN
    BY DEF StructOK
  <2> QED BY <1>1, <2>1, <2>2, <2>3, Zenon DEF Latch
<1>3. p \in Params
  BY <1>0, <1>1, <1>2 DEF Params, Opcodes, NextCall
<1> QED BY <1>1, <1>2, <1>3

(* Every step keeps the structure, one action at a time. *)
LEMMA NextStruct == StructOK /\ [Next]_vars => StructOK'
<1> SUFFICES ASSUME StructOK, [Next]_vars PROVE StructOK'
  OBVIOUS
<1> USE SenderAssumption
<1>0. Len(accepted) \in Nat
  BY DEF StructOK
<1>1. ASSUME NEW size \in Sizes, NEW want \in BOOLEAN, NEW fin \in BOOLEAN,
             Send(size, want, fin)
      PROVE  StructOK'
  <2>1. PICK p \in Params : Submit(p)
    BY <1>1, SendSubmits
  <2>2. /\ compress' \in BOOLEAN /\ firstFragment' \in BOOLEAN
        /\ readyState' \in {"OPEN", "CLOSING"} /\ flushed' = flushed
    BY <1>1, SendSubmits DEF StructOK
  <2> QED BY <2>1, <2>2, SubmitStruct
<1>2. ASSUME NEW op \in {"ping", "pong"}, PingOrPong(op)
      PROVE  StructOK'
  <2>1. ControlFrame(op, 1) \in Params
    BY <1>0, <1>2 DEF PingOrPong, ControlFrame, Params, Opcodes, NextCall
  <2> QED BY <1>2, <2>1, SubmitStruct DEF PingOrPong, StructOK
<1>3. CASE Close
  <2>1. ControlFrame("close", 2) \in Params
    BY <1>0, <1>3 DEF Close, ControlFrame, Params, Opcodes, NextCall
  <2> QED BY <1>3, <2>1, SubmitStruct DEF Close, StructOK
<1>4. ASSUME NEW size \in Sizes, SendAfterClose(size)
      PROVE  StructOK'
  BY <1>4 DEF SendAfterClose, StructOK
<1>5. CASE CompressDone
  BY <1>5, CompressDoneStruct
<1>6. CASE WriteCallback
  <2>1. answers' \in Seq(Nat) /\ Len(answers') = Len(answers)
    BY <1>6, AnswerType DEF WriteCallback, StructOK
  <2> QED BY <1>6, <2>1 DEF WriteCallback, StructOK
<1>7. CASE SocketEnd
  BY <1>7 DEF SocketEnd, StructOK
<1>8. CASE SocketFail
  BY <1>8 DEF SocketFail, StructOK
<1>9. CASE SocketErrorEvent
  BY <1>9 DEF SocketErrorEvent, StructOK
<1>10. CASE Terminate
  BY <1>10 DEF Terminate, StructOK
<1>11. CASE UNCHANGED vars
  BY <1>11 DEF vars, StructOK
<1> QED BY <1>1, <1>2, <1>3, <1>4, <1>5, <1>6, <1>7, <1>8, <1>9, <1>10, <1>11
        DEF Next

(* The initial states have the structure. *)
LEMMA InitStruct == Init => StructOK
<1> SUFFICES ASSUME Init PROVE StructOK
  OBVIOUS
<1>1. queue \in Seq(Params) /\ job \in Seq(Params) /\ written \in Seq(Params)
  BY DEF Init
<1>2. accepted \in Seq(Params) /\ answers \in Seq(Nat)
  BY DEF Init
<1>3. flushed \in Nat /\ flushed <= Len(written) /\ Len(job) <= 1
  BY DEF Init
<1> QED BY <1>1, <1>2, <1>3 DEF Init, StructOK

(* For every threshold, every size of fragments and any number of calls, a  *)
(* frame waits in the queue only behind an outstanding compression, and the *)
(* sender is stuck deflating only when the socket is destroyed.             *)
THEOREM StructInvariant == Spec => []StructOK
BY InitStruct, NextStruct, PTL DEF Spec

-----------------------------------------------------------------------------
(* Concatenation of sequences of frames is associative. *)
LEMMA Assoc ==
    \A s, t, u \in Seq(Params) : (s \o t) \o u = s \o (t \o u)
<1> TAKE s, t, u \in Seq(Params)
<1> QED BY ConcatAssociative

(* Concatenation over the sequences a frame passes through. *)
LEMMA MoveAcross ==
    ASSUME NEW a \in Seq(Params), NEW b \in Seq(Params), NEW q \in Seq(Params),
           NEW n \in 0 .. Len(q)
    PROVE  /\ SubSeq(q, 1, n) \in Seq(Params)
           /\ SubSeq(q, n + 1, Len(q)) \in Seq(Params)
           /\ (a \o (b \o SubSeq(q, 1, n))) \o SubSeq(q, n + 1, Len(q)) = (a \o b) \o q
<1> DEFINE l == SubSeq(q, 1, n)
           r == SubSeq(q, n + 1, Len(q))
<1>1. l \in Seq(Params) /\ r \in Seq(Params)
  OBVIOUS
<1>2. l \o r = q
  <2>1. 1 \in 1 .. Len(q) + 1 /\ n \in (1 - 1) .. Len(q) /\ Len(q) \in n .. Len(q)
    OBVIOUS
  <2>2. l \o r = SubSeq(q, 1, Len(q))
    BY <2>1, ConcatAdjacentSubSeq
  <2> QED BY <2>2, SubSeqFull
<1> HIDE DEF l, r
<1>3. a \o (b \o l) = (a \o b) \o l
  BY <1>1, Assoc
<1>4. ((a \o b) \o l) \o r = (a \o b) \o (l \o r)
  <2>1. a \o b \in Seq(Params)
    OBVIOUS
  <2> QED BY <1>1, <2>1, Assoc
<1> QED BY <1>1, <1>2, <1>3, <1>4 DEF l, r

(* What precedes in a concatenation is its prefix. *)
LEMMA PrefixOfConcat ==
    ASSUME NEW s \in Seq(Params), NEW t \in Seq(Params)
    PROVE  /\ Len(s) <= Len(s \o t)
           /\ s = SubSeq(s \o t, 1, Len(s))
OBVIOUS

(* A prefix of three joined sequences splits at the same places. *)
LEMMA PrefixOfThree ==
    \A w, j, q \in Seq(Params) :
        /\ Len(w) \in Nat /\ Len((w \o j) \o q) \in Nat
        /\ Len(w) <= Len((w \o j) \o q)
        /\ w = SubSeq((w \o j) \o q, 1, Len(w))
<1> TAKE w, j, q \in Seq(Params)
<1>1. (w \o j) \o q = w \o (j \o q) /\ j \o q \in Seq(Params)
  BY Assoc
<1> QED BY <1>1, PrefixOfConcat

(* The head of a sequence and its tail make the sequence. *)
LEMMA HeadThenTail ==
    ASSUME NEW s \in Seq(Params), s # <<>>
    PROVE  <<Head(s)>> \o Tail(s) = s
BY SMTT(30)

(* A submitted frame is last in line. *)
LEMMA SubmitOrder ==
    ASSUME StructOK, SendOrder, NEW p \in Params, Submit(p), socket' # "destroyed"
    PROVE  written' \o job' \o queue' = accepted'
<1> USE DEF StructOK
<1>1. accepted' = Append(accepted, p)
  BY DEF Submit, Enqueue, Dispatch
<1>2. CASE deflating
  <2>1. /\ queue' = Append(queue, p)
        /\ UNCHANGED <<job, written, socket>>
    BY <1>2 DEF Submit, Enqueue, Dispatch
  <2>2. (written \o job) \o queue = accepted
    BY <2>1 DEF SendOrder
  <2>3. written \o job \in Seq(Params)
    OBVIOUS
  <2>4. queue \o <<p>> = Append(queue, p) /\ accepted \o <<p>> = Append(accepted, p)
    BY AppendIsConcat
  <2>5. (written \o job) \o (queue \o <<p>>) = ((written \o job) \o queue) \o <<p>>
    BY <2>3, Assoc, SMTT(30)
  <2> QED BY <1>1, <2>1, <2>2, <2>4, <2>5
<1>3. CASE ~deflating
  <2>0. job = <<>> /\ queue = <<>>
    BY <1>3
  <2>1. CASE p.compress
    <3>1. /\ job' = <<p>>
          /\ UNCHANGED <<queue, written, socket>>
      BY <1>3, <2>1 DEF Submit, Enqueue, Dispatch
    <3>2. written = accepted
      BY <2>0, <3>1 DEF SendOrder
    <3> QED BY <1>1, <2>0, <3>1, <3>2, AppendIsConcat
  <2>2. CASE ~p.compress
    <3>1. SendFrames(<<p>>, Append(answers, 0)) /\ UNCHANGED <<job, queue>>
      BY <1>3, <2>2 DEF Submit, Enqueue, Dispatch
    <3>2. socket = "open" /\ written' = written \o <<p>>
      BY <3>1 DEF SendFrames
    <3>3. written = accepted
      BY <2>0, <3>2 DEF SendOrder
    <3> QED BY <1>1, <2>0, <3>1, <3>2, <3>3, AppendIsConcat
  <2> QED BY <2>1, <2>2
<1> QED BY <1>2, <1>3

(* The frames a finished compression releases keep their order. *)
LEMMA CompressDoneOrder ==
    ASSUME StructOK, SendOrder, CompressDone, socket' # "destroyed"
    PROVE  written' \o job' \o queue' = accepted'
<1> USE DEF StructOK
<1> DEFINE n == Ready(queue)
           rest == SubSeq(queue, n + 1, Len(queue))
           out == job \o SubSeq(queue, 1, n)
<1>1. socket # "destroyed"
  BY DEF CompressDone, FailWaiting, Release
<1>2. /\ SendFrames(out, answers)
      /\ job' = IF rest = <<>> THEN <<>> ELSE <<Head(rest)>>
      /\ queue' = IF rest = <<>> THEN <<>> ELSE Tail(rest)
      /\ accepted' = accepted
  BY <1>1 DEF CompressDone, FailWaiting, Release
<1>3. written' = written \o out
  BY <1>2 DEF SendFrames
<1>4. n \in 0 .. Len(queue)
  BY ReadyIsIndex
<1> HIDE DEF n
<1>5. rest \in Seq(Params) /\ out \in Seq(Params)
  BY <1>4
<1>6. (written \o out) \o rest = accepted
  BY ZenonT(60), <1>1, <1>4, MoveAcross DEF SendOrder
<1> HIDE DEF rest, out
<1>7. job' \o queue' = rest /\ job' \in Seq(Params) /\ queue' \in Seq(Params)
  BY <1>2, <1>5, HeadThenTail
<1>8. (written' \o job') \o queue' = written' \o (job' \o queue')
  <2>1. written' \in Seq(Params)
    BY <1>3, <1>5
  <2> QED BY <1>7, <2>1, Assoc
<1> QED BY <1>2, <1>3, <1>6, <1>7, <1>8

(* No step of the sender changes the order of the frames. *)
LEMMA NextOrder == StructOK /\ SendOrder /\ [Next]_vars => SendOrder'
<1> SUFFICES ASSUME StructOK, SendOrder, [Next]_vars, socket' # "destroyed"
             PROVE  written' \o job' \o queue' = accepted'
  BY DEF SendOrder
<1> USE SenderAssumption
<1>0. Len(accepted) \in Nat
  BY DEF StructOK
<1>1. ASSUME NEW size \in Sizes, NEW want \in BOOLEAN, NEW fin \in BOOLEAN,
             Send(size, want, fin)
      PROVE  written' \o job' \o queue' = accepted'
  <2>1. PICK p \in Params : Submit(p)
    BY <1>0, <1>1, SendSubmits
  <2> QED BY <2>1, SubmitOrder
<1>2. ASSUME NEW op \in {"ping", "pong"}, PingOrPong(op)
      PROVE  written' \o job' \o queue' = accepted'
  <2>1. ControlFrame(op, 1) \in Params
    BY <1>0, <1>2 DEF PingOrPong, ControlFrame, Params, Opcodes, NextCall
  <2> QED BY <1>2, <2>1, SubmitOrder DEF PingOrPong
<1>3. CASE Close
  <2>1. ControlFrame("close", 2) \in Params
    BY <1>0, <1>3 DEF Close, ControlFrame, Params, Opcodes, NextCall
  <2> QED BY <1>3, <2>1, SubmitOrder DEF Close
<1>4. CASE CompressDone
  BY <1>4, CompressDoneOrder
<1>5. CASE \/ \E size \in Sizes : SendAfterClose(size)
           \/ WriteCallback \/ SocketEnd \/ SocketFail
           \/ SocketErrorEvent \/ Terminate \/ UNCHANGED vars
  <2>1. socket # "destroyed" /\ UNCHANGED <<written, job, queue, accepted>>
    BY <1>5 DEF SendAfterClose, WriteCallback, SocketEnd, SocketFail,
                SocketErrorEvent, Terminate, vars
  <2> QED BY <2>1 DEF SendOrder
<1> QED BY <1>1, <1>2, <1>3, <1>4, <1>5 DEF Next

(* While the socket lives, frames leave in the order of the calls, however  *)
(* many are compressed, queued or sent directly, for every configuration.   *)
THEOREM OrderKept == Spec => []SendOrder
<1>1. Init => SendOrder
  <2> SUFFICES ASSUME Init PROVE SendOrder
    OBVIOUS
  <2>1. written = <<>> /\ job = <<>> /\ queue = <<>> /\ accepted = <<>>
    BY DEF Init
  <2> QED BY <2>1 DEF SendOrder
<1> QED BY <1>1, StructInvariant, NextOrder, PTL DEF Spec

-----------------------------------------------------------------------------
(* A submitted frame is taken by the log, and comes out at once exactly     *)
(* when nothing is held back.                                               *)
LEMMA SubmitRefines ==
    ASSUME StructOK, SendOrder, NEW p \in Params, Submit(p)
    PROVE  Log!Accept \/ Log!AcceptAndDeliver
<1> USE DEF StructOK
<1>1. accepted' = Append(accepted, p)
  BY DEF Submit, Enqueue, Dispatch
<1>2. CASE UNCHANGED <<written, socket>>
  BY <1>1, <1>2 DEF Log!Accept
<1>3. CASE ~UNCHANGED <<written, socket>>
  <2>1. ~deflating /\ SendFrames(<<p>>, Append(answers, 0))
    BY <1>3 DEF Submit, Enqueue, Dispatch
  <2>2. CASE socket = "open"
    <3>1. written' = written \o <<p>> /\ socket' = socket
      BY <2>1, <2>2 DEF SendFrames
    <3>2. job = <<>> /\ queue = <<>>
      BY <2>1
    <3>3. written = accepted
      BY <2>2, <3>2 DEF SendOrder
    <3>4. written' = accepted'
      BY <1>1, <3>1, <3>3, AppendIsConcat
    <3> QED BY <1>1, <2>2, <3>1, <3>3, <3>4 DEF Log!AcceptAndDeliver
  <2>3. CASE socket # "open"
    <3>1. written' = written /\ (socket' # "open") = (socket # "open")
      BY <2>1, <2>3 DEF SendFrames
    <3> QED BY <1>1, <3>1 DEF Log!Accept
  <2> QED BY <2>2, <2>3
<1> QED BY <1>2, <1>3

(* A finished compression delivers the next frames of the log, or nothing. *)
LEMMA CompressDoneRefines ==
    ASSUME StructOK, SendOrder, SendOrder', CompressDone
    PROVE  Log!Deliver \/ UNCHANGED Log!vars
<1> USE DEF StructOK
<1>0. accepted' = accepted
  BY DEF CompressDone, FailWaiting, Release
<1>1. CASE socket = "open"
  <2>1. PICK out \in Seq(Params) : /\ SendFrames(out, answers)
                                   /\ Len(out) > 0
    <3> DEFINE n == Ready(queue)
               out == job \o SubSeq(queue, 1, n)
    <3>1. SendFrames(out, answers) /\ job # <<>>
      BY <1>1 DEF CompressDone, FailWaiting, Release
    <3>2. n \in 0 .. Len(queue)
      BY ReadyIsIndex
    <3> HIDE DEF n
    <3>3. SubSeq(queue, 1, n) \in Seq(Params)
      BY <3>2
    <3>4. out \in Seq(Params) /\ Len(out) > 0
      BY <3>1, <3>3
    <3> QED BY <3>1, <3>4
  <2>2. written' = written \o out /\ socket' = socket
    BY <1>1, <2>1 DEF SendFrames
  <2>3. (written' \o job') \o queue' = accepted
    BY <1>0, <1>1, <2>2 DEF SendOrder
  <2>4. /\ written' \in Seq(Params) /\ job' \in Seq(Params) /\ queue' \in Seq(Params)
        /\ Len(written') > Len(written)
    <3>1. StructOK'
      BY CompressDoneStruct
    <3>2. Len(written') > Len(written)
      BY <2>1, <2>2
    <3> QED BY <3>1, <3>2
  <2>5. /\ Len(written') \in Nat /\ Len(accepted) \in Nat
        /\ Len(written') <= Len(accepted)
        /\ written' = SubSeq(accepted, 1, Len(written'))
    BY <2>3, <2>4, PrefixOfThree, Zenon
  <2>6. Len(written') \in (Len(written) + 1) .. Len(accepted)
    BY <2>4, <2>5
  <2> QED BY <1>0, <1>1, <2>2, <2>5, <2>6 DEF Log!Deliver
<1>2. CASE socket # "open"
  <2>1. UNCHANGED written /\ socket' = "destroyed"
    BY <1>2 DEF CompressDone, FailWaiting, Release, SendFrames
  <2> QED BY <1>0, <1>2, <2>1 DEF Log!vars
<1> QED BY <1>1, <1>2

(* Each step of the sender is a step of the log or changes none of it. *)
LEMMA NextRefines ==
    StructOK /\ SendOrder /\ SendOrder' /\ [Next]_vars => [Log!Next]_(Log!vars)
<1> SUFFICES ASSUME StructOK, SendOrder, SendOrder', [Next]_vars
             PROVE  Log!Next \/ UNCHANGED Log!vars
  OBVIOUS
<1> USE SenderAssumption DEF Log!Next
<1>0. Len(accepted) \in Nat
  BY DEF StructOK
<1>1. ASSUME NEW size \in Sizes, NEW want \in BOOLEAN, NEW fin \in BOOLEAN,
             Send(size, want, fin)
      PROVE  Log!Next
  <2>1. PICK p \in Params : Submit(p)
    BY <1>1, SendSubmits
  <2> QED BY <2>1, SubmitRefines
<1>2. ASSUME NEW op \in {"ping", "pong"}, PingOrPong(op)
      PROVE  Log!Next
  <2>1. ControlFrame(op, 1) \in Params
    BY <1>0, <1>2 DEF PingOrPong, ControlFrame, Params, Opcodes, NextCall
  <2> QED BY <1>2, <2>1, SubmitRefines DEF PingOrPong
<1>3. CASE Close
  <2>1. ControlFrame("close", 2) \in Params
    BY <1>0, <1>3 DEF Close, ControlFrame, Params, Opcodes, NextCall
  <2> QED BY <1>3, <2>1, SubmitRefines DEF Close
<1>4. CASE CompressDone
  BY <1>4, CompressDoneRefines
<1>5. CASE SocketEnd \/ SocketFail \/ Terminate
  <2>1. socket' # "open" /\ UNCHANGED <<written, accepted>>
    BY <1>5 DEF SocketEnd, SocketFail, Terminate
  <2> QED BY <2>1 DEF Log!Break, Log!vars
<1>6. CASE \/ \E size \in Sizes : SendAfterClose(size)
           \/ WriteCallback \/ SocketErrorEvent \/ UNCHANGED vars
  <2>1. UNCHANGED <<written, accepted, socket>>
    BY <1>6 DEF SendAfterClose, WriteCallback, SocketErrorEvent, vars
  <2> QED BY <2>1 DEF Log!vars
<1> QED BY <1>1, <1>2, <1>3, <1>4, <1>5, <1>6 DEF Next

(* The sender implements the abstract log: whatever is compressed or queued *)
(* meanwhile, what reaches the socket is a growing prefix of what was asked *)
(* for, and nothing reaches it after it is ended or lost.                   *)
THEOREM SenderImplementsLog == Spec => ImplementsLog
<1>1. Init => Log!Init
  <2> SUFFICES ASSUME Init PROVE Log!Init
    OBVIOUS
  <2>1. accepted = <<>> /\ written = <<>> /\ (socket # "open") = FALSE
    BY DEF Init
  <2> QED BY <2>1 DEF Log!Init
<1>2. Spec => [](StructOK /\ SendOrder)
  BY StructInvariant, OrderKept, PTL
<1>3. Spec => [][Log!Next]_(Log!vars)
  BY <1>2, NextRefines, PTL DEF Spec
<1>4. Spec => Log!Init
  BY <1>1 DEF Spec
<1> QED BY <1>3, <1>4 DEF ImplementsLog, Log!Spec

-----------------------------------------------------------------------------
(* Induction over the naturals, for a set of numbers. *)
LEMMA SetInduction ==
    ASSUME NEW T, 0 \in T, \A n \in Nat : n \in T => n + 1 \in T
    PROVE  \A n \in Nat : n \in T
<1> DEFINE M == Nat \ T
           R == OpToRel(<, Nat)
<1> SUFFICES ASSUME M # {} PROVE FALSE
  OBVIOUS
<1>1. M \subseteq Nat
  OBVIOUS
<1> HIDE DEF M, R
<1>2. PICK n \in M : \A m \in M : ~(<<m, n>> \in R)
  BY <1>1, NatLessThanWellFounded, WFMin DEF R
<1>3. ASSUME NEW m \in M PROVE ~(m < n)
  BY <1>1, <1>2, Zenon DEF R, OpToRel
<1>4. n \in Nat /\ n # 0 /\ n \notin T
  BY <1>1, <1>2 DEF M
<1>5. n - 1 \in Nat /\ n - 1 < n /\ (n - 1) + 1 = n
  BY <1>4
<1>6. n - 1 \in T
  BY <1>3, <1>5 DEF M
<1> QED BY <1>4, <1>5, <1>6

(* f sums up the sizes of ps from the left. *)
IsSum(ps, f) ==
    f = [n \in 0 .. Len(ps) |-> IF n = 0 THEN 0 ELSE f[n - 1] + ps[n].size]

(* A size is a number. *)
LEMMA SizeIsNat == \A p \in Params : p.size \in Nat
<1> TAKE p \in Params
<1>1. p.size \in Sizes \cup {1, 2}
  BY DEF Params
<1>2. Sizes \subseteq Nat
  BY SenderAssumption, Zenon
<1>3. p.size \in Sizes => p.size \in Nat
  BY <1>2, Zenon
<1>4. p.size \in {1, 2} => p.size \in Nat
  OBVIOUS
<1> QED BY <1>1, <1>3, <1>4, Zenon

(* Its values, one at a time. *)
LEMMA SumEquations ==
    ASSUME NEW ps \in Seq(Params), NEW f, IsSum(ps, f)
    PROVE  /\ f[0] = 0
           /\ \A n \in 1 .. Len(ps) : f[n] = f[n - 1] + ps[n].size
<1>1. 0 \in 0 .. Len(ps)
  OBVIOUS
<1>2. \A n \in 1 .. Len(ps) : n \in 0 .. Len(ps) /\ n # 0
  OBVIOUS
<1> QED BY <1>1, <1>2 DEF IsSum

(* Such a function exists and has natural values. *)
LEMMA SumExists ==
    ASSUME NEW ps \in Seq(Params)
    PROVE  \E f \in [0 .. Len(ps) -> Nat] : IsSum(ps, f)
<1> DEFINE Upto(n, f) == f = [m \in 0 .. n |-> IF m = 0 THEN 0 ELSE f[m - 1] + ps[m].size]
           T == {n \in Nat : n <= Len(ps) => \E f \in [0 .. n -> Nat] : Upto(n, f)}
<1>1. 0 \in T
  <2> DEFINE f == [m \in 0 .. 0 |-> 0]
  <2>1. f \in [0 .. 0 -> Nat] /\ Upto(0, f)
    OBVIOUS
  <2> QED BY <2>1
<1>2. ASSUME NEW n \in Nat, n \in T, n + 1 <= Len(ps)
      PROVE  \E f \in [0 .. (n + 1) -> Nat] : Upto(n + 1, f)
  <2>1. PICK f \in [0 .. n -> Nat] : Upto(n, f)
    BY <1>2
  <2>2. ps[n + 1].size \in Nat
    BY <1>2, SizeIsNat
  <2> DEFINE g == [m \in 0 .. (n + 1) |-> IF m = n + 1 THEN f[n] + ps[n + 1].size ELSE f[m]]
  <2>3. \A m \in 0 .. n : f[m] \in Nat
    OBVIOUS
  <2>4. g \in [0 .. (n + 1) -> Nat]
    BY <2>2, <2>3
  <2>5. ASSUME NEW m \in 0 .. (n + 1)
        PROVE  g[m] = IF m = 0 THEN 0 ELSE g[m - 1] + ps[m].size
    <3>1. CASE m = n + 1
      BY <3>1
    <3>2. CASE m # n + 1
      <4>1. m \in 0 .. n /\ f[m] = IF m = 0 THEN 0 ELSE f[m - 1] + ps[m].size
        BY <2>1, <3>2
      <4>2. m # 0 => m - 1 \in 0 .. n /\ m - 1 # n + 1
        BY <4>1
      <4> QED BY <3>2, <4>1, <4>2
    <3> QED BY <3>1, <3>2
  <2>6. Upto(n + 1, g)
    BY <2>5
  <2> QED BY <2>4, <2>6
<1>3. ASSUME NEW n \in Nat, n \in T
      PROVE  n + 1 \in T
  <2>1. CASE n + 1 <= Len(ps)
    <3>1. \E f \in [0 .. (n + 1) -> Nat] : Upto(n + 1, f)
      BY <1>2, <1>3, <2>1
    <3> HIDE DEF Upto
    <3> QED BY <3>1
  <2>2. CASE ~(n + 1 <= Len(ps))
    BY <2>2
  <2> QED BY <2>1, <2>2
<1> HIDE DEF T
<1>4. \A n \in Nat : n \in T
  BY <1>1, <1>3, SetInduction
<1>5. Len(ps) \in T
  BY <1>4
<1> QED BY <1>5 DEF T, IsSum

(* It is unique. *)
LEMMA SumUnique ==
    ASSUME NEW ps \in Seq(Params), NEW f, NEW g, IsSum(ps, f), IsSum(ps, g)
    PROVE  f = g
<1> DEFINE T == {n \in Nat : n <= Len(ps) => f[n] = g[n]}
<1>1. 0 \in T
  BY DEF IsSum
<1>2. ASSUME NEW n \in Nat, n \in T, n + 1 <= Len(ps)
      PROVE  f[n + 1] = g[n + 1]
  <2>1. f[n] = g[n] /\ n + 1 \in 0 .. Len(ps) /\ n + 1 # 0 /\ (n + 1) - 1 = n
    BY <1>2
  <2>2. f[n + 1] = f[(n + 1) - 1] + ps[n + 1].size
    BY <2>1 DEF IsSum
  <2>3. g[n + 1] = g[(n + 1) - 1] + ps[n + 1].size
    BY <2>1 DEF IsSum
  <2> QED BY <2>1, <2>2, <2>3
<1>3. \A n \in Nat : n \in T => n + 1 \in T
  BY <1>2
<1> HIDE DEF T
<1>4. \A n \in Nat : n \in T
  BY <1>1, <1>3, SetInduction
<1>5. \A n \in 0 .. Len(ps) : f[n] = g[n]
  BY <1>4 DEF T
<1>6. /\ f = [n \in 0 .. Len(ps) |-> f[n]]
      /\ g = [n \in 0 .. Len(ps) |-> g[n]]
  BY DEF IsSum
<1> QED BY <1>5, <1>6

(* Bytes is what such a function makes of the whole sequence. *)
LEMMA BytesIsSum ==
    ASSUME NEW ps \in Seq(Params), NEW f, IsSum(ps, f)
    PROVE  Bytes(ps) = f[Len(ps)]
<1> DEFINE sum == CHOOSE g : IsSum(ps, g)
<1>1. IsSum(ps, sum)
  BY Zenon
<1>2. Bytes(ps) = sum[Len(ps)]
  BY DEF Bytes, IsSum
<1> HIDE DEF sum
<1>3. sum = f
  BY <1>1, SumUnique
<1> QED BY <1>2, <1>3

(* The bytes of frames are a number. *)
LEMMA BytesNat ==
    ASSUME NEW ps \in Seq(Params)
    PROVE  Bytes(ps) \in Nat
<1>1. PICK f \in [0 .. Len(ps) -> Nat] : IsSum(ps, f)
  BY SumExists
<1> QED BY <1>1, BytesIsSum

(* No frames, no bytes. *)
LEMMA BytesEmpty == Bytes(<<>>) = 0
<1>1. <<>> \in Seq(Params)
  OBVIOUS
<1>2. PICK f : IsSum(<<>>, f)
  BY <1>1, SumExists
<1>3. Len(<<>>) = 0 /\ f[0] = 0
  BY <1>2 DEF IsSum
<1> QED BY <1>1, <1>2, <1>3, BytesIsSum

(* The bytes of one frame are its size. *)
LEMMA BytesOne ==
    ASSUME NEW p \in Params
    PROVE  Bytes(<<p>>) = p.size
<1>1. <<p>> \in Seq(Params)
  OBVIOUS
<1>2. PICK f : IsSum(<<p>>, f)
  BY <1>1, SumExists
<1>3. f[0] = 0 /\ f[1] = f[0] + p.size
  BY <1>2 DEF IsSum
<1>4. p.size \in Nat /\ Len(<<p>>) = 1
  BY SizeIsNat
<1>5. Bytes(<<p>>) = f[Len(<<p>>)]
  BY <1>1, <1>2, BytesIsSum
<1> HIDE DEF IsSum
<1> QED BY <1>3, <1>4, <1>5

(* The bytes of joined sequences add up. *)
LEMMA BytesConcat ==
    ASSUME NEW s \in Seq(Params), NEW t \in Seq(Params)
    PROVE  Bytes(s \o t) = Bytes(s) + Bytes(t)
<1>1. PICK f \in [0 .. Len(s) -> Nat] : IsSum(s, f)
  BY SumExists
<1>2. PICK g \in [0 .. Len(t) -> Nat] : IsSum(t, g)
  BY SumExists
<1> DEFINE u == s \o t
           a == Len(s)
           b == Len(t)
           h == [n \in 0 .. (a + b) |-> IF n <= a THEN f[n] ELSE f[a] + g[n - a]]
<1>3. /\ u \in Seq(Params) /\ Len(u) = a + b /\ a \in Nat /\ b \in Nat
      /\ \A i \in 1 .. a : u[i] = s[i]
      /\ \A i \in 1 .. b : u[a + i] = t[i]
  OBVIOUS
<1>4. /\ f[0] = 0 /\ g[0] = 0
      /\ \A n \in 1 .. a : f[n] = f[n - 1] + s[n].size
      /\ \A n \in 1 .. b : g[n] = g[n - 1] + t[n].size
  BY <1>1, <1>2, SumEquations
<1>5. \A n \in 0 .. b : g[n] \in Nat
  OBVIOUS
<1>6. \A n \in 0 .. a : f[n] \in Nat
  OBVIOUS
<1>7. \A i \in 1 .. b : t[i].size \in Nat
  BY SizeIsNat
<1>0. \A n \in 0 .. (a + b) : h[n] = IF n <= a THEN f[n] ELSE f[a] + g[n - a]
  OBVIOUS
<1>01. DOMAIN h = 0 .. (a + b) /\ h = [n \in 0 .. (a + b) |-> h[n]]
  OBVIOUS
<1> HIDE DEF u, h, a, b
<1>8. ASSUME NEW n \in 0 .. (a + b)
      PROVE  h[n] = IF n = 0 THEN 0 ELSE h[n - 1] + u[n].size
  <2>1. CASE n = 0
    BY <1>0, <1>3, <1>4, <2>1
  <2>2. CASE n # 0 /\ n <= a
    <3>1. n \in 1 .. a /\ n - 1 \in 0 .. (a + b) /\ n - 1 <= a
      BY <1>3, <2>2
    <3>2. h[n] = f[n] /\ h[n - 1] = f[n - 1]
      BY <1>0, <2>2, <3>1
    <3> QED BY <1>3, <1>4, <2>2, <3>1, <3>2
  <2>3. CASE n = a + 1
    <3>1. h[n] = f[a] + g[1] /\ h[n - 1] = f[a]
      <4>1. n - a = 1 /\ n - 1 = a /\ a \in 0 .. (a + b)
        BY <1>3, <2>3
      <4> QED BY <1>0, <1>3, <2>3, <4>1
    <3>2. g[1] = g[0] + t[1].size /\ 1 \in 1 .. b
      <4>1. 1 \in 1 .. b /\ 1 - 1 = 0
        BY <1>3, <2>3
      <4>2. g[1] = g[1 - 1] + t[1].size
        BY <1>4, <4>1
      <4> QED BY <4>1, <4>2
    <3>3. u[n] = t[1]
      BY <1>3, <2>3, <3>2
    <3> QED BY SMTT(60), <1>3, <1>4, <1>5, <1>6, <1>7, <2>3, <3>1, <3>2, <3>3
  <2>4. CASE n > a + 1
    <3>1. n - a \in 1 .. b /\ (n - 1) - a = (n - a) - 1 /\ (n - 1) \in 0 .. (a + b) /\ n - 1 > a
          /\ (n - a) - 1 \in 0 .. b
      BY <1>3, <2>4
    <3>2. h[n] = f[a] + g[n - a] /\ h[n - 1] = f[a] + g[(n - a) - 1]
      <4>1. ~(n <= a) /\ ~(n - 1 <= a)
        BY <1>3, <2>4
      <4> QED BY <1>0, <3>1, <4>1
    <3>3. g[n - a] = g[(n - a) - 1] + t[n - a].size
      BY <1>4, <3>1
    <3>4. u[n] = t[n - a]
      <4>1. a + (n - a) = n
        BY <1>3
      <4> QED BY <1>3, <3>1, <4>1
    <3>5. f[a] \in Nat /\ g[(n - a) - 1] \in Nat /\ t[n - a].size \in Nat
      BY <1>3, <1>5, <1>6, <1>7, <3>1
    <3>6. n # 0
      BY <1>3, <2>4
    <3> QED BY <3>2, <3>3, <3>4, <3>5, <3>6
  <2> QED BY <1>3, <2>1, <2>2, <2>3, <2>4
<1>9. IsSum(u, h)
  BY <1>01, <1>3, <1>8 DEF IsSum
<1>10. h[a + b] = f[a] + g[b]
  <2>1. a + b \in 0 .. (a + b) /\ (a + b) - a = b /\ f[a] \in Nat
    BY <1>3, <1>6
  <2>2. CASE b = 0
    BY <1>0, <1>3, <1>4, <2>1, <2>2
  <2>3. CASE b # 0
    <3>1. ~(a + b <= a)
      BY <1>3, <2>3
    <3> QED BY <1>0, <2>1, <3>1
  <2> QED BY <2>2, <2>3
<1>11. Bytes(u) = h[a + b]
  BY <1>3, <1>9, BytesIsSum
<1>12. Bytes(s) = f[a] /\ Bytes(t) = g[b]
  BY <1>1, <1>2, BytesIsSum DEF a, b
<1> QED BY <1>10, <1>11, <1>12 DEF u, a, b

-----------------------------------------------------------------------------
(* What send(), ping(), pong() and close() make of a call. *)
NewFrame(p) ==
    /\ readyState = "OPEN"
    /\ p.call = Len(accepted) + 1
    /\ p.opcode = "close" => readyState' # "OPEN"
    /\ flushed' = flushed /\ discarded' = discarded
    /\ readyState' \in {"OPEN", "CLOSING"}
    /\ firstFragment' \in BOOLEAN /\ compress' \in BOOLEAN
    /\ IF p.opcode \in {"data", "cont"}
         THEN /\ p.opcode = IF firstFragment THEN "data" ELSE "cont"
              /\ firstFragment' = p.fin
              /\ p.compress <=> PerMessageDeflate /\ compress'
              /\ p.rsv1 <=> firstFragment /\ compress'
              /\ firstFragment /\ compress' => PerMessageDeflate
              /\ ~firstFragment => compress' = compress
         ELSE UNCHANGED <<firstFragment, compress>>

(* Steps that ask the sender for nothing. *)
NoFrame ==
    /\ UNCHANGED <<accepted, firstFragment, compress>>
    /\ readyState' = "OPEN" => readyState = "OPEN"

(* The calls made after the connection has left OPEN. *)
SendAfterCloses == \E size \in Sizes : SendAfterClose(size)

(* Steps that neither submit a frame nor move one out of the compressor. *)
OtherStep ==
    \/ SendAfterCloses \/ CompressDone \/ WriteCallback \/ SocketEnd \/ SocketFail
    \/ SocketErrorEvent \/ Terminate \/ UNCHANGED vars

(* A step submits one new frame, or none. *)
LEMMA NextSubmits ==
    ASSUME StructOK, [Next]_vars
    PROVE  \/ \E p \in Params : NewFrame(p) /\ Submit(p)
           \/ NoFrame /\ OtherStep
<1> USE SenderAssumption
<1>0. Len(accepted) \in Nat
  BY DEF StructOK
<1>1. ASSUME NEW size \in Sizes, NEW want \in BOOLEAN, NEW fin \in BOOLEAN,
             Send(size, want, fin)
      PROVE  \E p \in Params : NewFrame(p) /\ Submit(p)
  <2> DEFINE asked == want /\ PerMessageDeflate
             p == [call |-> NextCall, size |-> size, fin |-> fin,
                   opcode |-> IF firstFragment THEN "data" ELSE "cont",
                   rsv1 |-> firstFragment /\ compress',
                   compress |-> PerMessageDeflate /\ compress']
  <2>1. /\ Submit(p) /\ compress' = Latch(size, asked) /\ firstFragment' = fin
        /\ UNCHANGED <<readyState, flushed, discarded>> /\ NextCall <= MaxCalls
        /\ readyState = "OPEN"
    BY <1>1 DEF Send
  <2>2. compress' \in BOOLEAN
    BY <1>1, SendSubmits
  <2>3. p \in Params
    BY <1>0, <2>1, <2>2 DEF Params, Opcodes, NextCall
  <2>4. firstFragment /\ compress' => PerMessageDeflate
    BY <2>1, Zenon DEF Latch
  <2>5. ~firstFragment => compress' = compress
    BY <2>1, Zenon DEF Latch
  <2>6. p.opcode \in {"data", "cont"} /\ p.opcode # "close"
    OBVIOUS
  <2>7. p.call = Len(accepted) + 1 /\ p.fin = fin
    BY DEF NextCall
  <2>8. p.compress = (PerMessageDeflate /\ compress') /\ p.rsv1 = (firstFragment /\ compress')
    BY Zenon
  <2>9. p.opcode = IF firstFragment THEN "data" ELSE "cont"
    BY Zenon
  <2> HIDE DEF p
  <2>10. NewFrame(p)
    BY <2>1, <2>2, <2>4, <2>5, <2>6, <2>7, <2>8, <2>9 DEF NewFrame
  <2> QED BY <2>1, <2>3, <2>10
<1>2. ASSUME NEW op \in {"ping", "pong"}, PingOrPong(op)
      PROVE  \E p \in Params : NewFrame(p) /\ Submit(p)
  <2> DEFINE p == ControlFrame(op, 1)
  <2>1. p \in Params
    BY <1>0, <1>2 DEF PingOrPong, ControlFrame, Params, Opcodes, NextCall
  <2>2. p.call = Len(accepted) + 1 /\ p.opcode \notin {"data", "cont", "close"}
    BY DEF ControlFrame, NextCall
  <2>3. NewFrame(p) /\ Submit(p)
    BY <1>2, <2>2 DEF NewFrame, PingOrPong, StructOK
  <2> QED BY <2>1, <2>3
<1>3. CASE Close
  <2> DEFINE p == ControlFrame("close", 2)
  <2>1. p \in Params
    BY <1>0, <1>3 DEF Close, ControlFrame, Params, Opcodes, NextCall
  <2>2. p.call = Len(accepted) + 1 /\ p.opcode = "close"
    BY DEF ControlFrame, NextCall
  <2>3. NewFrame(p) /\ Submit(p)
    BY <1>3, <2>2 DEF NewFrame, Close, StructOK
  <2> QED BY <2>1, <2>3
<1>4. CASE OtherStep
  <2>1. NoFrame
    BY <1>4 DEF NoFrame, OtherStep, SendAfterCloses, SendAfterClose, CompressDone,
                WriteCallback, SocketEnd, SocketFail, SocketErrorEvent, Terminate, vars
  <2> QED BY <1>4, <2>1
<1> QED BY <1>1, <1>2, <1>3, <1>4 DEF Next, OtherStep, SendAfterCloses

-----------------------------------------------------------------------------
(* Calls are numbered in their order, and a close frame is not asked for    *)
(* while the connection is open.                                            *)
Numbered ==
    \A i \in 1 .. Len(accepted) :
        /\ accepted[i].call = i
        /\ readyState = "OPEN" => accepted[i].opcode # "close"

(* Every step keeps the numbers and the last place of the close frame. *)
LEMMA NextNumbered ==
    ASSUME StructOK, Numbered, CloseIsLast, [Next]_vars
    PROVE  Numbered' /\ CloseIsLast'
<1> USE DEF StructOK
<1>1. ASSUME NEW p \in Params, NewFrame(p), Submit(p)
      PROVE  Numbered' /\ CloseIsLast'
  <2>1. accepted' = Append(accepted, p)
    BY <1>1 DEF Submit, Enqueue, Dispatch
  <2>2. /\ Len(accepted') = Len(accepted) + 1
        /\ \A i \in 1 .. Len(accepted) : accepted'[i] = accepted[i]
        /\ accepted'[Len(accepted) + 1] = p
        /\ DOMAIN accepted' = 1 .. Len(accepted')
    BY <2>1
  <2>3. readyState = "OPEN" /\ p.call = Len(accepted) + 1
        /\ (p.opcode = "close" => readyState' # "OPEN")
    BY <1>1 DEF NewFrame
  <2>4. ASSUME NEW i \in 1 .. Len(accepted')
        PROVE  /\ accepted'[i].call = i
               /\ readyState' = "OPEN" => accepted'[i].opcode # "close"
               /\ accepted'[i].opcode = "close" => i = Len(accepted')
    <3>1. CASE i = Len(accepted) + 1
      BY <2>2, <2>3, <3>1
    <3>2. CASE i \in 1 .. Len(accepted)
      <4>1. accepted[i].call = i /\ accepted[i].opcode # "close"
        BY <2>3, <3>2 DEF Numbered
      <4> QED BY <2>2, <3>2, <4>1
    <3> QED BY <2>2, <3>1, <3>2
  <2> QED BY <2>2, <2>4 DEF Numbered, CloseIsLast
<1>2. CASE NoFrame
  BY <1>2 DEF NoFrame, Numbered, CloseIsLast
<1> QED BY <1>1, <1>2, NextSubmits

(* After close() nothing is asked of the sender: a close frame is the last  *)
(* of all accepted frames, for any number of calls.                         *)
THEOREM CloseFrameLast == Spec => [](Numbered /\ CloseIsLast)
<1>1. Init => Numbered /\ CloseIsLast
  BY DEF Init, Numbered, CloseIsLast
<1> QED BY <1>1, StructInvariant, NextNumbered, PTL DEF Spec

-----------------------------------------------------------------------------
(* What was written is what was asked for first, even after a failure. *)
WrittenFirst ==
    /\ Len(written) <= Len(accepted)
    /\ \A i \in 1 .. Len(written) : written[i] = accepted[i]

(* Every step keeps the written frames a prefix of the accepted ones. *)
LEMMA NextWrittenFirst ==
    ASSUME StructOK, StructOK', SendOrder, SendOrder', WrittenFirst, [Next]_vars
    PROVE  WrittenFirst'
<1>s. /\ written \in Seq(Params) /\ accepted \in Seq(Params) /\ accepted' \in Seq(Params)
      /\ written' \in Seq(Params) /\ job' \in Seq(Params) /\ queue' \in Seq(Params)
  BY DEF StructOK
<1>1. CASE written' = written
  <2>1. accepted' = accepted \/ \E p \in Params : accepted' = Append(accepted, p)
    BY NextSubmits DEF NoFrame, Submit, Enqueue, Dispatch
  <2>2. /\ Len(accepted) <= Len(accepted')
        /\ \A i \in 1 .. Len(accepted) : accepted'[i] = accepted[i]
    <3>1. CASE accepted' = accepted
      BY <3>1
    <3>2. ASSUME NEW p \in Params, accepted' = Append(accepted, p)
          PROVE  /\ Len(accepted) <= Len(accepted')
                 /\ \A i \in 1 .. Len(accepted) : accepted'[i] = accepted[i]
      BY <1>s, <3>2
    <3> QED BY <2>1, <3>1, <3>2
  <2>3. Len(written) \in Nat /\ Len(accepted) \in Nat /\ Len(accepted') \in Nat
    BY <1>s
  <2>4. ASSUME NEW i \in 1 .. Len(written) PROVE written[i] = accepted'[i]
    <3>1. i \in 1 .. Len(accepted) /\ written[i] = accepted[i]
      BY <2>3 DEF WrittenFirst
    <3> QED BY <2>2, <3>1
  <2>5. Len(written) <= Len(accepted')
    BY <2>2, <2>3 DEF WrittenFirst
  <2> QED BY <1>1, <2>4, <2>5 DEF WrittenFirst
<1>2. CASE written' # written
  <2>1. socket' # "destroyed"
    <3>1. CASE \E p \in Params : NewFrame(p) /\ Submit(p)
      <4>1. PICK p \in Params : Submit(p)
        BY <3>1
      <4> QED BY <1>2, <4>1 DEF Submit, Enqueue, Dispatch, SendFrames
    <3>2. CASE OtherStep
      BY <1>2, <3>2 DEF OtherStep, SendAfterCloses, SendAfterClose, CompressDone, Release,
                FailWaiting, SendFrames, WriteCallback, SocketEnd, SocketFail,
                SocketErrorEvent, Terminate, vars
    <3> QED BY <3>1, <3>2, NextSubmits
  <2>2. (written' \o job') \o queue' = accepted'
    BY <2>1 DEF SendOrder
  <2>4. /\ Len(written') <= Len(accepted')
        /\ written' = SubSeq(accepted', 1, Len(written'))
    BY <1>s, <2>2, PrefixOfThree, Zenon
  <2> QED BY <1>s, <2>4 DEF WrittenFirst
<1> QED BY <1>1, <1>2

-----------------------------------------------------------------------------
(* _firstFragment and _compress say where in a message the calls are. *)
Latched ==
    LET next == Len(accepted) + 1
    IN  /\ firstFragment <=>
              \A j \in 1 .. (next - 1) : Previous(accepted, next, j) => accepted[j].fin
        /\ ~firstFragment =>
              \A j \in 1 .. (next - 1) : Previous(accepted, next, j) =>
                  (accepted[j].compress <=> PerMessageDeflate /\ compress)

(* Whether frames are well framed depends on the frames before them only. *)
LEMMA PreviousSame ==
    ASSUME NEW s \in Seq(Params), NEW t \in Seq(Params), NEW i \in 1 .. (Len(s) + 1),
           Len(s) <= Len(t), \A k \in 1 .. Len(s) : t[k] = s[k], NEW j \in 1 .. (i - 1)
    PROVE  Previous(s, i, j) <=> Previous(t, i, j)
BY SMTT(30) DEF Previous, InMessage

(* A prefix of well framed frames is well framed. *)
LEMMA FramedPrefix ==
    ASSUME NEW s \in Seq(Params), NEW t \in Seq(Params),
           Len(s) <= Len(t), \A k \in 1 .. Len(s) : s[k] = t[k], Framed(t)
    PROVE  Framed(s)
<1> SUFFICES ASSUME NEW i \in 1 .. Len(s), InMessage(s, i)
             PROVE  LET p == s[i]
                    IN  /\ p.opcode = "cont" <=> \E j \in 1 .. (i - 1) : Previous(s, i, j) /\ ~s[j].fin
                        /\ p.opcode = "cont" => ~p.rsv1
                        /\ p.opcode = "cont" =>
                              \A j \in 1 .. (i - 1) : Previous(s, i, j) => p.compress = s[j].compress
                        /\ p.opcode = "data" => p.rsv1 = p.compress
  BY DEF Framed
<1>1. i \in 1 .. (Len(s) + 1) /\ i \in 1 .. Len(t) /\ s[i] = t[i] /\ InMessage(t, i)
  BY DEF InMessage
<1>2. \A j \in 1 .. (i - 1) : (Previous(s, i, j) <=> Previous(t, i, j)) /\ s[j] = t[j]
  <2> TAKE j \in 1 .. (i - 1)
  <2>1. Previous(s, i, j) <=> Previous(t, i, j)
    BY <1>1, PreviousSame
  <2>2. j \in 1 .. Len(s)
    OBVIOUS
  <2> QED BY <2>1, <2>2
<1> QED BY <1>1, <1>2 DEF Framed

(* Every step keeps the latches and the framing of the accepted calls. *)
LEMMA NextLatched ==
    ASSUME StructOK, Latched, Framed(accepted), [Next]_vars
    PROVE  Latched' /\ Framed(accepted)'
<1> USE DEF StructOK
<1>1. ASSUME NEW p \in Params, NewFrame(p), Submit(p)
      PROVE  Latched' /\ Framed(accepted)'
  <2> DEFINE n == Len(accepted) + 1
             new == accepted'
  <2>1. accepted' = Append(accepted, p)
    BY <1>1 DEF Submit, Enqueue, Dispatch
  <2>2. /\ new \in Seq(Params) /\ Len(new) = n /\ n \in 1 .. (Len(accepted) + 1)
        /\ Len(accepted) \in Nat
        /\ \A i \in 1 .. Len(accepted) : new[i] = accepted[i]
        /\ new[n] = p
    BY <2>1
  <2> HIDE DEF new
  <2>3. \A i \in 1 .. n : \A j \in 1 .. (i - 1) :
           Previous(accepted, i, j) <=> Previous(new, i, j)
    <3> TAKE i \in 1 .. n
    <3> TAKE j \in 1 .. (i - 1)
    <3>1. i \in 1 .. (Len(accepted) + 1) /\ Len(accepted) <= Len(new)
      BY <2>2
    <3> HIDE DEF n
    <3> QED BY <2>2, <3>1, PreviousSame
  <2>4. /\ firstFragment \in BOOLEAN /\ compress \in BOOLEAN /\ p.fin \in BOOLEAN
        /\ p.compress \in BOOLEAN /\ p.rsv1 \in BOOLEAN
    BY DEF Params
  <2>5. /\ firstFragment <=> \A j \in 1 .. (n - 1) : Previous(new, n, j) => new[j].fin
        /\ ~firstFragment =>
              \A j \in 1 .. (n - 1) : Previous(new, n, j) =>
                  (new[j].compress <=> PerMessageDeflate /\ compress)
    <3>1. \A j \in 1 .. (n - 1) : new[j] = accepted[j]
      BY <2>2
    <3>2. \A j \in 1 .. (n - 1) : Previous(new, n, j) <=> Previous(accepted, n, j)
      BY <2>2, <2>3
    <3> QED BY <3>1, <3>2 DEF Latched
  <2>6. ASSUME NEW i \in 1 .. Len(accepted), InMessage(new, i)
        PROVE  LET q == new[i]
               IN  /\ q.opcode = "cont" <=> \E j \in 1 .. (i - 1) : Previous(new, i, j) /\ ~new[j].fin
                   /\ q.opcode = "cont" => ~q.rsv1
                   /\ q.opcode = "cont" =>
                         \A j \in 1 .. (i - 1) : Previous(new, i, j) => q.compress = new[j].compress
                   /\ q.opcode = "data" => q.rsv1 = q.compress
    <3>1. new[i] = accepted[i] /\ InMessage(accepted, i) /\ i \in 1 .. n
      BY <2>2, <2>6 DEF InMessage
    <3>2. \A j \in 1 .. (i - 1) : new[j] = accepted[j] /\ (Previous(new, i, j) <=> Previous(accepted, i, j))
      <4> TAKE j \in 1 .. (i - 1)
      <4>1. j \in 1 .. Len(accepted)
        OBVIOUS
      <4>2. Previous(new, i, j) <=> Previous(accepted, i, j)
        BY <2>3, <3>1
      <4> QED BY <2>2, <4>1, <4>2
    <3> QED BY <3>1, <3>2 DEF Framed
  <2>7. CASE p.opcode \in {"data", "cont"}
    <3>1. /\ p.opcode = IF firstFragment THEN "data" ELSE "cont"
          /\ firstFragment' = p.fin
          /\ p.compress <=> PerMessageDeflate /\ compress'
          /\ p.rsv1 <=> firstFragment /\ compress'
          /\ firstFragment /\ compress' => PerMessageDeflate
          /\ ~firstFragment => compress' = compress
      BY <1>1, <2>7 DEF NewFrame
    <3>2. /\ p.opcode = "cont" <=> \E j \in 1 .. (n - 1) : Previous(new, n, j) /\ ~new[j].fin
          /\ p.opcode = "cont" => ~p.rsv1
          /\ p.opcode = "data" => p.rsv1 = p.compress
      BY <2>4, <2>5, <3>1
    <3>3. ASSUME p.opcode = "cont", NEW j \in 1 .. (n - 1), Previous(new, n, j)
          PROVE  p.compress = new[j].compress
      <4>1. ~firstFragment
        BY <3>1, <3>3
      <4>2. new[j].compress <=> PerMessageDeflate /\ compress
        BY <2>5, <3>3, <4>1
      <4>3. new[j].compress \in BOOLEAN
        <5>1. new[j] \in Params
          BY <2>2
        <5> QED BY <5>1 DEF Params
      <4>4. p.compress <=> new[j].compress
        <5>1. compress' = compress
          BY <3>1, <4>1
        <5>2. p.compress <=> PerMessageDeflate /\ compress'
          BY <3>1
        <5>3. p.compress <=> PerMessageDeflate /\ compress
          BY <5>1, <5>2
        <5> QED BY <4>2, <5>3
      <4> QED BY <2>4, <4>3, <4>4
    <3>4. Framed(new)
      <4> SUFFICES ASSUME NEW i \in 1 .. Len(new), InMessage(new, i)
                   PROVE  LET q == new[i]
                          IN  /\ q.opcode = "cont" <=> \E j \in 1 .. (i - 1) : Previous(new, i, j) /\ ~new[j].fin
                              /\ q.opcode = "cont" => ~q.rsv1
                              /\ q.opcode = "cont" =>
                                    \A j \in 1 .. (i - 1) : Previous(new, i, j) => q.compress = new[j].compress
                              /\ q.opcode = "data" => q.rsv1 = q.compress
        BY DEF Framed
      <4>1. i = n \/ i \in 1 .. Len(accepted)
        BY <2>2
      <4>2. new[n] = p
        BY <2>2
      <4> HIDE DEF n
      <4> QED BY <2>6, <3>2, <3>3, <4>1, <4>2
    <3>5. \A j \in 1 .. n : Previous(new, n + 1, j) <=> j = n
      <4>1. InMessage(new, n)
        BY <2>2, <2>7 DEF InMessage
      <4>2. Previous(new, n + 1, n)
        BY <2>2, <4>1 DEF Previous
      <4>3. ASSUME NEW j \in 1 .. n, j # n PROVE ~Previous(new, n + 1, j)
        <5>1. n \in (j + 1) .. ((n + 1) - 1)
          BY <2>2, <4>3
        <5> QED BY <4>1, <5>1 DEF Previous
      <4> QED BY <4>2, <4>3
    <3>6. (n + 1) - 1 = n /\ n \in 1 .. n
      BY <2>2
    <3>7. Latched'
      BY <2>2, <3>1, <3>5, <3>6 DEF Latched, new
    <3> QED BY <3>4, <3>7 DEF new
  <2>8. CASE p.opcode \notin {"data", "cont"}
    <3>1. UNCHANGED <<firstFragment, compress>>
      BY <1>1, <2>8 DEF NewFrame
    <3>2. Framed(new)
      <4> SUFFICES ASSUME NEW i \in 1 .. Len(new), InMessage(new, i)
                   PROVE  LET q == new[i]
                          IN  /\ q.opcode = "cont" <=> \E j \in 1 .. (i - 1) : Previous(new, i, j) /\ ~new[j].fin
                              /\ q.opcode = "cont" => ~q.rsv1
                              /\ q.opcode = "cont" =>
                                    \A j \in 1 .. (i - 1) : Previous(new, i, j) => q.compress = new[j].compress
                              /\ q.opcode = "data" => q.rsv1 = q.compress
        BY DEF Framed
      <4>1. i \in 1 .. Len(accepted)
        BY <2>2, <2>8 DEF InMessage
      <4> QED BY <2>6, <4>1
    <3>3. \A j \in 1 .. n : Previous(new, n + 1, j) <=> (j # n /\ Previous(new, n, j))
      <4>1. ~InMessage(new, n)
        BY <2>2, <2>8 DEF InMessage
      <4>2. ASSUME NEW j \in 1 .. n, j # n
            PROVE  Previous(new, n + 1, j) <=> Previous(new, n, j)
        <5>1. \A k : k \in (j + 1) .. ((n + 1) - 1) <=> k = n \/ k \in (j + 1) .. (n - 1)
          BY <2>2, <4>2
        <5>2. j \in 1 .. (n - 1) /\ j \in 1 .. ((n + 1) - 1)
          BY <2>2, <4>2
        <5> QED BY <4>1, <5>1, <5>2 DEF Previous
      <4>3. ~Previous(new, n + 1, n)
        BY <4>1 DEF Previous
      <4> QED BY <4>2, <4>3
    <3>4. (n + 1) - 1 = n /\ n \in 1 .. n /\ \A j \in 1 .. n : j # n <=> j \in 1 .. (n - 1)
      BY <2>2
    <3>5. Latched'
      <4>1. \A j \in 1 .. (n - 1) : Previous(new, n + 1, j) <=> Previous(new, n, j)
        BY SMTT(30), <3>3, <3>4
      <4>2. \A j \in 1 .. n : Previous(new, n + 1, j) => j \in 1 .. (n - 1) /\ Previous(new, n, j)
        BY <3>3, <3>4
      <4>3. \A j \in 1 .. (n - 1) : j \in 1 .. n
        BY <3>4
      <4> HIDE DEF n
      <4>4. /\ firstFragment' <=> \A j \in 1 .. n : Previous(new, n + 1, j) => new[j].fin
            /\ ~firstFragment' =>
                  \A j \in 1 .. n : Previous(new, n + 1, j) =>
                      (new[j].compress <=> PerMessageDeflate /\ compress')
        BY <2>5, <3>1, <4>1, <4>2, <4>3
      <4> QED BY <2>2, <3>4, <4>4 DEF Latched, new
    <3> QED BY <3>2, <3>5 DEF new
  <2> QED BY <2>7, <2>8
<1>2. CASE NoFrame
  BY <1>2 DEF NoFrame, Latched, Framed, Previous, InMessage
<1> QED BY <1>1, <1>2, NextSubmits

(* The peer can decode what reaches it, for any fragments, threshold and    *)
(* order of compression.                                                    *)
THEOREM FramesDecodable == Spec => []WellFramed
<1>1. Init => WrittenFirst /\ Latched /\ Framed(accepted)
  BY DEF Init, WrittenFirst, Latched, Framed, Previous
<1>2. StructOK /\ WrittenFirst /\ Framed(accepted) => WellFramed
  BY FramedPrefix DEF WellFramed, WrittenFirst, StructOK
<1> DEFINE Inv == WrittenFirst /\ Latched /\ Framed(accepted)
<1>3. StructOK /\ StructOK' /\ SendOrder /\ SendOrder' /\ Inv /\ [Next]_vars => Inv'
  BY NextWrittenFirst, NextLatched
<1>4. Spec => []Inv
  BY <1>1, <1>3, StructInvariant, OrderKept, PTL DEF Spec
<1> QED BY <1>2, <1>4, StructInvariant, PTL

-----------------------------------------------------------------------------
(* bufferedAmount is kept through every call and callback. *)
LEMMA NextBuffered ==
    ASSUME StructOK, StructOK', TypeOK, BufferedExact, [Next]_vars
    PROVE  BufferedExact' /\ bufferedBytes' \in Nat /\ discarded' \in Nat
<1>s. /\ queue \in Seq(Params) /\ job \in Seq(Params)
      /\ queue' \in Seq(Params) /\ job' \in Seq(Params)
  BY DEF StructOK
<1>n. bufferedBytes \in Nat /\ discarded \in Nat
  BY DEF TypeOK
<1>0. /\ Bytes(job) \in Nat /\ Bytes(queue) \in Nat
      /\ Bytes(job') \in Nat /\ Bytes(queue') \in Nat
  BY <1>s, BytesNat
<1>1. ASSUME NEW p \in Params, NewFrame(p), Submit(p)
      PROVE  BufferedExact' /\ bufferedBytes' \in Nat /\ discarded' \in Nat
  <2>0. p.size \in Nat /\ Bytes(<<p>>) = p.size /\ discarded' = discarded /\ <<p>> \in Seq(Params)
    BY <1>1, SizeIsNat, BytesOne DEF NewFrame
  <2>1. CASE deflating
    <3>1. /\ queue' = Append(queue, p) /\ bufferedBytes' = bufferedBytes + p.size
          /\ UNCHANGED <<job, socket>>
      BY <1>1, <2>1 DEF Submit, Enqueue, Dispatch
    <3>2. Bytes(queue') = Bytes(queue) + p.size
      <4>1. queue' = queue \o <<p>>
        BY <1>s, <3>1, AppendIsConcat
      <4>2. Bytes(queue \o <<p>>) = Bytes(queue) + Bytes(<<p>>)
        BY <1>s, <2>0, BytesConcat
      <4> QED BY <2>0, <4>1, <4>2
    <3> QED BY SMTT(60), <1>0, <1>n, <2>0, <3>1, <3>2 DEF BufferedExact
  <2>2. CASE ~deflating /\ p.compress
    <3>0. job = <<>>
      BY <2>2 DEF StructOK
    <3>1. /\ job' = <<p>> /\ bufferedBytes' = bufferedBytes + p.size
          /\ UNCHANGED <<queue, socket>>
      BY <1>1, <2>2 DEF Submit, Enqueue, Dispatch
    <3>2. Bytes(job') = Bytes(job) + p.size
      BY <2>0, <3>0, <3>1, BytesEmpty
    <3> QED BY <1>0, <1>n, <2>0, <3>1, <3>2 DEF BufferedExact
  <2>3. CASE ~deflating /\ ~p.compress
    <3>1. /\ UNCHANGED <<job, queue, bufferedBytes>>
          /\ socket' # "destroyed" => socket # "destroyed"
      BY <1>1, <2>3 DEF Submit, Enqueue, Dispatch, SendFrames
    <3> QED BY <1>n, <2>0, <3>1 DEF BufferedExact
  <2> QED BY <2>1, <2>2, <2>3
<1>2. CASE SendAfterCloses
  <2>1. PICK size \in Sizes : SendAfterClose(size)
    BY <1>2 DEF SendAfterCloses
  <2>2. size \in Nat
    BY SenderAssumption, Zenon
  <2>3. /\ bufferedBytes' = bufferedBytes + size /\ discarded' = discarded + size
        /\ UNCHANGED <<job, queue, socket>>
    BY <2>1 DEF SendAfterClose
  <2> QED BY <1>0, <1>n, <2>2, <2>3 DEF BufferedExact
<1>3. CASE CompressDone /\ socket = "destroyed"
  BY <1>3, <1>n DEF CompressDone, FailWaiting, BufferedExact
<1>4. CASE CompressDone /\ socket # "destroyed"
  <2> DEFINE n == Ready(queue)
             front == SubSeq(queue, 1, n)
             rest == SubSeq(queue, n + 1, Len(queue))
             out == job \o front
  <2>1. /\ bufferedBytes' = bufferedBytes - Bytes(out)
        /\ job' = IF rest = <<>> THEN <<>> ELSE <<Head(rest)>>
        /\ queue' = IF rest = <<>> THEN <<>> ELSE Tail(rest)
        /\ discarded' = discarded
    BY <1>4 DEF CompressDone, Release
  <2>2. n \in 0 .. Len(queue)
    BY <1>s, ReadyIsIndex
  <2> HIDE DEF n
  <2>3. front \in Seq(Params) /\ rest \in Seq(Params)
    BY <1>s, <2>2
  <2>4. front \o rest = queue
    <3>1. 1 \in 1 .. Len(queue) + 1 /\ n \in (1 - 1) .. Len(queue) /\ Len(queue) \in n .. Len(queue)
      BY <1>s, <2>2
    <3>2. front \o rest = SubSeq(queue, 1, Len(queue))
      BY <1>s, <3>1, ConcatAdjacentSubSeq
    <3> QED BY <1>s, <3>2, SubSeqFull
  <2> HIDE DEF front, rest
  <2>5. job' \o queue' = rest
    <3>1. CASE rest = <<>>
      BY <2>1, <3>1
    <3>2. CASE rest # <<>>
      BY <2>1, <2>3, <3>2, HeadThenTail
    <3> QED BY <3>1, <3>2
  <2>6. /\ Bytes(queue) = Bytes(front) + Bytes(rest)
        /\ Bytes(out) = Bytes(job) + Bytes(front)
        /\ Bytes(rest) = Bytes(job') + Bytes(queue')
    <3>1. Bytes(queue) = Bytes(front) + Bytes(rest)
      BY <2>3, <2>4, BytesConcat
    <3>2. Bytes(out) = Bytes(job) + Bytes(front)
      BY <1>s, <2>3, BytesConcat
    <3>3. Bytes(rest) = Bytes(job') + Bytes(queue')
      BY <1>s, <2>5, BytesConcat
    <3> QED BY <3>1, <3>2, <3>3
  <2>7. Bytes(front) \in Nat /\ Bytes(rest) \in Nat
    BY <2>3, BytesNat
  <2>8. bufferedBytes = discarded + Bytes(job) + Bytes(queue)
    BY <1>4 DEF BufferedExact
  <2>9. bufferedBytes' = discarded' + Bytes(job') + Bytes(queue') /\ discarded' \in Nat
    <3>1. bufferedBytes' = bufferedBytes - Bytes(out) /\ discarded' = discarded
      BY <2>1
    <3> HIDE DEF out
    <3> QED BY <1>0, <1>n, <2>6, <2>7, <2>8, <3>1
  <2> QED BY <1>0, <2>9 DEF BufferedExact
<1>5. CASE WriteCallback \/ SocketEnd \/ SocketFail \/ SocketErrorEvent \/ Terminate \/ UNCHANGED vars
  <2>1. /\ UNCHANGED <<bufferedBytes, discarded, job, queue>>
        /\ socket' # "destroyed" => socket # "destroyed"
    BY <1>5 DEF WriteCallback, SocketEnd, SocketFail, SocketErrorEvent, Terminate, vars
  <2> QED BY <1>n, <2>1 DEF BufferedExact
<1> QED BY <1>1, <1>2, <1>3, <1>4, <1>5, NextSubmits DEF OtherStep

(* Nothing is buffered at first. *)
LEMMA InitBuffered == Init => TypeOK /\ BufferedExact
<1> SUFFICES ASSUME Init PROVE TypeOK /\ BufferedExact
  OBVIOUS
<1>1. StructOK
  BY InitStruct
<1> QED BY <1>1, BytesEmpty DEF Init, TypeOK, BufferedExact

(* The types and the counter of bufferedAmount need one another: the counter *)
(* stays a natural number because it is the bytes still held.                *)
LEMMA TypesAndBytes == Spec => [](TypeOK /\ BufferedExact)
<1>1. StructOK /\ StructOK' /\ TypeOK /\ BufferedExact /\ [Next]_vars => (TypeOK /\ BufferedExact)'
  BY NextBuffered DEF TypeOK
<1> QED BY <1>1, InitBuffered, StructInvariant, PTL DEF Spec

(* Every variable keeps its type, for any number of calls of any sizes; in   *)
(* particular the counter behind bufferedAmount never becomes negative.      *)
THEOREM SenderTypes == Spec => []TypeOK
BY TypesAndBytes, PTL

(* The counter behind bufferedAmount is exact while the socket lives: the    *)
(* bytes in the queue and in the compressor, whatever the order of calls,    *)
(* compressions and write callbacks.                                         *)
THEOREM BufferedAmountExact == Spec => []BufferedExact
BY TypesAndBytes, PTL

-----------------------------------------------------------------------------
(* Who is still to be answered: the writes the runtime has not reported on, *)
(* and the frames that wait while a compression is outstanding.             *)
Due(counts, c) == c \in 1 .. Len(counts) /\ counts[c] = 0

Outstanding ==
    /\ \A i \in (flushed + 1) .. Len(written) : Due(answers, i)
    /\ job # <<>> =>
          /\ \A i \in 1 .. Len(job) : job[i].call > Len(written) /\ Due(answers, job[i].call)
          /\ \A i \in 1 .. Len(queue) : queue[i].call > Len(written) /\ Due(answers, queue[i].call)

(* What running callbacks does. *)
LEMMA AnswerValue ==
    ASSUME NEW counts \in Seq(Nat), NEW cs, NEW c \in 1 .. Len(counts)
    PROVE  Answer(cs, counts)[c] = IF c \in cs THEN counts[c] + 1 ELSE counts[c]
<1>1. DOMAIN counts = 1 .. Len(counts)
  OBVIOUS
<1> QED BY <1>1 DEF Answer

(* The calls of joined sequences. *)
LEMMA CallsOf ==
    ASSUME NEW ps \in Seq(Params), NEW c
    PROVE  c \in Calls(ps) <=> \E i \in 1 .. Len(ps) : ps[i].call = c
<1>1. ToSet(ps) = {ps[i] : i \in 1 .. Len(ps)}
  BY DEF ToSet
<1> QED BY <1>1 DEF Calls

(* Where the second of two joined sequences is found. *)
LEMMA ConcatAt ==
    ASSUME NEW s \in Seq(Params), NEW t \in Seq(Params), NEW i \in 1 .. Len(t)
    PROVE  /\ Len(s) + i \in 1 .. Len(s \o t)
           /\ (s \o t)[Len(s) + i] = t[i]
OBVIOUS

(* Frames that wait are numbered behind those that were written. *)
LEMMA WaitingCalls ==
    ASSUME StructOK, SendOrder, Numbered, socket # "destroyed"
    PROVE  /\ \A i \in 1 .. Len(job) : job[i].call = Len(written) + i
           /\ \A i \in 1 .. Len(queue) : queue[i].call = Len(written) + Len(job) + i
<1>s. /\ queue \in Seq(Params) /\ job \in Seq(Params)
      /\ written \in Seq(Params) /\ accepted \in Seq(Params)
  BY DEF StructOK
<1>l. /\ Len(queue) \in Nat /\ Len(job) \in Nat
      /\ Len(written) \in Nat /\ Len(accepted) \in Nat
  BY <1>s
<1> DEFINE s == written \o job
<1>1. s \in Seq(Params) /\ Len(s) = Len(written) + Len(job) /\ job \o queue \in Seq(Params)
  BY <1>s
<1>2. s \o queue = accepted /\ written \o (job \o queue) = accepted
  BY <1>s, Assoc DEF SendOrder
<1> HIDE DEF s
<1>3. ASSUME NEW i \in 1 .. Len(job)
      PROVE  job[i].call = Len(written) + i
  <2>1. i \in 1 .. Len(job \o queue) /\ (job \o queue)[i] = job[i]
    BY <1>s
  <2>2. Len(written) + i \in 1 .. Len(accepted) /\ accepted[Len(written) + i] = job[i]
    BY <1>s, <1>1, <1>2, <2>1, ConcatAt
  <2> QED BY <2>2 DEF Numbered
<1>4. ASSUME NEW i \in 1 .. Len(queue)
      PROVE  queue[i].call = Len(written) + Len(job) + i
  <2>1. Len(s) + i \in 1 .. Len(accepted) /\ accepted[Len(s) + i] = queue[i]
    <3>1. Len(s) + i \in 1 .. Len(s \o queue) /\ (s \o queue)[Len(s) + i] = queue[i]
      BY <1>s, <1>1, ConcatAt
    <3> QED BY <1>2, <3>1
  <2> QED BY <1>1, <2>1 DEF Numbered
<1> QED BY <1>3, <1>4

(* A submitted frame is answered later, or at once if it cannot be written. *)
LEMMA SubmitOutstanding ==
    ASSUME StructOK, StructOK', SendOrder, Numbered, WrittenFirst, WrittenFirst',
           Outstanding, AnsweredOnce, NEW p \in Params, NewFrame(p), Submit(p)
    PROVE  Outstanding' /\ AnsweredOnce'
<1>s. /\ queue \in Seq(Params) /\ job \in Seq(Params)
      /\ written \in Seq(Params) /\ accepted \in Seq(Params)
  BY DEF StructOK
<1>l. /\ Len(queue) \in Nat /\ Len(job) \in Nat
      /\ Len(written) \in Nat /\ Len(accepted) \in Nat
  BY <1>s
<1>a. /\ answers \in Seq(Nat) /\ Len(answers) = Len(accepted)
      /\ DOMAIN answers = 1 .. Len(answers) /\ \A c \in 1 .. Len(answers) : answers[c] \in Nat
  <2>1. answers \in Seq(Nat) /\ Len(answers) = Len(accepted)
    BY DEF StructOK
  <2> QED BY <2>1
<1>f. flushed \in Nat /\ flushed <= Len(written)
  BY DEF StructOK
<1> DEFINE n == Len(accepted) + 1
           new == Append(answers, 0)
<1>1. p.call = n /\ flushed' = flushed
  BY DEF NewFrame
<1>2. /\ new \in Seq(Nat) /\ Len(new) = n /\ new[n] = 0
      /\ \A c \in 1 .. Len(answers) : new[c] = answers[c]
      /\ DOMAIN new = 1 .. n
  BY <1>a, <1>l
<1>3. /\ n \in Nat /\ n = Len(answers) + 1 /\ Len(written) < n
      /\ \A c \in 1 .. n : c = n \/ c \in 1 .. Len(answers)
      /\ \A c \in 1 .. Len(answers) : c \in 1 .. n /\ c # n
      /\ n \in 1 .. n
  BY <1>a, <1>l DEF WrittenFirst
<1> HIDE DEF new, n
<1>4. \A c \in 1 .. n : new[c] <= 1
  <2>1. \A c \in 1 .. Len(answers) : answers[c] <= 1
    BY <1>a DEF AnsweredOnce
  <2> QED BY <1>2, <1>3, <2>1
<1>5. /\ Due(new, n)
      /\ \A c : Due(answers, c) => Due(new, c)
  BY <1>2, <1>3 DEF Due
<1>6. CASE answers' = new
  <2>1. AnsweredOnce'
    BY <1>2, <1>4, <1>6 DEF AnsweredOnce
  <2>2. CASE deflating
    <3>1. /\ queue' = Append(queue, p)
          /\ UNCHANGED <<job, written>>
      BY <2>2 DEF Submit, Enqueue, Dispatch
    <3>2. /\ Len(queue') = Len(queue) + 1 /\ queue'[Len(queue) + 1] = p
          /\ \A i \in 1 .. Len(queue) : queue'[i] = queue[i]
      BY <1>s, <3>1
    <3>3. ASSUME job # <<>>, NEW i \in 1 .. Len(queue')
          PROVE  queue'[i].call > Len(written) /\ Due(new, queue'[i].call)
      <4>1. CASE i = Len(queue) + 1
        BY <1>1, <1>3, <1>5, <1>l, <3>2, <4>1
      <4>2. CASE i \in 1 .. Len(queue)
        BY <1>5, <3>2, <3>3, <4>2 DEF Outstanding
      <4> QED BY <1>l, <3>2, <4>1, <4>2
    <3> QED BY <1>1, <1>5, <1>6, <2>1, <3>1, <3>3 DEF Outstanding
  <2>3. CASE ~deflating /\ p.compress
    <3>1. job' = <<p>> /\ queue' = <<>> /\ written' = written
      BY <2>3 DEF Submit, Enqueue, Dispatch, StructOK
    <3>2. Len(job') = 1 /\ job'[1] = p /\ Len(queue') = 0
      BY <3>1
    <3>3. n > Len(written)
      BY <1>l, <1>3
    <3> QED BY <1>1, <1>5, <1>6, <2>1, <3>1, <3>2, <3>3 DEF Outstanding
  <2>4. CASE ~deflating /\ ~p.compress
    <3>1. SendFrames(<<p>>, Append(answers, 0)) /\ job' = <<>>
      BY <2>4 DEF Submit, Enqueue, Dispatch, StructOK
    <3>2. CASE socket = "open"
      <4>1. written' = written \o <<p>>
        BY <3>1, <3>2 DEF SendFrames
      <4>2. written = accepted
        <5>1. job = <<>> /\ queue = <<>>
          BY <2>4 DEF StructOK
        <5> QED BY <1>s, <3>2, <5>1 DEF SendOrder
      <4>3. Len(written') = n
        BY <1>s, <4>1, <4>2 DEF n
      <4>4. \A i \in (flushed + 1) .. n : Due(new, i)
        <5> TAKE i \in (flushed + 1) .. n
        <5>1. i = n \/ i \in (flushed + 1) .. Len(written)
          BY <1>f, <1>l, <4>2 DEF n
        <5> QED BY <1>5, <5>1 DEF Outstanding
      <4> QED BY <1>1, <1>6, <2>1, <3>1, <4>3, <4>4 DEF Outstanding
    <3>3. CASE socket # "open"
      <4>1. written' = written
        BY <3>1, <3>3 DEF SendFrames
      <4> QED BY <1>1, <1>5, <1>6, <2>1, <3>1, <4>1 DEF Outstanding
    <3> QED BY <3>2, <3>3
  <2> QED BY <2>2, <2>3, <2>4
<1>7. CASE answers' # new
  <2>1. /\ written' = written /\ job' = <<>>
        /\ answers' = Answer(Calls(<<p>>), new)
    BY <1>7 DEF Submit, Enqueue, Dispatch, SendFrames, StructOK, new
  <2>2. \A c : c \in Calls(<<p>>) <=> c = n
    <3>1. <<p>> \in Seq(Params) /\ Len(<<p>>) = 1 /\ <<p>>[1] = p
      OBVIOUS
    <3>2. \A c : c \in Calls(<<p>>) <=> \E i \in 1 .. 1 : <<p>>[i].call = c
      BY <3>1, CallsOf
    <3> QED BY <1>1, <3>1, <3>2
  <2>3. /\ Len(answers') = n /\ DOMAIN answers' = 1 .. n
        /\ \A c \in 1 .. n : answers'[c] = IF c = n THEN 1 ELSE new[c]
    <3>1. \A c \in 1 .. n : answers'[c] = IF c \in Calls(<<p>>) THEN new[c] + 1 ELSE new[c]
      BY <1>2, <2>1, AnswerValue
    <3>2. Len(answers') = n /\ answers' \in Seq(Nat)
      BY <1>2, <2>1, AnswerType
    <3>3. \A c \in 1 .. n : answers'[c] = IF c = n THEN 1 ELSE new[c]
      BY <1>2, <1>3, <2>2, <3>1
    <3>4. DOMAIN answers' = 1 .. n
      BY <3>2
    <3> QED BY <3>2, <3>3, <3>4
  <2>4. AnsweredOnce'
    BY <1>4, <2>3 DEF AnsweredOnce
  <2>5. \A c : Due(answers, c) => Due(answers', c)
    BY <1>2, <1>3, <2>3 DEF Due
  <2> QED BY <1>1, <2>1, <2>4, <2>5 DEF Outstanding
<1> QED BY <1>6, <1>7

(* The return of a frame from the compressor. *)
LEMMA CompressDoneOutstanding ==
    ASSUME StructOK, StructOK', SendOrder, SendOrder', Numbered, Numbered',
           WrittenFirst, Outstanding, AnsweredOnce, CompressDone
    PROVE  Outstanding' /\ AnsweredOnce'
<1>s. /\ queue \in Seq(Params) /\ job \in Seq(Params)
      /\ written \in Seq(Params) /\ accepted \in Seq(Params)
  BY DEF StructOK
<1>l. /\ Len(queue) \in Nat /\ Len(job) \in Nat
      /\ Len(written) \in Nat /\ Len(accepted) \in Nat
  BY <1>s
<1>a. /\ answers \in Seq(Nat) /\ Len(answers) = Len(accepted)
      /\ DOMAIN answers = 1 .. Len(answers) /\ \A c \in 1 .. Len(answers) : answers[c] \in Nat
  <2>1. answers \in Seq(Nat) /\ Len(answers) = Len(accepted)
    BY DEF StructOK
  <2> QED BY <2>1
<1>f. flushed \in Nat /\ flushed <= Len(written)
  BY DEF StructOK
<1>0. /\ flushed' = flushed /\ accepted' = accepted /\ job # <<>>
  BY DEF CompressDone
<1>b. /\ Len(answers') = Len(answers) /\ DOMAIN answers' = 1 .. Len(answers)
  BY <1>0, <1>a DEF StructOK
<1>1. ASSUME NEW ps \in Seq(Params), answers' = Answer(Calls(ps), answers),
             \A i \in 1 .. Len(ps) : ps[i].call > Len(written) /\ Due(answers, ps[i].call)
      PROVE  /\ AnsweredOnce'
             /\ \A c : Due(answers, c) /\ c \notin Calls(ps) => Due(answers', c)
             /\ \A i \in (flushed + 1) .. Len(written) : Due(answers', i)
  <2>1. \A c \in 1 .. Len(answers) :
            answers'[c] = IF c \in Calls(ps) THEN answers[c] + 1 ELSE answers[c]
    BY <1>1, <1>a, AnswerValue
  <2>2. \A c \in Calls(ps) : c > Len(written) /\ Due(answers, c)
    BY <1>1, CallsOf
  <2>3. AnsweredOnce'
    BY <1>a, <1>b, <2>1, <2>2 DEF AnsweredOnce, Due
  <2>4. \A c : Due(answers, c) /\ c \notin Calls(ps) => Due(answers', c)
    BY <1>b, <2>1 DEF Due
  <2>5. \A i \in (flushed + 1) .. Len(written) : Due(answers', i)
    BY <1>l, <1>f, <2>2, <2>4 DEF Outstanding
  <2> QED BY <2>3, <2>4, <2>5
<1>2. CASE socket = "destroyed"
  <2> DEFINE ps == job \o queue
  <2>1. answers' = Answer(Calls(ps), answers) /\ job' = <<>> /\ written' = written
    BY <1>2 DEF CompressDone, FailWaiting
  <2>2. ps \in Seq(Params)
    BY <1>s
  <2>3. \A i \in 1 .. Len(ps) : ps[i].call > Len(written) /\ Due(answers, ps[i].call)
    <3> TAKE i \in 1 .. Len(ps)
    <3>1. \/ i \in 1 .. Len(job) /\ ps[i] = job[i]
          \/ i - Len(job) \in 1 .. Len(queue) /\ ps[i] = queue[i - Len(job)]
      BY <1>s
    <3> HIDE DEF ps
    <3> QED BY <1>0, <3>1 DEF Outstanding
  <2> HIDE DEF ps
  <2>4. AnsweredOnce' /\ \A i \in (flushed + 1) .. Len(written) : Due(answers', i)
    BY <1>1, <2>1, <2>2, <2>3
  <2> QED BY <1>0, <2>1, <2>4 DEF Outstanding
<1>3. CASE socket # "destroyed"
  <2> DEFINE n == Ready(queue)
             front == SubSeq(queue, 1, n)
             rest == SubSeq(queue, n + 1, Len(queue))
             out == job \o front
  <2>1. /\ SendFrames(out, answers)
        /\ job' = IF rest = <<>> THEN <<>> ELSE <<Head(rest)>>
        /\ queue' = IF rest = <<>> THEN <<>> ELSE Tail(rest)
    BY <1>3 DEF CompressDone, Release
  <2>2. n \in 0 .. Len(queue)
    BY <1>s, ReadyIsIndex
  <2> HIDE DEF n
  <2>3. /\ front \in Seq(Params) /\ Len(front) = n
        /\ \A i \in 1 .. n : front[i] = queue[i]
        /\ rest \in Seq(Params) /\ Len(rest) = Len(queue) - n
        /\ \A i \in 1 .. Len(rest) : rest[i] = queue[n + i]
    BY <1>s, <2>2
  <2>4. /\ out \in Seq(Params) /\ Len(out) = Len(job) + n
        /\ \A i \in 1 .. Len(job) : out[i] = job[i]
        /\ \A i \in 1 .. n : out[Len(job) + i] = queue[i]
    BY <1>s, <2>2, <2>3
  <2> HIDE DEF front, out
  <2>5. ASSUME NEW i \in 1 .. Len(out)
        PROVE  out[i].call = Len(written) + i /\ Due(answers, out[i].call)
    <3>1. CASE i \in 1 .. Len(job)
      BY <1>0, <1>3, <2>4, <3>1, WaitingCalls DEF Outstanding
    <3>2. CASE i \notin 1 .. Len(job)
      <4> DEFINE k == i - Len(job)
      <4>1. k \in 1 .. n /\ k \in 1 .. Len(queue) /\ out[i] = queue[k] /\ Len(job) + k = i
            /\ Len(job) \in Nat
        <5>1. k \in 1 .. n /\ Len(job) + k = i
          BY <2>2, <2>4, <3>2
        <5> QED BY <2>2, <2>4, <5>1
      <4> HIDE DEF k
      <4>2. queue[k].call = Len(written) + Len(job) + k /\ Due(answers, queue[k].call)
        BY <1>0, <1>3, <4>1, WaitingCalls DEF Outstanding
      <4> QED BY <1>0, <4>1, <4>2
    <3> QED BY <3>1, <3>2
  <2>6. ASSUME NEW i \in 1 .. Len(rest)
        PROVE  rest[i].call = Len(written) + Len(out) + i /\ Due(answers, rest[i].call)
    <3>1. n + i \in 1 .. Len(queue) /\ rest[i] = queue[n + i] /\ Len(job) \in Nat
      BY <2>2, <2>3
    <3>2. queue[n + i].call = Len(written) + Len(job) + (n + i) /\ Due(answers, queue[n + i].call)
      BY <1>0, <1>3, <3>1, WaitingCalls DEF Outstanding
    <3> QED BY <1>0, <2>2, <2>4, <3>1, <3>2
  <2>7. /\ \A i \in 1 .. Len(job') : \E k \in 1 .. Len(rest) : job'[i] = rest[k]
        /\ \A i \in 1 .. Len(queue') : \E k \in 1 .. Len(rest) : queue'[i] = rest[k]
    <3>1. CASE rest = <<>>
      BY <2>1, <3>1
    <3>2. CASE rest # <<>>
      <4>1. job' = <<Head(rest)>> /\ queue' = Tail(rest)
        BY <2>1, <3>2
      <4> HIDE DEF rest
      <4>2. rest \in Seq(Params) /\ rest # <<>>
        BY <2>3, <3>2
      <4>3. Len(job') = 1 /\ job'[1] = rest[1] /\ 1 \in 1 .. Len(rest)
        BY <4>1, <4>2
      <4>4. \A i \in 1 .. Len(queue') : i + 1 \in 1 .. Len(rest) /\ queue'[i] = rest[i + 1]
        BY <4>1, <4>2
      <4>5. \A i \in 1 .. Len(job') : job'[i] = rest[1]
        BY <4>3
      <4> QED BY <4>3, <4>4, <4>5
    <3> QED BY <3>1, <3>2
  <2> HIDE DEF rest
  <2>8. CASE socket = "open"
    <3>1. written' = written \o out /\ answers' = answers
      BY <2>1, <2>8 DEF SendFrames
    <3>2. Len(written') = Len(written) + Len(out) /\ Len(out) \in Nat
      BY <2>4, <3>1
    <3>3. \A c : Due(answers, c) <=> Due(answers', c)
      BY <3>1 DEF Due
    <3>4. \A i \in (flushed + 1) .. Len(written') : Due(answers, i)
      <4> TAKE i \in (flushed + 1) .. Len(written')
      <4>1. CASE i <= Len(written)
        BY <1>0, <4>1 DEF Outstanding
      <4>2. CASE i > Len(written)
        <5>1. i - Len(written) \in 1 .. Len(out) /\ Len(written) + (i - Len(written)) = i
          BY <1>0, <3>2, <4>2
        <5> QED BY <2>5, <5>1
      <4> QED BY <1>0, <3>2, <4>1, <4>2
    <3>5. \A k \in 1 .. Len(rest) : rest[k].call > Len(written')
      BY <1>0, <2>6, <3>2
    <3>6. AnsweredOnce'
      BY <3>1 DEF AnsweredOnce
    <3> QED BY <1>0, <2>6, <2>7, <3>3, <3>4, <3>5, <3>6 DEF Outstanding
  <2>9. CASE socket # "open"
    <3>1. written' = written /\ answers' = Answer(Calls(out), answers)
      BY <2>1, <2>9 DEF SendFrames
    <3>2. \A i \in 1 .. Len(out) : out[i].call > Len(written) /\ Due(answers, out[i].call)
      BY <1>0, <2>5
    <3>3. /\ AnsweredOnce'
          /\ \A c : Due(answers, c) /\ c \notin Calls(out) => Due(answers', c)
          /\ \A i \in (flushed + 1) .. Len(written) : Due(answers', i)
      BY <1>1, <2>4, <3>1, <3>2
    <3>4. \A k \in 1 .. Len(rest) : rest[k].call > Len(written') /\ Due(answers', rest[k].call)
      <4> TAKE k \in 1 .. Len(rest)
      <4>1. rest[k].call = Len(written) + Len(out) + k /\ Due(answers, rest[k].call)
        BY <2>6
      <4>2. Len(out) \in Nat /\ k \in Nat /\ k > 0
        BY <2>4
      <4>3. rest[k].call \notin Calls(out)
        <5>1. \A i \in 1 .. Len(out) : out[i].call # rest[k].call
          BY <1>0, <2>5, <4>1, <4>2
        <5> QED BY <2>4, <5>1, CallsOf
      <4> QED BY <1>0, <3>1, <3>3, <4>1, <4>2, <4>3
    <3> QED BY <1>0, <2>7, <3>1, <3>3, <3>4 DEF Outstanding
  <2> QED BY <2>8, <2>9
<1> QED BY <1>2, <1>3

(* The other steps answer one write, or nothing. *)
LEMMA OtherOutstanding ==
    ASSUME StructOK, Numbered, WrittenFirst, Outstanding, AnsweredOnce,
           SendAfterCloses \/ WriteCallback \/ SocketEnd \/ SocketFail
           \/ SocketErrorEvent \/ Terminate \/ UNCHANGED vars
    PROVE  Outstanding' /\ AnsweredOnce'
<1>s. /\ queue \in Seq(Params) /\ job \in Seq(Params)
      /\ written \in Seq(Params) /\ accepted \in Seq(Params)
  BY DEF StructOK
<1>l. /\ Len(queue) \in Nat /\ Len(job) \in Nat
      /\ Len(written) \in Nat /\ Len(accepted) \in Nat
  BY <1>s
<1>a. /\ answers \in Seq(Nat) /\ Len(answers) = Len(accepted)
      /\ DOMAIN answers = 1 .. Len(answers) /\ \A c \in 1 .. Len(answers) : answers[c] \in Nat
  <2>1. answers \in Seq(Nat) /\ Len(answers) = Len(accepted)
    BY DEF StructOK
  <2> QED BY <2>1
<1>f. flushed \in Nat /\ flushed <= Len(written)
  BY DEF StructOK
<1>1. CASE WriteCallback
  <2> DEFINE c == flushed + 1
  <2>1. c \in 1 .. Len(written) /\ c \in 1 .. Len(accepted) /\ c \in 1 .. Len(answers)
    BY <1>1, <1>l, <1>f, <1>a DEF WriteCallback, WrittenFirst
  <2>2. written[c].call = c
    BY <2>1 DEF WrittenFirst, Numbered
  <2>3. /\ answers' = Answer({c}, answers) /\ flushed' = c
        /\ UNCHANGED <<written, job, queue>>
    BY <1>1, <2>2 DEF WriteCallback
  <2>4. /\ DOMAIN answers = 1 .. Len(answers) /\ Len(answers') = Len(answers)
        /\ DOMAIN answers' = 1 .. Len(answers)
        /\ \A i \in 1 .. Len(answers) :
              answers'[i] = IF i = c THEN answers[i] + 1 ELSE answers[i]
    <3>1. Len(answers') = Len(answers) /\ answers' \in Seq(Nat)
      BY <1>a, <2>3, AnswerType
    <3>2. \A i \in 1 .. Len(answers) :
              answers'[i] = IF i \in {c} THEN answers[i] + 1 ELSE answers[i]
      BY <1>a, <2>3, AnswerValue
    <3> QED BY <3>1, <3>2
  <2>5. Due(answers, c)
    BY <2>1 DEF Outstanding
  <2>6. \A i : Due(answers, i) /\ i # c => Due(answers', i)
    BY <2>4 DEF Due
  <2>7. AnsweredOnce'
    BY <2>4, <2>5 DEF AnsweredOnce, Due
  <2>8. \A i \in (flushed' + 1) .. Len(written') : i \in (flushed + 1) .. Len(written) /\ i # c
    BY <2>1, <2>3
  <2>9. c <= Len(written) /\ c \in Nat /\ Len(written) \in Nat
    BY <2>1
  <2> HIDE DEF c
  <2>10. ASSUME job' # <<>>
         PROVE  /\ \A i \in 1 .. Len(job') : job'[i].call > Len(written') /\ Due(answers', job'[i].call)
                /\ \A i \in 1 .. Len(queue') : queue'[i].call > Len(written') /\ Due(answers', queue'[i].call)
    <3>1. \A n : n > Len(written) => n # c
      BY <2>9
    <3> QED BY <2>3, <2>6, <2>10, <3>1 DEF Outstanding
  <2> QED BY <2>3, <2>6, <2>7, <2>8, <2>10 DEF Outstanding
<1>2. CASE UNCHANGED <<flushed, written, job, queue, answers>>
  BY <1>2 DEF Outstanding, AnsweredOnce, Due
<1> QED BY <1>1, <1>2 DEF SendAfterCloses, SendAfterClose, SocketEnd, SocketFail,
           SocketErrorEvent, Terminate, vars

(* No callback of the sender runs twice, for any number of calls and        *)
(* however the socket is ended or lost.                                     *)
THEOREM CallbacksOnce == Spec => []AnsweredOnce
<1> DEFINE Old == StructOK /\ SendOrder /\ Numbered /\ WrittenFirst
           Inv == Outstanding /\ AnsweredOnce
<1>1. Spec => []Old
  <2>1. Init => WrittenFirst
    BY DEF Init, WrittenFirst
  <2>2. StructOK /\ StructOK' /\ SendOrder /\ SendOrder' /\ WrittenFirst /\ [Next]_vars
           => WrittenFirst'
    BY NextWrittenFirst
  <2>3. Spec => []WrittenFirst
    BY <2>1, <2>2, StructInvariant, OrderKept, PTL DEF Spec
  <2> QED BY <2>3, StructInvariant, OrderKept, CloseFrameLast, PTL
<1>2. Init => Inv
  BY DEF Init, Outstanding, AnsweredOnce
<1>3. Old /\ Old' /\ Inv /\ [Next]_vars => Inv'
  <2> SUFFICES ASSUME Old, Old', Inv, [Next]_vars PROVE Inv'
    OBVIOUS
  <2>1. CASE \E p \in Params : NewFrame(p) /\ Submit(p)
    BY <2>1, SubmitOutstanding
  <2>2. CASE NoFrame /\ CompressDone
    BY <2>2, CompressDoneOutstanding
  <2>3. CASE NoFrame /\ OtherStep /\ ~CompressDone
    BY <2>3, OtherOutstanding DEF OtherStep
  <2> QED BY <2>1, <2>2, <2>3, NextSubmits
<1>4. Spec => []Inv
  BY <1>1, <1>2, <1>3, PTL DEF Spec
<1> QED BY <1>4, PTL

=============================================================================
