----------------------- MODULE PermessageDeflateProofs -----------------------
(***************************************************************************)
(* The limiter's slots and callbacks and the dictionaries of zlib in       *)
(* PermessageDeflate.tla, for any number of connections, any limits and    *)
(* any number of frames.                                                   *)
(*                                                                         *)
(* SlotsExact is not inductive: it says nothing of the jobs that wait.     *)
(* Inv adds that the calls in flight are exactly the jobs waiting or       *)
(* running, each once (Slots, Accounted), that nothing waits beside a free *)
(* slot, and that a closed stream has nothing left to answer (Closed).     *)
(***************************************************************************)
EXTENDS PermessageDeflate, TLAPS, FiniteSetTheorems

Key(j) == <<j.conn, j.dir>>

RunningIn(ss) == {k \in Conns \X Dirs : ss[k[1]][k[2]].callback # <<>>}

Queued(q) == {Key(q[i]) : i \in DOMAIN q}

Distinct(q) == \A i, k \in DOMAIN q : Key(q[i]) = Key(q[k]) => i = k

Streams == [Conns -> [Dirs -> Stream]]

(* p slots are taken by the jobs that run; those that wait are other ones. *)
Slots(p, q, ss) ==
    /\ p \in Nat /\ q \in Seq(Job) /\ ss \in Streams
    /\ p = Cardinality(RunningIn(ss)) /\ p <= concurrency
    /\ Distinct(q) /\ Queued(q) \cap RunningIn(ss) = {}

Busy == {k \in Conns \X Dirs : InFlight(k[1], k[2])}

Accounted ==
    /\ Busy = Queued(jobs) \cup RunningIn(streams)
    /\ \A c \in Conns, d \in Dirs : asked[c][d] - answered[c][d] \in {0, 1}

(* There is a limiter before there is a call. *)
Made ==
    /\ concurrency = 0 => instances = {}
    /\ \A c \in Conns \ instances, d \in Dirs : ~InFlight(c, d)

(* A flush() that outlives its stream finds none in its place. *)
Closed ==
    \A c \in Conns : stale[c] # <<>> =>
        /\ c \in cleaned
        /\ ~InFlight(c, "deflate")
        /\ ~streams[c].deflate.open

Inv == TypeOK /\ Slots(pending, jobs, streams) /\ NoIdleSlot /\ Accounted /\ Made /\ Closed

-----------------------------------------------------------------------------
(* There are finitely many places where a job can run. *)
LEMMA RunningFinite == \A ss : IsFiniteSet(RunningIn(ss))
  <1>1. IsFiniteSet(Dirs)
    <2>1. IsFiniteSet({} \cup {"deflate"})
      BY FS_EmptySet, FS_AddElement
    <2>2. IsFiniteSet(({} \cup {"deflate"}) \cup {"inflate"})
      BY <2>1, FS_AddElement
    <2>3. Dirs = ({} \cup {"deflate"}) \cup {"inflate"}
      BY DEF Dirs
    <2> QED
      BY <2>2, <2>3
  <1>2. IsFiniteSet(Conns \X Dirs)
    BY <1>1, DeflateAssumption, FS_Product
  <1>3. TAKE ss
  <1>4. RunningIn(ss) \in SUBSET (Conns \X Dirs)
    BY DEF RunningIn
  <1> QED
    BY <1>2, <1>4, FS_Subset

(* A started job runs in its own stream and disturbs no other. *)
LEMMA StartOK ==
  ASSUME NEW ss \in Streams, NEW j \in Job
  PROVE  /\ Start(ss, j) \in Streams
         /\ RunningIn(Start(ss, j)) = RunningIn(ss) \cup {Key(j)}
         /\ \A c \in Conns, d \in Dirs :
              <<c, d>> # Key(j) => Start(ss, j)[c][d] = ss[c][d]
  <1>1. j.conn \in Conns /\ j.dir \in Dirs /\ j.n \in Nat
    BY DEF Job
  <1> DEFINE s == ss[j.conn][j.dir]
             r == IF s.open THEN s ELSE Idle(j.n)
             t == [r EXCEPT !.callback = <<j>>]
             st == Start(ss, j)
  <1>2. s \in Stream
    BY <1>1 DEF Streams
  <1>3. <<j>> \in Seq(Job) /\ <<j>> # <<>>
    OBVIOUS
  <1>4. t \in Stream /\ t.callback = <<j>>
    <2>1. r \in Stream
      BY <1>1, <1>2 DEF Stream, Idle
    <2> HIDE DEF r
    <2> QED
      BY <1>3, <2>1 DEF Stream
  <1>5. st = [ss EXCEPT ![j.conn][j.dir] = t]
    BY DEF Start
  <1> HIDE DEF s, r, t, st
  <1>6. st \in Streams
    BY <1>1, <1>4, <1>5 DEF Streams
  <1>7. \A c \in Conns, d \in Dirs : st[c][d] = IF <<c, d>> = Key(j) THEN t ELSE ss[c][d]
    BY <1>1, <1>5 DEF Streams, Key
  <1>8. RunningIn(st) = RunningIn(ss) \cup {Key(j)}
    BY <1>1, <1>3, <1>4, <1>7 DEF RunningIn, Key
  <1> QED
    BY <1>6, <1>7, <1>8 DEF st

(* What is left of a queue: the other jobs, still distinct. *)
LEMMA TailOK ==
  ASSUME NEW q \in Seq(Job), q # <<>>, Distinct(q)
  PROVE  /\ Head(q) \in Job /\ Tail(q) \in Seq(Job) /\ Distinct(Tail(q))
         /\ Len(Tail(q)) = Len(q) - 1
         /\ Queued(Tail(q)) = Queued(q) \ {Key(Head(q))}
         /\ Key(Head(q)) \in Queued(q)
  <1>1. Head(q) = q[1] /\ Head(q) \in Job /\ Tail(q) \in Seq(Job)
    OBVIOUS
  <1>2. Len(q) \in Nat /\ Len(q) >= 1 /\ Len(Tail(q)) = Len(q) - 1
    OBVIOUS
  <1>3. DOMAIN q = 1 .. Len(q) /\ DOMAIN Tail(q) = 1 .. Len(q) - 1
    BY <1>1, <1>2
  <1>4. \A i \in 1 .. Len(q) - 1 : Tail(q)[i] = q[i + 1]
    BY <1>2
  <1>5. Distinct(Tail(q))
    <2> SUFFICES ASSUME NEW i \in 1 .. Len(q) - 1, NEW k \in 1 .. Len(q) - 1,
                        Key(Tail(q)[i]) = Key(Tail(q)[k])
                 PROVE  i = k
      BY <1>3 DEF Distinct
    <2>1. i + 1 \in DOMAIN q /\ k + 1 \in DOMAIN q
      BY <1>2, <1>3
    <2>2. i + 1 = k + 1
      BY <1>4, <2>1, Distinct(q) DEF Distinct
    <2> QED
      BY <2>2
  <1>6. Queued(Tail(q)) \subseteq Queued(q) \ {Key(Head(q))}
    <2> SUFFICES ASSUME NEW i \in 1 .. Len(q) - 1
                 PROVE  Key(Tail(q)[i]) \in Queued(q) /\ Key(Tail(q)[i]) # Key(Head(q))
      BY <1>3 DEF Queued
    <2>1. i + 1 \in DOMAIN q /\ 1 \in DOMAIN q /\ i + 1 # 1
      BY <1>2, <1>3
    <2>2. Key(q[i + 1]) # Key(q[1])
      BY <2>1, Distinct(q) DEF Distinct
    <2> QED
      BY <1>1, <1>4, <2>1, <2>2 DEF Queued
  <1>7. Queued(q) \ {Key(Head(q))} \subseteq Queued(Tail(q))
    <2> SUFFICES ASSUME NEW i \in 1 .. Len(q), Key(q[i]) # Key(Head(q))
                 PROVE  Key(q[i]) \in Queued(Tail(q))
      BY <1>3 DEF Queued
    <2>1. i # 1
      BY <1>1
    <2>2. i - 1 \in 1 .. Len(q) - 1 /\ i = (i - 1) + 1
      BY <2>1, <1>2
    <2>3. Tail(q)[i - 1] = q[i]
      BY <1>4, <2>2
    <2> QED
      BY <1>3, <2>2, <2>3 DEF Queued
  <1> QED
    BY <1>1, <1>2, <1>3, <1>5, <1>6, <1>7 DEF Queued

(* A job of another key may join the queue. *)
LEMMA AppendOK ==
  ASSUME NEW q \in Seq(Job), Distinct(q), NEW j \in Job, Key(j) \notin Queued(q)
  PROVE  /\ Append(q, j) \in Seq(Job) /\ Append(q, j) # <<>>
         /\ Len(Append(q, j)) = Len(q) + 1
         /\ Distinct(Append(q, j))
         /\ Queued(Append(q, j)) = Queued(q) \cup {Key(j)}
  <1> DEFINE a == Append(q, j)
  <1>1. /\ a \in Seq(Job) /\ a # <<>> /\ Len(a) = Len(q) + 1 /\ Len(q) \in Nat
        /\ \A i \in 1 .. Len(q) : a[i] = q[i]
        /\ a[Len(q) + 1] = j
    OBVIOUS
  <1>2. DOMAIN q = 1 .. Len(q) /\ DOMAIN a = 1 .. Len(q) + 1
    BY <1>1
  <1> HIDE DEF a
  <1>3. \A i \in 1 .. Len(q) : Key(a[i]) \in Queued(q)
    BY <1>1, <1>2 DEF Queued
  <1>4. Distinct(a)
    <2> SUFFICES ASSUME NEW i \in 1 .. Len(q) + 1, NEW k \in 1 .. Len(q) + 1,
                        Key(a[i]) = Key(a[k])
                 PROVE  i = k
      BY <1>2 DEF Distinct
    <2>1. CASE i \in 1 .. Len(q) /\ k \in 1 .. Len(q)
      <3>1. Key(q[i]) = Key(q[k])
        BY <1>1, <2>1
      <3> QED
        BY <1>2, <2>1, <3>1, Distinct(q) DEF Distinct
    <2>2. CASE i \in 1 .. Len(q) /\ k = Len(q) + 1
      BY <1>1, <1>3, <2>2
    <2>3. CASE i = Len(q) + 1 /\ k \in 1 .. Len(q)
      BY <1>1, <1>3, <2>3
    <2>4. (i \in 1 .. Len(q) \/ i = Len(q) + 1) /\ (k \in 1 .. Len(q) \/ k = Len(q) + 1)
      BY <1>1
    <2> QED
      BY <2>1, <2>2, <2>3, <2>4
  <1>5. Queued(a) = Queued(q) \cup {Key(j)}
    <2>1. Queued(a) \subseteq Queued(q) \cup {Key(j)}
      <3> SUFFICES ASSUME NEW i \in 1 .. Len(q) + 1
                   PROVE  Key(a[i]) \in Queued(q) \cup {Key(j)}
        BY <1>2 DEF Queued
      <3>1. i \in 1 .. Len(q) \/ i = Len(q) + 1
        BY <1>1
      <3> QED
        BY <1>1, <1>3, <3>1
    <2>2. \A i \in 1 .. Len(q) : Key(q[i]) \in Queued(a)
      <3> TAKE i \in 1 .. Len(q)
      <3>1. i \in DOMAIN a /\ a[i] = q[i]
        BY <1>1, <1>2
      <3> QED
        BY <3>1 DEF Queued
    <2>3. Key(j) \in Queued(a)
      <3>1. Len(q) + 1 \in DOMAIN a
        BY <1>1, <1>2
      <3> QED
        BY <1>1, <3>1 DEF Queued
    <2> QED
      BY <1>2, <2>1, <2>2, <2>3 DEF Queued
  <1> QED
    BY <1>1, <1>4, <1>5 DEF a

(* Limiter[kRun]() keeps account of the slots and fills a free one; what was *)
(* waiting or running still is.                                              *)
LEMMA RunOK ==
  ASSUME concurrency \in Nat, NEW p, NEW q, NEW ss, Slots(p, q, ss),
         q # <<>> => p = concurrency \/ p = concurrency - 1 \/ Len(q) = 1,
         Run(p, q, ss)
  PROVE  /\ Slots(pending', jobs', streams')
         /\ jobs' # <<>> => pending' = concurrency
         /\ Queued(jobs') \cup RunningIn(streams') = Queued(q) \cup RunningIn(ss)
         /\ \A c \in Conns, d \in Dirs :
              <<c, d>> \notin Queued(q) => streams'[c][d] = ss[c][d]
  <1>1. CASE p = concurrency \/ q = <<>>
    <2>1. pending' = p /\ jobs' = q /\ streams' = ss
      BY <1>1 DEF Run
    <2> QED
      BY <1>1, <2>1
  <1>2. CASE p # concurrency /\ q # <<>>
    <2>1. pending' = p + 1 /\ jobs' = Tail(q) /\ streams' = Start(ss, Head(q))
      BY <1>2 DEF Run
    <2>2. /\ p \in Nat /\ q \in Seq(Job) /\ ss \in Streams /\ p <= concurrency
          /\ p = Cardinality(RunningIn(ss))
          /\ Distinct(q) /\ Queued(q) \cap RunningIn(ss) = {}
      BY DEF Slots
    <2>3. /\ Head(q) \in Job /\ Tail(q) \in Seq(Job) /\ Distinct(Tail(q))
          /\ Len(Tail(q)) = Len(q) - 1
          /\ Queued(Tail(q)) = Queued(q) \ {Key(Head(q))}
          /\ Key(Head(q)) \in Queued(q)
      BY <1>2, <2>2, TailOK
    <2>4. /\ streams' \in Streams
          /\ RunningIn(streams') = RunningIn(ss) \cup {Key(Head(q))}
          /\ \A c \in Conns, d \in Dirs : <<c, d>> # Key(Head(q)) => streams'[c][d] = ss[c][d]
      BY <2>1, <2>2, <2>3, StartOK
    <2>5. Cardinality(RunningIn(streams')) = p + 1
      <3>1. Key(Head(q)) \notin RunningIn(ss)
        BY <2>2, <2>3
      <3> QED
        BY <2>2, <2>4, <3>1, RunningFinite, FS_AddElement
    <2>6. pending' \in Nat /\ pending' <= concurrency
      BY <1>2, <2>1, <2>2
    <2>7. Slots(pending', jobs', streams')
      BY <2>1, <2>2, <2>3, <2>4, <2>5, <2>6 DEF Slots
    <2>8. jobs' # <<>> => pending' = concurrency
      <3>1. ASSUME jobs' # <<>> PROVE Len(q) # 1
        BY <2>1, <2>3, <3>1
      <3> QED
        BY <1>2, <2>1, <2>2, <3>1
    <2> QED
      BY <2>1, <2>3, <2>4, <2>7, <2>8
  <1> QED
    BY <1>1, <1>2

(* What a call or an answer must leave behind, but for the other variables. *)
Kept ==
    /\ Slots(pending', jobs', streams')
    /\ NoIdleSlot'
    /\ Accounted'
    /\ asked' \in [Conns -> [Dirs -> Nat]]
    /\ answered' \in [Conns -> [Dirs -> Nat]]

(* A call made where none is in flight. *)
LEMMA CallOK ==
  ASSUME Inv, NEW c \in Conns, NEW d \in Dirs, NEW fin \in BOOLEAN,
         concurrency # 0, ~InFlight(c, d), Call(c, d, fin)
  PROVE  /\ Kept
         /\ dict' \in [Conns -> [Dirs -> Nat]]
         /\ \A x \in Conns, y \in Dirs : <<x, y>> # <<c, d>> =>
              /\ InFlight(x, y)' <=> InFlight(x, y)
              /\ ~InFlight(x, y) => streams'[x][y] = streams[x][y]
  <1> DEFINE n == asked[c][d] + 1
             j == [conn |-> c, dir |-> d, n |-> n, dict |-> dict[c][d], fin |-> fin]
             q == Append(jobs, j)
  <1>1. /\ asked \in [Conns -> [Dirs -> Nat]] /\ answered \in [Conns -> [Dirs -> Nat]]
        /\ dict \in [Conns -> [Dirs -> Nat]]
        /\ concurrency \in Nat /\ pending \in Nat /\ jobs \in Seq(Job)
    BY DEF Inv, TypeOK
  <1>2. asked' = [asked EXCEPT ![c][d] = n] /\ answered' = answered
    BY DEF Call
  <1>3. dict' \in [Conns -> [Dirs -> Nat]]
    <2>1. dict' = [dict EXCEPT ![c][d] = n + 1] \/ dict' = dict
      BY DEF Call
    <2>2. n + 1 \in Nat
      BY <1>1
    <2> HIDE DEF n
    <2>3. [dict EXCEPT ![c][d] = n + 1] \in [Conns -> [Dirs -> Nat]]
      BY <1>1, <2>2
    <2> QED
      BY <1>1, <2>1, <2>3
  <1>4. Run(pending, q, streams)
    BY DEF Call, Add
  <1>5. j \in Job /\ Key(j) = <<c, d>>
    BY <1>1 DEF Job, Key
  <1> HIDE DEF j, q
  <1>6. /\ Slots(pending, jobs, streams) /\ NoIdleSlot
        /\ Busy = Queued(jobs) \cup RunningIn(streams)
        /\ \A x \in Conns, y \in Dirs : asked[x][y] - answered[x][y] \in {0, 1}
    BY DEF Inv, Accounted
  <1>7. <<c, d>> \notin Queued(jobs) /\ <<c, d>> \notin RunningIn(streams)
    BY <1>6 DEF Busy
  <1>8. /\ q \in Seq(Job) /\ q # <<>> /\ Len(q) = Len(jobs) + 1 /\ Distinct(q)
        /\ Queued(q) = Queued(jobs) \cup {<<c, d>>}
    BY <1>1, <1>5, <1>6, <1>7, AppendOK DEF Slots, q
  <1>9. Slots(pending, q, streams)
    BY <1>6, <1>7, <1>8 DEF Slots
  <1>10. pending = concurrency \/ Len(q) = 1
    BY <1>6, <1>8 DEF NoIdleSlot
  <1>11. /\ Slots(pending', jobs', streams')
         /\ jobs' # <<>> => pending' = concurrency
         /\ Queued(jobs') \cup RunningIn(streams') = Queued(q) \cup RunningIn(streams)
         /\ \A x \in Conns, y \in Dirs :
              <<x, y>> \notin Queued(q) => streams'[x][y] = streams[x][y]
    BY <1>1, <1>4, <1>9, <1>10, RunOK
  <1>12. \A x \in Conns, y \in Dirs :
           asked'[x][y] = IF <<x, y>> = <<c, d>> THEN n ELSE asked[x][y]
    BY <1>1, <1>2
  <1>13. asked[c][d] = answered[c][d]
    <2>1. asked[c][d] \in Nat /\ answered[c][d] \in Nat
      BY <1>1
    <2>2. asked[c][d] - answered[c][d] \in {0, 1}
      BY <1>6
    <2>3. ~(answered[c][d] < asked[c][d])
      BY DEF InFlight
    <2> QED
      BY <2>1, <2>2, <2>3
  <1>14. \A x \in Conns, y \in Dirs :
           InFlight(x, y)' <=> InFlight(x, y) \/ <<x, y>> = <<c, d>>
    BY <1>1, <1>2, <1>12, <1>13 DEF InFlight
  <1>15. Busy' = Busy \cup {<<c, d>>}
    BY <1>14 DEF Busy
  <1>16. Accounted'
    <2>1. Busy' = Queued(jobs') \cup RunningIn(streams')
      BY <1>6, <1>8, <1>11, <1>15
    <2>2. \A x \in Conns, y \in Dirs : asked'[x][y] - answered'[x][y] \in {0, 1}
      <3> SUFFICES ASSUME NEW x \in Conns, NEW y \in Dirs
                   PROVE  asked'[x][y] - answered'[x][y] \in {0, 1}
        OBVIOUS
      <3>1. CASE <<x, y>> = <<c, d>>
        <4>1. asked'[c][d] = n /\ answered'[c][d] = answered[c][d]
          BY <1>2, <1>12
        <4> QED
          BY <1>1, <1>13, <3>1, <4>1
      <3>2. CASE <<x, y>> # <<c, d>>
        BY <1>2, <1>6, <1>12, <3>2
      <3> QED
        BY <3>1, <3>2
    <2> QED
      BY <2>1, <2>2 DEF Accounted, Busy, Queued, RunningIn
  <1>17. concurrency' = concurrency
    BY DEF Call
  <1>18. asked' \in [Conns -> [Dirs -> Nat]] /\ answered' \in [Conns -> [Dirs -> Nat]]
    BY <1>1, <1>2
  <1>19. NoIdleSlot'
    BY <1>11, <1>17 DEF NoIdleSlot
  <1>20. ASSUME NEW x \in Conns, NEW y \in Dirs, <<x, y>> # <<c, d>>, ~InFlight(x, y)
         PROVE  streams'[x][y] = streams[x][y]
    <2>1. <<x, y>> \notin Queued(q)
      BY <1>6, <1>8, <1>20 DEF Busy
    <2> QED
      BY <1>11, <2>1
  <1> QED
    BY <1>3, <1>11, <1>14, <1>16, <1>18, <1>19, <1>20 DEF Kept

(* done() and the callback of a job whose stream has let go of it. *)
LEMMA AnswerOK ==
  ASSUME Inv, NEW c \in Conns, NEW d \in Dirs, Running(c, d),
         NEW ss \in Streams, RunningIn(ss) = RunningIn(streams) \ {<<c, d>>},
         Answer(c, d, ss), UNCHANGED <<concurrency, asked>>
  PROVE  /\ Kept
         /\ \A x \in Conns, y \in Dirs :
              /\ InFlight(x, y)' => InFlight(x, y)
              /\ ~InFlight(x, y)' => streams'[x][y] = ss[x][y]
         /\ ~InFlight(c, d)'
  <1>1. /\ asked \in [Conns -> [Dirs -> Nat]] /\ answered \in [Conns -> [Dirs -> Nat]]
        /\ concurrency \in Nat /\ pending \in Nat /\ jobs \in Seq(Job)
    BY DEF Inv, TypeOK
  <1>2. /\ Slots(pending, jobs, streams) /\ NoIdleSlot
        /\ Busy = Queued(jobs) \cup RunningIn(streams)
        /\ \A x \in Conns, y \in Dirs : asked[x][y] - answered[x][y] \in {0, 1}
    BY DEF Inv, Accounted
  <1>3. answered' = [answered EXCEPT ![c][d] = answered[c][d] + 1] /\ asked' = asked
    BY DEF Answer
  <1>4. Run(pending - 1, jobs, ss)
    BY DEF Answer, Done
  <1>5. <<c, d>> \in RunningIn(streams)
    BY DEF Running, RunningIn
  <1>6. Slots(pending - 1, jobs, ss)
    <2>1. pending = Cardinality(RunningIn(streams)) /\ pending <= concurrency
      BY <1>2 DEF Slots
    <2>2. Cardinality(RunningIn(ss)) = pending - 1
      BY <1>5, <2>1, RunningFinite, FS_RemoveElement
    <2>3. Cardinality(RunningIn(ss)) \in Nat
      BY RunningFinite, FS_CardinalityType
    <2>4. pending - 1 \in Nat /\ pending - 1 <= concurrency
      BY <1>1, <2>1, <2>2, <2>3
    <2>5. Distinct(jobs) /\ Queued(jobs) \cap RunningIn(ss) = {}
      BY <1>2 DEF Slots
    <2> QED
      BY <1>1, <2>2, <2>4, <2>5 DEF Slots
  <1>7. jobs # <<>> => pending - 1 = concurrency - 1
    BY <1>2 DEF NoIdleSlot
  <1>8. /\ Slots(pending', jobs', streams')
        /\ jobs' # <<>> => pending' = concurrency
        /\ Queued(jobs') \cup RunningIn(streams') = Queued(jobs) \cup RunningIn(ss)
        /\ \A x \in Conns, y \in Dirs :
             <<x, y>> \notin Queued(jobs) => streams'[x][y] = ss[x][y]
    BY <1>1, <1>4, <1>6, <1>7, RunOK
  <1>9. <<c, d>> \notin Queued(jobs) /\ <<c, d>> \in Busy
    BY <1>2, <1>5 DEF Slots
  <1>10. \A x \in Conns, y \in Dirs :
           answered'[x][y] = IF <<x, y>> = <<c, d>> THEN answered[c][d] + 1 ELSE answered[x][y]
    BY <1>1, <1>3
  <1>11. asked[c][d] = answered[c][d] + 1
    <2>1. InFlight(c, d)
      BY <1>9 DEF Busy
    <2>2. asked[c][d] - answered[c][d] \in {0, 1}
      BY <1>2
    <2> QED
      BY <1>1, <2>1, <2>2 DEF InFlight
  <1>12. \A x \in Conns, y \in Dirs :
           InFlight(x, y)' <=> InFlight(x, y) /\ <<x, y>> # <<c, d>>
    BY <1>1, <1>3, <1>10, <1>11 DEF InFlight
  <1>13. Busy' = Busy \ {<<c, d>>}
    BY <1>12 DEF Busy
  <1>14. Accounted'
    <2>1. Busy' = Queued(jobs') \cup RunningIn(streams')
      BY <1>2, <1>8, <1>9, <1>13
    <2>2. \A x \in Conns, y \in Dirs : asked'[x][y] - answered'[x][y] \in {0, 1}
      <3> SUFFICES ASSUME NEW x \in Conns, NEW y \in Dirs
                   PROVE  asked'[x][y] - answered'[x][y] \in {0, 1}
        OBVIOUS
      <3>1. CASE <<x, y>> = <<c, d>>
        <4>1. answered'[c][d] = answered[c][d] + 1 /\ asked'[c][d] = asked[c][d]
          BY <1>3, <1>10
        <4> QED
          BY <1>1, <1>11, <3>1, <4>1
      <3>2. CASE <<x, y>> # <<c, d>>
        BY <1>2, <1>3, <1>10, <3>2
      <3> QED
        BY <3>1, <3>2
    <2> QED
      BY <2>1, <2>2 DEF Accounted, Busy, Queued, RunningIn
  <1>15. asked' \in [Conns -> [Dirs -> Nat]] /\ answered' \in [Conns -> [Dirs -> Nat]]
    BY <1>1, <1>3
  <1>16. NoIdleSlot'
    BY <1>8 DEF NoIdleSlot
  <1>17. ASSUME NEW x \in Conns, NEW y \in Dirs, ~InFlight(x, y)'
         PROVE  streams'[x][y] = ss[x][y]
    <2>1. <<x, y>> \notin Queued(jobs)
      BY <1>2, <1>9, <1>12, <1>17 DEF Busy
    <2> QED
      BY <1>8, <2>1
  <1> QED
    BY <1>8, <1>12, <1>14, <1>15, <1>16, <1>17 DEF Kept

-----------------------------------------------------------------------------
(* Nothing is asked of a process that has just started. *)
LEMMA InitInv == Init => Inv
  <1> SUFFICES ASSUME Init PROVE Inv
    OBVIOUS
  <1>1. Null \in Stream /\ Null.callback = <<>>
    BY DEF Null, Stream
  <1> DEFINE none == [c \in Conns |-> [d \in Dirs |-> Null]]
  <1>2. none \in Streams /\ \A c \in Conns, d \in Dirs : none[c][d] = Null
    BY <1>1 DEF Streams
  <1>3. streams = none /\ jobs = <<>> /\ pending = 0 /\ concurrency = 0 /\ instances = {}
    BY DEF Init
  <1> HIDE DEF none
  <1>4. RunningIn(streams) = {} /\ Queued(jobs) = {} /\ Distinct(jobs)
    BY <1>1, <1>2, <1>3 DEF RunningIn, Queued, Distinct
  <1>5. /\ asked \in [Conns -> [Dirs -> Nat]] /\ answered \in [Conns -> [Dirs -> Nat]]
        /\ dict \in [Conns -> [Dirs -> Nat]]
        /\ \A c \in Conns, d \in Dirs : asked[c][d] = 0 /\ answered[c][d] = 0
    BY DEF Init
  <1>6. \A c \in Conns, d \in Dirs : ~InFlight(c, d)
    BY <1>5 DEF InFlight
  <1>7. TypeOK
    BY <1>2, <1>3, <1>5 DEF Init, TypeOK, Streams
  <1>8. Slots(pending, jobs, streams)
    BY <1>2, <1>3, <1>4, FS_EmptySet DEF Slots
  <1>9. Accounted
    <2>1. Busy = {}
      BY <1>6 DEF Busy
    <2> QED
      BY <1>4, <1>5, <2>1 DEF Accounted
  <1>10. Made /\ NoIdleSlot
    BY <1>3, <1>6 DEF Made, NoIdleSlot
  <1>11. Closed
    BY DEF Init, Closed
  <1> QED
    BY <1>7, <1>8, <1>9, <1>10, <1>11 DEF Inv

(* The part of Inv that Kept leaves to the actions. *)
LEMMA KeptInv ==
  ASSUME Inv, Kept, Closed', Made',
         instances' = instances, concurrency' = concurrency,
         cleaned' \subseteq instances, stale' \in [Conns -> Seq(Job)],
         dict' \in [Conns -> [Dirs -> Nat]], failure' \in [Conns -> {0, 1007, 1009}]
  PROVE  Inv'
  <1>1. /\ instances \subseteq Conns /\ concurrency \in Nat
        /\ pending' \in Nat /\ jobs' \in Seq(Job)
        /\ streams' \in [Conns -> [Dirs -> Stream]]
    BY DEF Inv, TypeOK, Kept, Slots, Streams
  <1>2. TypeOK'
    BY <1>1 DEF TypeOK, Kept
  <1>3. Slots(pending, jobs, streams)'
    BY DEF Kept, Slots, RunningIn, Queued, Key, Distinct
  <1> QED
    BY <1>2, <1>3 DEF Inv, Kept

LEMMA CompressInv ==
  ASSUME Inv, NEW c \in Conns, NEW d \in Dirs, NEW fin \in BOOLEAN,
         c \in instances \ cleaned, ~InFlight(c, d), Call(c, d, fin)
  PROVE  Inv'
  <1>1. concurrency # 0
    BY DEF Inv, Made
  <1>2. /\ Kept
        /\ dict' \in [Conns -> [Dirs -> Nat]]
        /\ \A x \in Conns, y \in Dirs : <<x, y>> # <<c, d>> =>
             /\ InFlight(x, y)' <=> InFlight(x, y)
             /\ ~InFlight(x, y) => streams'[x][y] = streams[x][y]
    BY <1>1, CallOK
  <1>3. UNCHANGED <<instances, concurrency, stale, failure, cleaned>>
    BY DEF Call
  <1>4. Closed'
    <2> SUFFICES ASSUME NEW x \in Conns, stale[x] # <<>>
                 PROVE  /\ x \in cleaned /\ ~InFlight(x, "deflate")'
                        /\ ~streams'[x].deflate.open
      BY <1>3 DEF Closed
    <2>1. x \in cleaned /\ ~InFlight(x, "deflate") /\ ~streams[x].deflate.open
      BY DEF Inv, Closed
    <2>2. <<x, "deflate">> # <<c, d>> /\ "deflate" \in Dirs
      BY <2>1 DEF Dirs
    <2> QED
      BY <1>2, <2>1, <2>2
  <1>5. Made'
    <2>1. \A x \in Conns \ instances, y \in Dirs : ~InFlight(x, y)'
      <3> TAKE x \in Conns \ instances, y \in Dirs
      <3>1. <<x, y>> # <<c, d>> /\ ~InFlight(x, y)
        BY DEF Inv, Made
      <3> QED
        BY <1>2, <3>1
    <2> QED
      BY <1>1, <1>3, <2>1 DEF Made, InFlight
  <1>6. /\ cleaned \subseteq instances /\ stale \in [Conns -> Seq(Job)]
        /\ failure \in [Conns -> {0, 1007, 1009}]
    BY DEF Inv, TypeOK
  <1> QED
    BY <1>2, <1>3, <1>4, <1>5, <1>6, KeptInv

(* An answer, whatever becomes of its stream. *)
LEMMA AnswerInv ==
  ASSUME Inv, NEW c \in Conns, NEW d \in Dirs, Running(c, d),
         NEW s \in Stream, s.callback = <<>>,
         Answer(c, d, [streams EXCEPT ![c][d] = s]),
         UNCHANGED <<instances, concurrency, asked, stale, cleaned>>,
         dict' \in [Conns -> [Dirs -> Nat]], failure' \in [Conns -> {0, 1007, 1009}]
  PROVE  Inv'
  <1> DEFINE ss == [streams EXCEPT ![c][d] = s]
  <1>1. streams \in Streams
    BY DEF Inv, Slots
  <1>2. ss \in Streams
    BY <1>1 DEF Streams
  <1>3. \A x \in Conns, y \in Dirs : ss[x][y] = IF <<x, y>> = <<c, d>> THEN s ELSE streams[x][y]
    BY <1>1 DEF Streams
  <1>4. Answer(c, d, ss)
    OBVIOUS
  <1> HIDE DEF ss
  <1>5. RunningIn(ss) = RunningIn(streams) \ {<<c, d>>}
    BY <1>3 DEF RunningIn
  <1>6. /\ Kept
        /\ \A x \in Conns, y \in Dirs :
             /\ InFlight(x, y)' => InFlight(x, y)
             /\ ~InFlight(x, y)' => streams'[x][y] = ss[x][y]
        /\ ~InFlight(c, d)'
    BY <1>2, <1>4, <1>5, AnswerOK
  <1>7. InFlight(c, d)
    <2>1. <<c, d>> \in Busy
      BY DEF Inv, Accounted, Running, RunningIn
    <2> QED
      BY <2>1 DEF Busy
  <1>8. Closed'
    <2> SUFFICES ASSUME NEW x \in Conns, stale[x] # <<>>
                 PROVE  /\ x \in cleaned /\ ~InFlight(x, "deflate")'
                        /\ ~streams'[x].deflate.open
      BY DEF Closed
    <2>1. x \in cleaned /\ ~InFlight(x, "deflate") /\ ~streams[x].deflate.open
      BY DEF Inv, Closed
    <2>2. <<x, "deflate">> # <<c, d>> /\ "deflate" \in Dirs
      BY <1>7, <2>1 DEF Dirs
    <2> QED
      BY <1>3, <1>6, <2>1, <2>2
  <1>9. Made'
    <2>1. \A x \in Conns \ instances, y \in Dirs : ~InFlight(x, y)'
      BY <1>6 DEF Inv, Made
    <2> QED
      BY <2>1 DEF Inv, Made, InFlight
  <1>10. cleaned \subseteq instances /\ stale \in [Conns -> Seq(Job)]
    BY DEF Inv, TypeOK
  <1> QED
    BY <1>6, <1>8, <1>9, <1>10, KeptInv

(* The constructor: the first one gives the limiter its slots. *)
LEMMA ConstructInv ==
  ASSUME Inv, NEW c \in Conns, Construct(c)
  PROVE  Inv'
  <1>1. /\ instances' = instances \cup {c}
        /\ concurrency' = IF concurrency = 0 THEN Limit[c] ELSE concurrency
        /\ UNCHANGED <<pending, jobs, streams, stale, asked, answered, dict, failure, cleaned>>
    BY DEF Construct
  <1>2. Limit[c] \in Nat /\ Limit[c] # 0 /\ concurrency \in Nat
    BY DeflateAssumption DEF Inv, TypeOK
  <1>3. concurrency' \in Nat /\ concurrency' # 0 /\ concurrency <= concurrency'
    BY <1>1, <1>2
  <1>4. TypeOK'
    BY <1>1, <1>3 DEF Inv, TypeOK
  <1>5. Slots(pending, jobs, streams)'
    <2>1. Slots(pending, jobs, streams)
      BY DEF Inv
    <2>2. pending <= concurrency'
      BY <1>2, <1>3, <2>1 DEF Slots
    <2> QED
      BY <1>1, <2>1, <2>2 DEF Slots, RunningIn, Queued, Key, Distinct
  <1>6. NoIdleSlot'
    <2>1. CASE concurrency = 0
      <3>1. Busy = {}
        BY <2>1 DEF Inv, Made, Busy
      <3>2. Queued(jobs) = {} /\ jobs \in Seq(Job)
        BY <3>1 DEF Inv, Accounted, TypeOK
      <3>3. jobs = <<>>
        <4>1. ASSUME jobs # <<>> PROVE FALSE
          <5>1. 1 \in DOMAIN jobs
            BY <3>2, <4>1
          <5> QED
            BY <3>2, <5>1 DEF Queued
        <4> QED
          BY <4>1
      <3> QED
        BY <1>1, <3>3 DEF NoIdleSlot
    <2>2. CASE concurrency # 0
      BY <1>1, <2>2 DEF Inv, NoIdleSlot
    <2> QED
      BY <2>1, <2>2
  <1>7. Accounted'
    BY <1>1 DEF Inv, Accounted, Busy, InFlight, Queued, RunningIn, Key
  <1>8. Made'
    BY <1>1, <1>3 DEF Inv, Made, InFlight
  <1>9. Closed'
    BY <1>1 DEF Inv, Closed, InFlight
  <1> QED
    BY <1>4, <1>5, <1>6, <1>7, <1>8, <1>9 DEF Inv

(* flush() of a deflate stream. *)
LEMMA DeflateFlushInv ==
  ASSUME Inv, NEW c \in Conns, OnDeflateFlush(c)
  PROVE  Inv'
  <1> DEFINE s == streams[c].deflate
             j == s.callback[1]
             b == BaseAfter(c, "deflate", j, s)
             t == Idle(b)
  <1>1. "deflate" \in Dirs /\ s \in Stream /\ Running(c, "deflate")
    BY DEF Inv, TypeOK, Dirs, OnDeflateFlush, Running
  <1>2. j \in Job
    BY <1>1 DEF Stream, Running
  <1>3. b \in Nat
    BY <1>1, <1>2 DEF BaseAfter, Stream, Job
  <1>4. Answer(c, "deflate", [streams EXCEPT ![c].deflate = t])
    BY DEF OnDeflateFlush, DeflateFlushed
  <1> HIDE DEF b
  <1>5. t \in Stream /\ t.callback = <<>>
    BY <1>3 DEF Idle, Stream
  <1>6. /\ UNCHANGED <<instances, concurrency, asked, stale, cleaned, dict, failure>>
        /\ dict \in [Conns -> [Dirs -> Nat]] /\ failure \in [Conns -> {0, 1007, 1009}]
    BY DEF OnDeflateFlush, Inv, TypeOK
  <1> HIDE DEF t
  <1> QED
    BY ZenonT(60), <1>1, <1>4, <1>5, <1>6, AnswerInv

(* flush() of an inflate stream. *)
LEMMA InflateFlushInv ==
  ASSUME Inv, NEW c \in Conns, NEW ended \in BOOLEAN, OnInflateFlush(c, ended)
  PROVE  Inv'
  <1> DEFINE s == streams[c].inflate
             j == s.callback[1]
             b == BaseAfter(c, "inflate", j, s)
             t == IF s.error \/ ended THEN Null ELSE Idle(b)
  <1>1. "inflate" \in Dirs /\ s \in Stream /\ Running(c, "inflate")
    BY DEF Inv, TypeOK, Dirs, OnInflateFlush, Running
  <1>2. j \in Job
    BY <1>1 DEF Stream, Running
  <1>3. b \in Nat
    BY <1>1, <1>2 DEF BaseAfter, Stream, Job
  <1>4. Answer(c, "inflate", [streams EXCEPT ![c].inflate = t])
    BY DEF OnInflateFlush
  <1>5. dict' = dict \/ dict' = [dict EXCEPT ![c].inflate = j.n + 1]
    BY DEF OnInflateFlush
  <1>6. j.n + 1 \in Nat
    BY <1>2 DEF Job
  <1>7. dict \in [Conns -> [Dirs -> Nat]] /\ failure \in [Conns -> {0, 1007, 1009}]
    BY DEF Inv, TypeOK
  <1> HIDE DEF b
  <1>8. t \in Stream /\ t.callback = <<>>
    BY <1>3 DEF Stream, Null, Idle
  <1>9. failure' \in [Conns -> {0, 1007, 1009}]
    BY <1>7 DEF OnInflateFlush
  <1>10. UNCHANGED <<instances, concurrency, asked, stale, cleaned>>
    BY DEF OnInflateFlush
  <1> HIDE DEF j, t
  <1>11. dict' \in [Conns -> [Dirs -> Nat]]
    BY <1>1, <1>5, <1>6, <1>7
  <1> QED
    BY ZenonT(60), <1>1, <1>4, <1>8, <1>9, <1>10, <1>11, AnswerInv

(* inflateOnError(). *)
LEMMA InflateErrorInv ==
  ASSUME Inv, NEW c \in Conns, InflateOnError(c)
  PROVE  Inv'
  <1>1. "inflate" \in Dirs /\ Running(c, "inflate") /\ Null \in Stream /\ Null.callback = <<>>
    BY DEF Dirs, InflateOnError, Running, Null, Stream
  <1>2. Answer(c, "inflate", [streams EXCEPT ![c].inflate = Null])
    BY DEF InflateOnError
  <1>3. /\ UNCHANGED <<instances, concurrency, asked, stale, cleaned, dict>>
        /\ dict \in [Conns -> [Dirs -> Nat]] /\ failure' \in [Conns -> {0, 1007, 1009}]
    BY DEF InflateOnError, Inv, TypeOK
  <1> QED
    BY ZenonT(60), <1>1, <1>2, <1>3, AnswerInv

(* inflateOnData() past maxPayload. *)
LEMMA InflateDataInv ==
  ASSUME Inv, NEW c \in Conns, InflateOnData(c)
  PROVE  Inv'
  <1>1. /\ streams' = [streams EXCEPT ![c].inflate.error = TRUE]
        /\ UNCHANGED <<instances, concurrency, pending, jobs, stale, asked,
                       answered, dict, failure, cleaned>>
    BY DEF InflateOnData
  <1>2. streams \in Streams /\ "inflate" \in Dirs /\ "deflate" \in Dirs
    BY DEF Inv, Slots, Dirs
  <1> DEFINE s == streams[c].inflate
             t == [s EXCEPT !.error = TRUE]
  <1>3. s \in Stream
    BY <1>2 DEF Streams
  <1>4. t \in Stream /\ t.callback = s.callback
    BY <1>3 DEF Stream
  <1>5. streams' = [streams EXCEPT ![c]["inflate"] = t]
    BY <1>1
  <1> HIDE DEF t
  <1>6. streams' \in Streams
    BY <1>2, <1>4, <1>5 DEF Streams
  <1>7. \A x \in Conns, y \in Dirs :
          streams'[x][y] = IF x = c /\ y = "inflate" THEN t ELSE streams[x][y]
    BY <1>2, <1>5 DEF Streams
  <1>8. \A x \in Conns, y \in Dirs : streams'[x][y].callback = streams[x][y].callback
    BY <1>4, <1>7
  <1>9. RunningIn(streams') = RunningIn(streams)
    BY <1>8 DEF RunningIn
  <1>10. Slots(pending', jobs', streams')
    BY <1>1, <1>6, <1>9 DEF Inv, Slots
  <1>11. Accounted' /\ NoIdleSlot'
    <2>1. Busy' = Busy /\ Queued(jobs') = Queued(jobs)
      BY <1>1 DEF Busy, InFlight
    <2>2. Busy' = Queued(jobs') \cup RunningIn(streams')
      BY <1>9, <2>1 DEF Inv, Accounted
    <2> QED
      BY <1>1, <2>2 DEF Inv, Accounted, NoIdleSlot, Queued, RunningIn, Key, Busy
  <1>12. Kept
    BY <1>1, <1>10, <1>11 DEF Kept, Inv, TypeOK
  <1>13. Closed'
    <2> SUFFICES ASSUME NEW x \in Conns, stale[x] # <<>>
                 PROVE  /\ x \in cleaned /\ ~InFlight(x, "deflate")'
                        /\ ~streams'[x].deflate.open
      BY <1>1 DEF Closed
    <2>1. x \in cleaned /\ ~InFlight(x, "deflate") /\ ~streams[x].deflate.open
      BY DEF Inv, Closed
    <2>2. streams'[x]["deflate"] = streams[x]["deflate"]
      BY <1>2, <1>7
    <2> QED
      BY <1>1, <2>1, <2>2 DEF InFlight
  <1>14. Made'
    BY <1>1 DEF Inv, Made, InFlight
  <1> QED
    BY ZenonT(60), <1>1, <1>12, <1>13, <1>14, KeptInv DEF Inv, TypeOK

(* A flush() that outlives its stream changes nothing but itself. *)
LEMMA StaleFlushInv ==
  ASSUME Inv, NEW c \in Conns, OnStaleFlush(c)
  PROVE  Inv'
  <1>1. ~streams[c].deflate.open
    BY DEF OnStaleFlush, Inv, Closed
  <1>2. /\ stale[c] # <<>>
        /\ stale' = [stale EXCEPT ![c] = Tail(stale[c])]
        /\ UNCHANGED <<instances, concurrency, pending, jobs, streams, asked,
                       answered, dict, failure, cleaned>>
    BY <1>1 DEF OnStaleFlush
  <1>3. stale \in [Conns -> Seq(Job)]
    BY DEF Inv, TypeOK
  <1>4. stale' \in [Conns -> Seq(Job)]
    <2>1. Tail(stale[c]) \in Seq(Job)
      BY <1>2, <1>3
    <2> QED
      BY <1>2, <1>3, <2>1
  <1>5. \A x \in Conns : stale'[x] # <<>> => stale[x] # <<>>
    BY <1>2, <1>3
  <1>6. TypeOK'
    BY <1>2, <1>4 DEF Inv, TypeOK
  <1>7. Closed'
    BY <1>2, <1>5 DEF Inv, Closed, InFlight
  <1>8. Slots(pending, jobs, streams)' /\ NoIdleSlot' /\ Accounted' /\ Made'
    BY SMTT(30), <1>2 DEF Inv, Slots, NoIdleSlot, Accounted, Made, InFlight, Busy,
                RunningIn, Queued, Key, Distinct
  <1> QED
    BY <1>6, <1>7, <1>8 DEF Inv

(* cleanup() answers the job that runs and leaves the one that waits. *)
LEMMA CleanupInv ==
  ASSUME Inv, NEW c \in Conns, Cleanup(c)
  PROVE  Inv'
  <1> DEFINE running == streams[c].deflate.callback
             closed == [streams EXCEPT ![c] = [d \in Dirs |-> Null]]
  <1>1. /\ c \in instances \ cleaned /\ ~InFlight(c, "inflate")
        /\ cleaned' = cleaned \cup {c}
        /\ stale' = [stale EXCEPT ![c] = stale[c] \o running]
        /\ UNCHANGED <<instances, concurrency, asked, dict, failure>>
        /\ IF running # <<>>
             THEN Answer(c, "deflate", closed)
             ELSE streams' = closed /\ UNCHANGED <<pending, jobs, answered>>
    BY DEF Cleanup
  <1>2. /\ streams \in Streams /\ stale \in [Conns -> Seq(Job)] /\ cleaned \subseteq instances
        /\ dict \in [Conns -> [Dirs -> Nat]] /\ failure \in [Conns -> {0, 1007, 1009}]
        /\ "inflate" \in Dirs /\ "deflate" \in Dirs
    BY DEF Inv, Slots, Dirs, TypeOK
  <1>3. Null \in Stream /\ Null.callback = <<>> /\ ~Null.open
    BY DEF Null, Stream
  <1>4. closed \in Streams
    BY <1>2, <1>3 DEF Streams
  <1>5. \A x \in Conns, y \in Dirs : closed[x][y] = IF x = c THEN Null ELSE streams[x][y]
    BY <1>2 DEF Streams
  <1>6. stale' \in [Conns -> Seq(Job)] /\ \A x \in Conns : x # c => stale'[x] = stale[x]
    <2>1. running \in Seq(Job) /\ stale[c] \in Seq(Job)
      BY <1>2 DEF Streams, Stream
    <2>2. stale[c] \o running \in Seq(Job)
      BY <2>1
    <2> HIDE DEF running
    <2> QED
      BY <1>1, <1>2, <2>2
  <1> HIDE DEF closed
  <1>7. <<c, "inflate">> \notin RunningIn(streams)
    BY <1>1 DEF Inv, Accounted, Busy
  <1>8. stale[c] = <<>>
    BY <1>1 DEF Inv, Closed
  <1>9. RunningIn(closed) = RunningIn(streams) \ {<<c, "deflate">>}
    <2>1. RunningIn(streams) \ {<<c, "deflate">>} \subseteq RunningIn(closed)
      BY <1>5, <1>7 DEF RunningIn, Dirs
    <2>2. RunningIn(closed) \subseteq RunningIn(streams) \ {<<c, "deflate">>}
      BY <1>3, <1>5 DEF RunningIn
    <2> QED
      BY <2>1, <2>2
  <1>10. CASE running # <<>>
    <2>1. Running(c, "deflate")
      BY <1>10 DEF Running
    <2>2. Answer(c, "deflate", closed)
      BY <1>1, <1>10
    <2>3. /\ Kept
          /\ \A x \in Conns, y \in Dirs :
               /\ InFlight(x, y)' => InFlight(x, y)
               /\ ~InFlight(x, y)' => streams'[x][y] = closed[x][y]
          /\ ~InFlight(c, "deflate")'
      BY <1>1, <1>2, <1>4, <1>9, <2>1, <2>2, AnswerOK
    <2>4. Closed'
      <3> SUFFICES ASSUME NEW x \in Conns, stale'[x] # <<>>
                   PROVE  /\ x \in cleaned' /\ ~InFlight(x, "deflate")'
                          /\ ~streams'[x].deflate.open
        BY DEF Closed
      <3>1. CASE x = c
        BY <1>1, <1>2, <1>3, <1>5, <2>3, <3>1
      <3>2. CASE x # c
        <4>1. x \in cleaned /\ ~InFlight(x, "deflate") /\ ~streams[x].deflate.open
          BY <1>6, <3>2 DEF Inv, Closed
        <4> QED
          BY <1>1, <1>2, <1>5, <2>3, <3>2, <4>1
      <3> QED
        BY <3>1, <3>2
    <2>5. Made'
      <3>1. \A x \in Conns \ instances, y \in Dirs : ~InFlight(x, y)'
        BY <2>3 DEF Inv, Made
      <3> QED
        BY <1>1, <3>1 DEF Inv, Made, InFlight
    <2> QED
      BY <1>1, <1>2, <1>6, <2>3, <2>4, <2>5, KeptInv
  <1>11. CASE running = <<>>
    <2>1. streams' = closed /\ UNCHANGED <<pending, jobs, answered>>
      BY <1>1, <1>11
    <2>2. <<c, "deflate">> \notin RunningIn(streams)
      BY <1>11 DEF RunningIn
    <2>3. RunningIn(streams') = RunningIn(streams)
      BY <1>9, <2>1, <2>2
    <2>4. Slots(pending', jobs', streams')
      BY <1>4, <2>1, <2>3 DEF Inv, Slots
    <2>5. Accounted' /\ NoIdleSlot'
      <3>1. Busy' = Busy /\ Queued(jobs') = Queued(jobs)
        BY <1>1, <2>1 DEF Busy, InFlight
      <3>2. Busy' = Queued(jobs') \cup RunningIn(streams')
        BY <2>3, <3>1 DEF Inv, Accounted
      <3> QED
        BY <1>1, <2>1, <3>2 DEF Inv, Accounted, NoIdleSlot, Queued, RunningIn, Key, Busy
    <2>6. Kept
      BY <1>1, <2>1, <2>4, <2>5 DEF Kept, Inv, TypeOK
    <2>7. Closed'
      <3>1. stale' = stale
        BY <1>1, <1>2, <1>6, <1>8, <1>11
      <3> SUFFICES ASSUME NEW x \in Conns, stale[x] # <<>>
                   PROVE  /\ x \in cleaned' /\ ~InFlight(x, "deflate")'
                          /\ ~streams'[x].deflate.open
        BY <3>1 DEF Closed
      <3>2. x # c /\ x \in cleaned /\ ~InFlight(x, "deflate") /\ ~streams[x].deflate.open
        BY <1>8 DEF Inv, Closed
      <3> QED
        BY <1>1, <1>2, <1>5, <2>1, <3>2 DEF InFlight
    <2>8. Made'
      BY <1>1, <2>1 DEF Inv, Made, InFlight
    <2> QED
      BY <1>1, <1>2, <1>6, <2>6, <2>7, <2>8, KeptInv
  <1> QED
    BY <1>10, <1>11

-----------------------------------------------------------------------------
(* Every step of Next keeps Inv. *)
LEMMA NextInv == Inv /\ [Next]_vars => Inv'
  <1> SUFFICES ASSUME Inv, [Next]_vars PROVE Inv'
    OBVIOUS
  <1>1. CASE UNCHANGED vars
    <2>1. UNCHANGED <<instances, concurrency, pending, jobs, streams, stale, asked, answered,
                      dict, failure, cleaned>>
      BY <1>1 DEF vars
    <2>2. TypeOK'
      BY <2>1 DEF Inv, TypeOK
    <2>3. Slots(pending, jobs, streams)' /\ NoIdleSlot'
      BY <2>1 DEF Inv, Slots, NoIdleSlot, Busy, RunningIn, Queued, Key, Distinct
    <2>4. Accounted' /\ Made' /\ Closed'
      BY <2>1 DEF Inv, Accounted, Made, Closed, Busy, InFlight, RunningIn, Queued, Key, Distinct
    <2> QED BY <2>2, <2>3, <2>4 DEF Inv
  <1>2. ASSUME NEW c \in Conns, Use(c) PROVE Inv'
    <2>1. CASE Construct(c)
      BY <2>1, ConstructInv
    <2>2. ASSUME NEW fin \in BOOLEAN, Compress(c, fin) PROVE Inv'
      BY <2>2, CompressInv DEF Compress, Dirs
    <2>3. ASSUME NEW fin \in BOOLEAN, Decompress(c, fin) PROVE Inv'
      BY <2>3, CompressInv DEF Decompress, Dirs
    <2>4. CASE Cleanup(c)
      BY <2>4, CleanupInv
    <2> QED
      BY <1>2, <2>1, <2>2, <2>3, <2>4 DEF Use
  <1>3. ASSUME NEW c \in Conns, Zlib(c) PROVE Inv'
    <2>1. CASE OnDeflateFlush(c)
      BY <2>1, DeflateFlushInv
    <2>2. CASE OnStaleFlush(c)
      BY <2>2, StaleFlushInv
    <2>3. CASE InflateOnData(c)
      BY <2>3, InflateDataInv
    <2>4. ASSUME NEW ended \in BOOLEAN, OnInflateFlush(c, ended) PROVE Inv'
      BY <2>4, InflateFlushInv
    <2>5. CASE InflateOnError(c)
      BY <2>5, InflateErrorInv
    <2> QED
      BY <1>3, <2>1, <2>2, <2>3, <2>4, <2>5 DEF Zlib
  <1> QED
    BY <1>1, <1>2, <1>3 DEF Next

(* The inductive invariant of the limiter and the streams behind it. *)
THEOREM DeflateInvariance == Spec => []Inv
  BY InitInv, NextInv, PTL DEF Spec

(* Types of the limiter, the streams and the counts, for any connections. *)
THEOREM DeflateTypes == Spec => []TypeOK
  <1>1. Inv => TypeOK
    BY DEF Inv
  <1> QED
    BY <1>1, DeflateInvariance, PTL

(* No slot of the limiter is lost or freed twice, whatever connections do    *)
(* (limiter.js:45, permessage-deflate.js:136, 511).                          *)
THEOREM SlotsKept == Spec => []SlotsExact
  <1>1. Inv => SlotsExact
    BY DEF Inv, Slots, SlotsExact, RunningIn, Running
  <1> QED
    BY <1>1, DeflateInvariance, PTL

(* No job waits beside a free slot (limiter.js:43). *)
THEOREM SlotsUsed == Spec => []NoIdleSlot
  <1>1. Inv => NoIdleSlot
    BY DEF Inv
  <1> QED
    BY <1>1, DeflateInvariance, PTL

(* Every call of compress() and decompress() waits at one place, or runs, or *)
(* has been answered (permessage-deflate.js:136, 428).                       *)
THEOREM JobsAnsweredOnce == Spec => []JobsAccounted
  <1>1. ASSUME Inv, NEW c \in Conns, NEW d \in Dirs
        PROVE  asked[c][d] - answered[c][d] =
                 Cardinality({i \in DOMAIN jobs : jobs[i].conn = c /\ jobs[i].dir = d})
                 + (IF Running(c, d) THEN 1 ELSE 0)
    <2> DEFINE places == {i \in DOMAIN jobs : jobs[i].conn = c /\ jobs[i].dir = d}
    <2>1. /\ Busy = Queued(jobs) \cup RunningIn(streams)
          /\ asked[c][d] - answered[c][d] \in {0, 1}
          /\ Distinct(jobs) /\ Queued(jobs) \cap RunningIn(streams) = {}
          /\ asked[c][d] \in Nat /\ answered[c][d] \in Nat
      BY <1>1 DEF Inv, Accounted, Slots, TypeOK
    <2>2. places = {i \in DOMAIN jobs : Key(jobs[i]) = <<c, d>>}
      BY DEF Key
    <2> HIDE DEF places
    <2>3. Running(c, d) <=> <<c, d>> \in RunningIn(streams)
      BY DEF Running, RunningIn
    <2>4. asked[c][d] - answered[c][d] = IF <<c, d>> \in Busy THEN 1 ELSE 0
      <3>1. <<c, d>> \in Busy <=> answered[c][d] < asked[c][d]
        BY DEF Busy, InFlight
      <3> QED
        BY <2>1, <3>1
    <2>5. Cardinality(places) = IF <<c, d>> \in Queued(jobs) THEN 1 ELSE 0
      <3>1. CASE <<c, d>> \in Queued(jobs)
        <4>1. PICK i \in DOMAIN jobs : Key(jobs[i]) = <<c, d>>
          BY <3>1 DEF Queued
        <4>2. places = {i}
          BY <2>1, <2>2, <4>1 DEF Distinct
        <4>3. Cardinality({i}) = 1
          BY FS_Singleton
        <4> QED
          BY <3>1, <4>2, <4>3
      <3>2. CASE <<c, d>> \notin Queued(jobs)
        <4>1. places = {}
          BY <2>2, <3>2 DEF Queued
        <4> QED
          BY <3>2, <4>1, FS_EmptySet
      <3> QED
        BY <3>1, <3>2
    <2>6. Cardinality(places) + (IF Running(c, d) THEN 1 ELSE 0) =
            IF <<c, d>> \in Busy THEN 1 ELSE 0
      BY <2>1, <2>3, <2>5
    <2> QED
      BY <2>4, <2>6 DEF places
  <1>2. Inv => JobsAccounted
    BY <1>1 DEF JobsAccounted
  <1> QED
    BY <1>2, DeflateInvariance, PTL

-----------------------------------------------------------------------------
(* The oldest frame of the dictionary in which s works on frame n. *)
BaseFor(s, n) == IF s.open THEN s.base ELSE n

(* A deflater refers to nothing before frame i, an inflater remembers from i on. *)
Fits(d, s, n, i) == IF d = "deflate" THEN BaseFor(s, n) >= i ELSE BaseFor(s, n) <= i

JobFits(j, ss) == Fits(j.dir, ss[j.conn][j.dir], j.n, j.dict)

(* The jobs that wait in q or run in ss. *)
JobsIn(q, ss) ==
    {q[i] : i \in DOMAIN q} \cup {ss[k[1]][k[2]].callback[1] : k \in RunningIn(ss)}

InPlace(ss) ==
    \A k \in RunningIn(ss) :
        ss[k[1]][k[2]].open /\ Key(ss[k[1]][k[2]].callback[1]) = k

(* Where the dictionary starts behind a job. *)
Behind(j) == IF j.fin /\ Endpoint(j.conn, j.dir) \in NoTakeover[j.conn] THEN j.n + 1 ELSE j.dict

(* A job is of the last frame asked for, and the next dictionary follows it. *)
Last(j, calls, dicts) ==
    /\ j.n = calls[j.conn][j.dir] /\ j.dict <= j.n
    /\ dicts[j.conn][j.dir] = Behind(j)

(* Another frame may be asked for. *)
Usable(c, d) == ~InFlight(c, d) /\ (d = "inflate" => failure[c] = 0 /\ c \notin cleaned)

(* DictionariesAgree speaks of running jobs.  DictInv says it of those that  *)
(* wait too, and of the frame a stream at rest would be given next.          *)
DictInv ==
    /\ InPlace(streams)
    /\ \A j \in JobsIn(jobs, streams) : JobFits(j, streams) /\ Last(j, asked, dict)
    /\ \A c \in Conns, d \in Dirs :
          /\ dict[c][d] <= asked[c][d] + 1
          /\ Usable(c, d) => Fits(d, streams[c][d], asked[c][d] + 1, dict[c][d])

-----------------------------------------------------------------------------
(* What waits or runs has one of the keys in flight. *)
LEMMA JobKeys ==
  ASSUME NEW q \in Seq(Job), NEW ss \in Streams, InPlace(ss), NEW j \in JobsIn(q, ss)
  PROVE  /\ Key(j) \in Queued(q) \cup RunningIn(ss)
         /\ j \in Job
  <1>1. CASE j \in {q[i] : i \in DOMAIN q}
    <2>1. PICK i \in DOMAIN q : j = q[i]
      BY <1>1
    <2>2. q[i] \in Job
      BY <2>1
    <2> QED
      BY <2>1, <2>2 DEF Queued
  <1>2. CASE j \notin {q[i] : i \in DOMAIN q}
    <2>1. PICK k \in RunningIn(ss) : j = ss[k[1]][k[2]].callback[1]
      BY <1>2 DEF JobsIn
    <2>2. Key(j) = k
      BY <2>1 DEF InPlace
    <2>3. k[1] \in Conns /\ k[2] \in Dirs /\ ss[k[1]][k[2]].callback # <<>>
      BY DEF RunningIn
    <2>4. ss[k[1]][k[2]].callback \in Seq(Job)
      BY <2>3 DEF Streams, Stream
    <2> QED
      BY <2>1, <2>2, <2>3, <2>4
  <1> QED
    BY <1>1, <1>2

(* A started job finds the dictionary that fits it, and keeps its stream open. *)
LEMMA StartFits ==
  ASSUME NEW ss \in Streams, NEW j \in Job
  PROVE  LET st == Start(ss, j)[j.conn][j.dir]
         IN  /\ st.open /\ st.base = BaseFor(ss[j.conn][j.dir], j.n)
             /\ st.callback = <<j>>
  <1>1. j.conn \in Conns /\ j.dir \in Dirs /\ j.n \in Nat
    BY DEF Job
  <1> DEFINE s == ss[j.conn][j.dir]
             r == IF s.open THEN s ELSE Idle(j.n)
             t == [r EXCEPT !.callback = <<j>>]
  <1>2. s \in Stream
    BY <1>1 DEF Streams
  <1>3. r \in Stream /\ r.open /\ r.base = BaseFor(s, j.n)
    <2>1. CASE s.open
      BY <1>2, <2>1 DEF Stream, BaseFor
    <2>2. CASE ~s.open
      <3>1. r = Idle(j.n)
        BY <2>2
      <3>2. Idle(j.n) \in Stream /\ Idle(j.n).open /\ Idle(j.n).base = j.n
        BY <1>1 DEF Stream, Idle
      <3> QED
        BY <2>2, <3>1, <3>2 DEF BaseFor
    <2> QED
      BY <2>1, <2>2
  <1>4. Start(ss, j)[j.conn][j.dir] = t
    <2>1. Start(ss, j) = [ss EXCEPT ![j.conn][j.dir] = t]
      BY DEF Start
    <2> HIDE DEF t
    <2> QED
      BY <1>1, <2>1 DEF Streams
  <1> HIDE DEF r
  <1>5. t.open = r.open /\ t.base = r.base /\ t.callback = <<j>>
    BY <1>3 DEF Stream
  <1> HIDE DEF s, t
  <1> QED
    BY <1>3, <1>4, <1>5 DEF s

(* Limiter[kRun]() loses no job, and a job that fits its stream goes on to. *)
LEMMA RunJobs ==
  ASSUME NEW p, NEW q, NEW ss, Slots(p, q, ss), InPlace(ss), Run(p, q, ss)
  PROVE  /\ InPlace(streams')
         /\ JobsIn(jobs', streams') = JobsIn(q, ss)
         /\ \A j \in JobsIn(q, ss) : JobFits(j, ss) => JobFits(j, streams')
  <1>1. CASE p = concurrency \/ q = <<>>
    BY <1>1 DEF Run
  <1>2. CASE p # concurrency /\ q # <<>>
    <2> DEFINE h == Head(q)
               st == Start(ss, h)
    <2>1. jobs' = Tail(q) /\ streams' = st
      BY <1>2 DEF Run
    <2>2. /\ q \in Seq(Job) /\ ss \in Streams /\ Distinct(q)
          /\ Queued(q) \cap RunningIn(ss) = {}
      BY DEF Slots
    <2>3. /\ h \in Job /\ Tail(q) \in Seq(Job) /\ Key(h) \in Queued(q)
          /\ Queued(Tail(q)) = Queued(q) \ {Key(h)}
      BY <1>2, <2>2, TailOK
    <2>4. /\ st \in Streams
          /\ RunningIn(st) = RunningIn(ss) \cup {Key(h)}
          /\ \A c \in Conns, d \in Dirs : <<c, d>> # Key(h) => st[c][d] = ss[c][d]
      BY <2>2, <2>3, StartOK
    <2>5. /\ st[h.conn][h.dir].open /\ st[h.conn][h.dir].callback = <<h>>
          /\ st[h.conn][h.dir].base = BaseFor(ss[h.conn][h.dir], h.n)
      BY <2>2, <2>3, StartFits
    <2>6. h.conn \in Conns /\ h.dir \in Dirs /\ Key(h) = <<h.conn, h.dir>>
      BY <2>3 DEF Job, Key
    <2>7. <<h>>[1] = h
      OBVIOUS
    <2> HIDE DEF st
    <2>8. \A k \in RunningIn(ss) :
            /\ k[1] \in Conns /\ k[2] \in Dirs /\ k = <<k[1], k[2]>> /\ k # Key(h)
            /\ st[k[1]][k[2]] = ss[k[1]][k[2]]
      BY <2>2, <2>3, <2>4 DEF RunningIn
    <2>9. InPlace(st)
      <3> SUFFICES ASSUME NEW k \in RunningIn(st)
                   PROVE  st[k[1]][k[2]].open /\ Key(st[k[1]][k[2]].callback[1]) = k
        BY DEF InPlace
      <3>1. CASE k = Key(h)
        BY <2>5, <2>6, <2>7, <3>1
      <3>2. CASE k \in RunningIn(ss)
        BY <2>8, <3>2 DEF InPlace
      <3> QED
        BY <2>4, <3>1, <3>2
    <2>10. {q[i] : i \in DOMAIN q} = {Tail(q)[i] : i \in DOMAIN Tail(q)} \cup {h}
      <3>1. /\ h = q[1] /\ Len(q) \in Nat /\ Len(q) >= 1 /\ Len(Tail(q)) = Len(q) - 1
            /\ DOMAIN q = 1 .. Len(q) /\ DOMAIN Tail(q) = 1 .. Len(q) - 1
            /\ \A i \in 1 .. Len(q) - 1 : Tail(q)[i] = q[i + 1]
        BY <1>2, <2>2, <2>3
      <3> HIDE DEF h
      <3>2. ASSUME NEW i \in 1 .. Len(q)
            PROVE  q[i] \in {Tail(q)[k] : k \in DOMAIN Tail(q)} \cup {h}
        <4>1. CASE i = 1
          BY <3>1, <4>1
        <4>2. CASE i # 1
          <5>1. i - 1 \in 1 .. Len(q) - 1 /\ (i - 1) + 1 = i
            BY <3>1, <4>2
          <5>2. q[i] = Tail(q)[i - 1] /\ i - 1 \in DOMAIN Tail(q)
            BY <3>1, <5>1
          <5> QED
            BY <5>2
        <4> QED
          BY <4>1, <4>2
      <3>3. ASSUME NEW i \in 1 .. Len(q) - 1
            PROVE  Tail(q)[i] \in {q[k] : k \in DOMAIN q}
        <4>1. i + 1 \in DOMAIN q /\ Tail(q)[i] = q[i + 1]
          BY <3>1
        <4> QED
          BY <4>1
      <3>4. h \in {q[k] : k \in DOMAIN q}
        BY <3>1
      <3> QED
        BY <3>1, <3>2, <3>3, <3>4
    <2>11. {st[k[1]][k[2]].callback[1] : k \in RunningIn(st)}
             = {ss[k[1]][k[2]].callback[1] : k \in RunningIn(ss)} \cup {h}
      <3>1. st[Key(h)[1]][Key(h)[2]].callback[1] = h
        BY <2>5, <2>6, <2>7
      <3> HIDE DEF h
      <3> QED
        BY <2>4, <2>8, <3>1
    <2>12. JobsIn(Tail(q), st) = JobsIn(q, ss)
      BY <2>10, <2>11 DEF JobsIn
    <2>13. ASSUME NEW j \in JobsIn(q, ss), JobFits(j, ss)
           PROVE  JobFits(j, st)
      <3>1. CASE Key(j) = Key(h)
        <4>1. j.conn = h.conn /\ j.dir = h.dir
          BY <3>1 DEF Key
        <4>2. j = h
          <5>1. CASE j \in {q[i] : i \in DOMAIN q}
            <6>1. PICK i \in DOMAIN q : j = q[i]
              BY <5>1
            <6>2. 1 \in DOMAIN q /\ h = q[1]
              BY <1>2, <2>2
            <6>3. i = 1
              BY <2>2, <3>1, <6>1, <6>2 DEF Distinct
            <6> QED
              BY <6>1, <6>2, <6>3
          <5>2. CASE j \notin {q[i] : i \in DOMAIN q}
            <6>1. PICK k \in RunningIn(ss) : j = ss[k[1]][k[2]].callback[1]
              BY <5>2 DEF JobsIn
            <6>2. Key(j) = k
              BY <6>1 DEF InPlace
            <6> QED
              BY <2>2, <2>3, <3>1, <6>2
          <5> QED
            BY <5>1, <5>2
        <4>3. BaseFor(st[h.conn][h.dir], h.n) = BaseFor(ss[h.conn][h.dir], h.n)
          BY <2>5 DEF BaseFor
        <4> QED
          BY <2>13, <4>2, <4>3 DEF JobFits, Fits
      <3>2. CASE Key(j) # Key(h)
        <4>1. j.conn \in Conns /\ j.dir \in Dirs
          BY <2>2, JobKeys DEF Job
        <4>2. st[j.conn][j.dir] = ss[j.conn][j.dir]
          BY <2>4, <3>2, <4>1 DEF Key
        <4> QED
          BY <2>13, <4>2 DEF JobFits
      <3> QED
        BY <3>1, <3>2
    <2> QED
      BY <2>1, <2>9, <2>12, <2>13
  <1> QED
    BY <1>1, <1>2

(* What a step must leave behind. *)
LEMMA DictKept ==
  ASSUME InPlace(streams'),
         \A j \in JobsIn(jobs', streams') : JobFits(j, streams') /\ Last(j, asked', dict'),
         \A c \in Conns, d \in Dirs :
            /\ dict'[c][d] <= asked'[c][d] + 1
            /\ Usable(c, d)' => Fits(d, streams'[c][d], asked'[c][d] + 1, dict'[c][d])
  PROVE  DictInv'
  BY DEF DictInv, InPlace, JobsIn, RunningIn, Key, JobFits, Fits, BaseFor, Last, Behind,
         Endpoint, Usable, InFlight

(* compress() or decompress() is called with a frame of a stream in use. *)
LEMMA CallDict ==
  ASSUME Inv, DictInv, NEW c \in Conns, NEW d \in Dirs, NEW fin \in BOOLEAN,
         c \in instances \ cleaned, Usable(c, d), Call(c, d, fin)
  PROVE  DictInv'
  <1> DEFINE n == asked[c][d] + 1
             j == [conn |-> c, dir |-> d, n |-> n, dict |-> dict[c][d], fin |-> fin]
             q == Append(jobs, j)
  <1>1. /\ asked \in [Conns -> [Dirs -> Nat]] /\ dict \in [Conns -> [Dirs -> Nat]]
        /\ jobs \in Seq(Job) /\ streams \in Streams
    BY DEF Inv, TypeOK, Streams
  <1>2. /\ asked' = [asked EXCEPT ![c][d] = n]
        /\ UNCHANGED <<answered, failure, cleaned, concurrency>>
        /\ dict' = IF fin /\ Endpoint(c, d) \in NoTakeover[c]
                     THEN [dict EXCEPT ![c][d] = n + 1] ELSE dict
        /\ Run(pending, q, streams)
    BY DEF Call, Add
  <1>3. /\ j \in Job /\ Key(j) = <<c, d>> /\ j.conn = c /\ j.dir = d /\ j.n = n
        /\ j.dict = dict[c][d] /\ j.fin = fin
    BY <1>1 DEF Job, Key
  <1>4. /\ n = asked[c][d] + 1 /\ n \in Nat /\ dict[c][d] \in Nat /\ dict[c][d] <= n
    BY <1>1 DEF DictInv
  <1> HIDE DEF n, j, q
  <1>5. /\ Slots(pending, jobs, streams) /\ ~InFlight(c, d)
        /\ Busy = Queued(jobs) \cup RunningIn(streams)
    BY DEF Inv, Accounted, Usable
  <1>6. <<c, d>> \notin Queued(jobs) /\ <<c, d>> \notin RunningIn(streams)
    BY <1>5 DEF Busy
  <1>7. /\ q \in Seq(Job) /\ q # <<>> /\ Distinct(q)
        /\ Queued(q) = Queued(jobs) \cup {<<c, d>>}
    BY <1>1, <1>3, <1>5, <1>6, AppendOK DEF Slots, q
  <1>8. Slots(pending, q, streams)
    BY <1>5, <1>6, <1>7 DEF Slots
  <1>9. InPlace(streams)
    BY DEF DictInv
  <1>10. /\ InPlace(streams')
         /\ JobsIn(jobs', streams') = JobsIn(q, streams)
         /\ \A i \in JobsIn(q, streams) : JobFits(i, streams) => JobFits(i, streams')
    BY <1>2, <1>8, <1>9, RunJobs
  <1>11. JobsIn(q, streams) = JobsIn(jobs, streams) \cup {j}
    <2>1. {q[i] : i \in DOMAIN q} = {jobs[i] : i \in DOMAIN jobs} \cup {j}
      <3>1. /\ Len(jobs) \in Nat /\ DOMAIN jobs = 1 .. Len(jobs)
            /\ DOMAIN q = 1 .. Len(jobs) + 1
            /\ q[Len(jobs) + 1] = j /\ \A i \in 1 .. Len(jobs) : q[i] = jobs[i]
        BY <1>1, <1>3 DEF q
      <3>2. \A i \in 1 .. Len(jobs) + 1 : i \in 1 .. Len(jobs) \/ i = Len(jobs) + 1
        BY <3>1
      <3>3. \A i \in 1 .. Len(jobs) : i \in 1 .. Len(jobs) + 1
        BY <3>1
      <3>4. Len(jobs) + 1 \in 1 .. Len(jobs) + 1
        BY <3>1
      <3> QED
        BY <3>1, <3>2, <3>3, <3>4
    <2> QED
      BY <2>1 DEF JobsIn
  <1>12. \A x \in Conns, y \in Dirs : <<x, y>> # <<c, d>> =>
            asked'[x][y] = asked[x][y] /\ dict'[x][y] = dict[x][y]
    BY <1>1, <1>2
  <1>13. /\ asked'[c][d] = n
         /\ dict'[c][d] = IF fin /\ Endpoint(c, d) \in NoTakeover[c] THEN n + 1 ELSE dict[c][d]
    BY <1>1, <1>2
  <1>14. JobFits(j, streams) /\ Last(j, asked', dict')
    <2>1. Fits(d, streams[c][d], n, dict[c][d])
      BY <1>4 DEF DictInv
    <2> QED
      BY <1>3, <1>4, <1>13, <2>1 DEF JobFits, Last, Behind
  <1>15. ASSUME NEW i \in JobsIn(jobs, streams)
         PROVE  JobFits(i, streams) /\ Last(i, asked', dict')
    <2>1. /\ JobFits(i, streams) /\ Last(i, asked, dict)
      BY DEF DictInv
    <2>2. Key(i) \in Queued(jobs) \cup RunningIn(streams) /\ i \in Job
      BY <1>1, <1>9, JobKeys
    <2>3. i.conn \in Conns /\ i.dir \in Dirs /\ <<i.conn, i.dir>> # <<c, d>>
      BY <1>6, <2>2 DEF Key, Job
    <2> QED
      BY <1>12, <2>1, <2>3 DEF Last
  <1>16. ASSUME NEW x \in Conns, NEW y \in Dirs
         PROVE  /\ dict'[x][y] <= asked'[x][y] + 1
                /\ Usable(x, y)' => Fits(y, streams'[x][y], asked'[x][y] + 1, dict'[x][y])
    <2>1. CASE <<x, y>> = <<c, d>>
      <3>1. InFlight(c, d)'
        <4>1. answered[c][d] \in Nat /\ asked[c][d] \in Nat
          BY DEF Inv, TypeOK
        <4>2. asked[c][d] - answered[c][d] \in {0, 1}
          BY DEF Inv, Accounted
        <4>3. answered'[c][d] < asked'[c][d]
          BY <1>2, <1>4, <1>13, <4>1, <4>2
        <4> QED
          BY <4>3 DEF InFlight
      <3>2. dict'[c][d] <= n + 1
        BY <1>4, <1>13
      <3> QED
        BY <1>13, <2>1, <3>1, <3>2 DEF Usable
    <2>2. CASE <<x, y>> # <<c, d>>
      <3>1. Usable(x, y)' <=> Usable(x, y)
        BY <1>2, <1>12, <2>2 DEF Usable, InFlight
      <3>2. ASSUME Usable(x, y) PROVE streams'[x][y] = streams[x][y]
        BY <1>5, <2>2, <3>2, CallOK DEF Usable, Inv, Made
      <3> QED
        BY <1>12, <2>2, <3>1, <3>2 DEF DictInv
    <2> QED
      BY <2>1, <2>2
  <1> QED
    BY <1>10, <1>11, <1>14, <1>15, <1>16, DictKept

(* An answer: the streams become ss, where no stream that is needed changed. *)
LEMMA AnswerDict ==
  ASSUME Inv, DictInv, NEW c \in Conns, NEW d \in Dirs, Running(c, d),
         NEW ss \in Streams, RunningIn(ss) = RunningIn(streams) \ {<<c, d>>},
         \A x \in Conns, y \in Dirs :
            <<x, y>> \in Queued(jobs) \cup RunningIn(ss) => ss[x][y] = streams[x][y],
         Answer(c, d, ss), UNCHANGED <<concurrency, asked>>,
         \A x \in Conns, y \in Dirs : <<x, y>> # <<c, d>> => dict'[x][y] = dict[x][y],
         \A x \in Conns, y \in Dirs :
            /\ dict'[x][y] <= asked[x][y] + 1
            /\ Usable(x, y)' => Fits(y, ss[x][y], asked[x][y] + 1, dict'[x][y])
  PROVE  DictInv'
  <1>1. /\ jobs \in Seq(Job) /\ streams \in Streams /\ asked' = asked
        /\ Slots(pending, jobs, streams) /\ InPlace(streams)
    BY DEF Inv, TypeOK, Streams, DictInv
  <1>2. Run(pending - 1, jobs, ss)
    BY DEF Answer, Done
  <1>3. <<c, d>> \in RunningIn(streams) /\ <<c, d>> \notin Queued(jobs)
    BY <1>1 DEF Running, RunningIn, Slots
  <1>4. Slots(pending - 1, jobs, ss)
    <2>1. pending = Cardinality(RunningIn(streams)) /\ pending <= concurrency
          /\ pending \in Nat /\ concurrency \in Nat
      BY <1>1 DEF Slots, Inv, TypeOK
    <2>2. Cardinality(RunningIn(ss)) = pending - 1
      BY <1>3, <2>1, RunningFinite, FS_RemoveElement
    <2>3. Cardinality(RunningIn(ss)) \in Nat
      BY RunningFinite, FS_CardinalityType
    <2>4. pending - 1 \in Nat /\ pending - 1 <= concurrency
      BY <2>1, <2>2, <2>3
    <2>5. Distinct(jobs) /\ Queued(jobs) \cap RunningIn(ss) = {}
      BY <1>1 DEF Slots
    <2> QED
      BY <1>1, <2>2, <2>4, <2>5 DEF Slots
  <1>5. \A k \in RunningIn(ss) :
          /\ k \in RunningIn(streams) /\ k[1] \in Conns /\ k[2] \in Dirs /\ k = <<k[1], k[2]>>
          /\ ss[k[1]][k[2]] = streams[k[1]][k[2]]
    BY DEF RunningIn
  <1>6. InPlace(ss)
    BY <1>1, <1>5 DEF InPlace
  <1>7. /\ InPlace(streams')
        /\ JobsIn(jobs', streams') = JobsIn(jobs, ss)
        /\ \A i \in JobsIn(jobs, ss) : JobFits(i, ss) => JobFits(i, streams')
    BY <1>2, <1>4, <1>6, RunJobs
  <1>8. JobsIn(jobs, ss) \subseteq JobsIn(jobs, streams)
    BY <1>5 DEF JobsIn
  <1>9. ASSUME NEW i \in JobsIn(jobs, ss)
        PROVE  JobFits(i, ss) /\ Last(i, asked', dict')
    <2>1. Key(i) \in Queued(jobs) \cup RunningIn(ss) /\ i \in Job
      BY <1>1, <1>6, JobKeys
    <2>2. /\ i.conn \in Conns /\ i.dir \in Dirs /\ Key(i) = <<i.conn, i.dir>>
          /\ <<i.conn, i.dir>> # <<c, d>>
      BY <1>3, <2>1 DEF Key, Job
    <2>3. ss[i.conn][i.dir] = streams[i.conn][i.dir] /\ dict'[i.conn][i.dir] = dict[i.conn][i.dir]
      BY <2>1, <2>2
    <2>4. JobFits(i, streams) /\ Last(i, asked, dict)
      BY <1>8 DEF DictInv
    <2> QED
      BY <1>1, <2>3, <2>4 DEF JobFits, Last
  <1>10. ASSUME NEW x \in Conns, NEW y \in Dirs, Usable(x, y)'
         PROVE  streams'[x][y] = ss[x][y]
    <2>1. ~InFlight(x, y)'
      BY <1>10 DEF Usable
    <2> QED
      BY <2>1, AnswerOK
  <1> QED
    BY <1>1, <1>7, <1>9, <1>10, DictKept

(* An answer that gives the stream of the job another state. *)
LEMMA AnswerOne ==
  ASSUME Inv, DictInv, NEW c \in Conns, NEW d \in Dirs, Running(c, d),
         NEW s \in Stream, s.callback = <<>>,
         Answer(c, d, [streams EXCEPT ![c][d] = s]),
         UNCHANGED <<concurrency, asked, cleaned>>,
         dict' \in [Conns -> [Dirs -> Nat]],
         \A x \in Conns, y \in Dirs : <<x, y>> # <<c, d>> => dict'[x][y] = dict[x][y],
         dict'[c][d] <= asked[c][d] + 1,
         \A x \in Conns : failure'[x] = 0 => failure[x] = 0,
         (d = "inflate" => failure'[c] = 0) => Fits(d, s, asked[c][d] + 1, dict'[c][d])
  PROVE  DictInv'
  <1> DEFINE ss == [streams EXCEPT ![c][d] = s]
  <1>1. streams \in Streams /\ answered \in [Conns -> [Dirs -> Nat]]
    BY DEF Inv, Slots, TypeOK
  <1>2. ss \in Streams
    BY <1>1 DEF Streams
  <1>3. \A x \in Conns, y \in Dirs : ss[x][y] = IF <<x, y>> = <<c, d>> THEN s ELSE streams[x][y]
    BY <1>1 DEF Streams
  <1>4. Answer(c, d, ss)
    OBVIOUS
  <1> HIDE DEF ss
  <1>5. RunningIn(ss) = RunningIn(streams) \ {<<c, d>>}
    BY <1>3 DEF RunningIn
  <1>6. <<c, d>> \in RunningIn(streams) /\ Queued(jobs) \cap RunningIn(streams) = {}
    BY DEF Running, RunningIn, Inv, Slots
  <1>7. ASSUME NEW x \in Conns, NEW y \in Dirs
        PROVE  <<x, y>> \in Queued(jobs) \cup RunningIn(ss) => ss[x][y] = streams[x][y]
    BY <1>3, <1>5, <1>6
  <1>8. ASSUME NEW x \in Conns, NEW y \in Dirs
        PROVE  /\ dict'[x][y] <= asked[x][y] + 1
               /\ Usable(x, y)' => Fits(y, ss[x][y], asked[x][y] + 1, dict'[x][y])
    <2>1. CASE <<x, y>> = <<c, d>>
      BY <1>3, <2>1 DEF Usable
    <2>2. CASE <<x, y>> # <<c, d>>
      <3>1. answered'[x][y] = answered[x][y]
        BY <1>1, <2>2 DEF Answer
      <3>2. Usable(x, y)' => Usable(x, y)
        BY <3>1 DEF Usable, InFlight
      <3> QED
        BY <1>3, <2>2, <3>2 DEF DictInv
    <2> QED
      BY <2>1, <2>2
  <1> QED
    BY <1>2, <1>4, <1>5, <1>7, <1>8, AnswerDict

(* What is known of a job that runs. *)
LEMMA RunningJob ==
  ASSUME Inv, DictInv, NEW c \in Conns, NEW d \in Dirs, Running(c, d)
  PROVE  LET s == streams[c][d]
             j == s.callback[1]
         IN  /\ s \in Stream /\ s.open /\ j \in Job /\ j.conn = c /\ j.dir = d
             /\ j \in JobsIn(jobs, streams) /\ j.n = asked[c][d] /\ dict[c][d] = Behind(j)
             /\ IF d = "deflate" THEN s.base >= j.dict ELSE s.base <= j.dict
  <1> DEFINE s == streams[c][d]
             j == s.callback[1]
  <1>1. streams \in Streams /\ jobs \in Seq(Job)
    BY DEF Inv, TypeOK, Streams
  <1>2. <<c, d>> \in RunningIn(streams) /\ InPlace(streams)
    BY DEF Running, RunningIn, DictInv
  <1>3. s.open /\ Key(j) = <<c, d>> /\ j \in JobsIn(jobs, streams)
    BY SMTT(30), <1>2 DEF InPlace, JobsIn
  <1>4. s \in Stream
    BY <1>1 DEF Streams
  <1> HIDE DEF s, j
  <1>5. j \in Job /\ j.conn = c /\ j.dir = d
    BY <1>1, <1>2, <1>3, JobKeys DEF Key
  <1>6. JobFits(j, streams) /\ Last(j, asked, dict)
    BY <1>3 DEF DictInv
  <1> QED
    BY <1>3, <1>4, <1>5, <1>6 DEF JobFits, Last, Fits, BaseFor, s, j

(* flush() of a deflate stream: it is reset at least where the peer may be. *)
LEMMA DeflateFlushDict ==
  ASSUME Inv, DictInv, NEW c \in Conns, OnDeflateFlush(c)
  PROVE  DictInv'
  <1> DEFINE s == streams[c].deflate
             j == s.callback[1]
             b == BaseAfter(c, "deflate", j, s)
  <1>1. "deflate" \in Dirs /\ Running(c, "deflate")
    BY DEF Dirs, OnDeflateFlush, Running
  <1>2. /\ s \in Stream /\ j \in Job /\ j.conn = c /\ j.dir = "deflate" /\ j.n = asked[c].deflate
        /\ dict[c].deflate = Behind(j) /\ s.base >= j.dict
    BY <1>1, RunningJob
  <1>3. Answer(c, "deflate", [streams EXCEPT ![c].deflate = Idle(b)])
    BY DEF OnDeflateFlush, DeflateFlushed
  <1>4. /\ UNCHANGED <<instances, concurrency, asked, stale, cleaned, dict, failure>>
        /\ dict \in [Conns -> [Dirs -> Nat]]
    BY DEF OnDeflateFlush, Inv, TypeOK
  <1> HIDE DEF s, j
  <1>5. b \in Nat /\ b >= dict[c].deflate
    BY <1>2 DEF BaseAfter, Behind, Stream, Job
  <1> HIDE DEF b
  <1>6. Idle(b) \in Stream /\ Idle(b).callback = <<>> /\ Idle(b).open /\ Idle(b).base = b
    BY <1>5 DEF Idle, Stream
  <1>7. Fits("deflate", Idle(b), asked[c].deflate + 1, dict'[c].deflate)
    BY <1>4, <1>5, <1>6 DEF Fits, BaseFor
  <1>8. dict'[c].deflate <= asked[c].deflate + 1
    BY <1>1, <1>4 DEF DictInv
  <1> QED
    BY <1>1, <1>3, <1>4, <1>6, <1>7, <1>8, AnswerOne

(* flush() of an inflate stream: it is reset only where the peer's deflater is. *)
LEMMA InflateFlushDict ==
  ASSUME Inv, DictInv, NEW c \in Conns, NEW ended \in BOOLEAN, OnInflateFlush(c, ended)
  PROVE  DictInv'
  <1> DEFINE s == streams[c].inflate
             j == s.callback[1]
             b == BaseAfter(c, "inflate", j, s)
             t == IF s.error \/ ended THEN Null ELSE Idle(b)
  <1>1. "inflate" \in Dirs /\ Running(c, "inflate")
    BY DEF Dirs, OnInflateFlush, Running
  <1>2. /\ s \in Stream /\ j \in Job /\ j.conn = c /\ j.dir = "inflate" /\ j.n = asked[c].inflate
        /\ dict[c].inflate = Behind(j) /\ s.base <= j.dict
    BY <1>1, RunningJob
  <1>3. /\ Answer(c, "inflate", [streams EXCEPT ![c].inflate = t])
        /\ dict' = IF ended THEN [dict EXCEPT ![c].inflate = j.n + 1] ELSE dict
        /\ failure' = IF s.error THEN [failure EXCEPT ![c] = 1009] ELSE failure
        /\ UNCHANGED <<concurrency, asked, cleaned>>
    BY DEF OnInflateFlush
  <1>4. /\ dict \in [Conns -> [Dirs -> Nat]] /\ failure \in [Conns -> {0, 1007, 1009}]
        /\ asked[c].inflate \in Nat /\ dict[c].inflate <= asked[c].inflate + 1
    BY <1>1 DEF Inv, TypeOK, DictInv
  <1> HIDE DEF s, j
  <1>5. b \in Nat /\ b <= Behind(j)
    BY <1>2 DEF BaseAfter, Behind, Stream, Job
  <1> HIDE DEF b
  <1>6. Idle(b) \in Stream /\ Idle(b).callback = <<>> /\ Idle(b).open /\ Idle(b).base = b
    BY <1>5 DEF Idle, Stream
  <1>7. Null \in Stream /\ Null.callback = <<>> /\ ~Null.open
    BY DEF Null, Stream
  <1>8. t \in Stream /\ t.callback = <<>>
    BY <1>6, <1>7
  <1>9. j.n + 1 \in Nat /\ j.n + 1 = asked[c].inflate + 1
    BY <1>2, <1>4
  <1>10. /\ dict' \in [Conns -> [Dirs -> Nat]]
         /\ dict'[c].inflate = IF ended THEN j.n + 1 ELSE dict[c].inflate
         /\ \A x \in Conns, y \in Dirs : <<x, y>> # <<c, "inflate">> => dict'[x][y] = dict[x][y]
    BY <1>1, <1>3, <1>4, <1>9
  <1>11. dict'[c].inflate <= asked[c].inflate + 1
    BY <1>4, <1>9, <1>10
  <1>12. \A x \in Conns : failure'[x] = 0 => failure[x] = 0
    BY <1>3, <1>4
  <1>13. ASSUME failure'[c] = 0
         PROVE  Fits("inflate", t, asked[c].inflate + 1, dict'[c].inflate)
    <2>1. ~s.error
      BY <1>3, <1>4, <1>13
    <2>2. CASE ended
      <3>1. t = Null /\ dict'[c].inflate = asked[c].inflate + 1
        BY <1>9, <1>10, <2>2
      <3> QED
        BY <1>4, <1>7, <3>1 DEF Fits, BaseFor
    <2>3. CASE ~ended
      <3>1. t = Idle(b) /\ dict'[c].inflate = dict[c].inflate
        BY <1>10, <2>1, <2>3
      <3> QED
        BY <1>2, <1>5, <1>6, <3>1 DEF Fits, BaseFor
    <2> QED
      BY <2>2, <2>3
  <1> HIDE DEF t
  <1> QED
    BY <1>1, <1>3, <1>8, <1>10, <1>11, <1>12, <1>13, AnswerOne

(* inflateOnError(): nothing is inflated after it. *)
LEMMA InflateErrorDict ==
  ASSUME Inv, DictInv, NEW c \in Conns, InflateOnError(c)
  PROVE  DictInv'
  <1>1. "inflate" \in Dirs /\ Running(c, "inflate") /\ Null \in Stream /\ Null.callback = <<>>
    BY DEF Dirs, InflateOnError, Running, Null, Stream
  <1>2. /\ Answer(c, "inflate", [streams EXCEPT ![c].inflate = Null])
        /\ failure' = [failure EXCEPT ![c] = 1007]
        /\ UNCHANGED <<concurrency, asked, cleaned, dict>>
    BY DEF InflateOnError
  <1>3. dict \in [Conns -> [Dirs -> Nat]] /\ failure \in [Conns -> {0, 1007, 1009}]
    BY DEF Inv, TypeOK
  <1>4. dict'[c].inflate <= asked[c].inflate + 1
    BY <1>1, <1>2 DEF DictInv
  <1>5. failure'[c] # 0 /\ \A x \in Conns : failure'[x] = 0 => failure[x] = 0
    BY <1>2, <1>3
  <1> QED
    BY ZenonT(60), <1>1, <1>2, <1>3, <1>4, <1>5, AnswerOne

(* inflateOnData() past maxPayload leaves the dictionary as it is. *)
LEMMA InflateDataDict ==
  ASSUME Inv, DictInv, NEW c \in Conns, InflateOnData(c)
  PROVE  DictInv'
  <1>1. /\ streams' = [streams EXCEPT ![c].inflate.error = TRUE]
        /\ UNCHANGED <<instances, concurrency, pending, jobs, stale, asked,
                       answered, dict, failure, cleaned>>
    BY DEF InflateOnData
  <1>2. streams \in Streams /\ "inflate" \in Dirs /\ jobs \in Seq(Job)
    BY DEF Inv, Slots, Dirs
  <1>3. ASSUME NEW x \in Conns, NEW y \in Dirs
        PROVE  /\ streams'[x][y].callback = streams[x][y].callback
               /\ streams'[x][y].open = streams[x][y].open
               /\ streams'[x][y].base = streams[x][y].base
    <2> DEFINE s == streams[c].inflate
               t == [s EXCEPT !.error = TRUE]
    <2>1. s \in Stream
      BY <1>2 DEF Streams
    <2>2. t.callback = s.callback /\ t.open = s.open /\ t.base = s.base
      BY <2>1 DEF Stream
    <2>3. streams' = [streams EXCEPT ![c]["inflate"] = t]
      BY <1>1
    <2> HIDE DEF t
    <2>4. streams'[x][y] = IF x = c /\ y = "inflate" THEN t ELSE streams[x][y]
      BY <1>2, <2>3 DEF Streams
    <2> QED
      BY <2>2, <2>4
  <1>4. RunningIn(streams') = RunningIn(streams)
    BY <1>3 DEF RunningIn
  <1>5. \A k \in RunningIn(streams) :
          /\ k[1] \in Conns /\ k[2] \in Dirs
          /\ streams'[k[1]][k[2]].callback = streams[k[1]][k[2]].callback
          /\ streams'[k[1]][k[2]].open = streams[k[1]][k[2]].open
    BY <1>3 DEF RunningIn
  <1>6. InPlace(streams) /\ InPlace(streams')
    BY <1>4, <1>5 DEF InPlace, DictInv
  <1>7. JobsIn(jobs', streams') = JobsIn(jobs, streams)
    BY <1>1, <1>4, <1>5 DEF JobsIn
  <1>8. ASSUME NEW j \in JobsIn(jobs, streams)
        PROVE  JobFits(j, streams') /\ Last(j, asked', dict')
    <2>1. JobFits(j, streams) /\ Last(j, asked, dict)
      BY DEF DictInv
    <2>2. j.conn \in Conns /\ j.dir \in Dirs
      BY <1>2, <1>6, JobKeys DEF Job
    <2>3. BaseFor(streams'[j.conn][j.dir], j.n) = BaseFor(streams[j.conn][j.dir], j.n)
      BY <1>3, <2>2 DEF BaseFor
    <2> QED
      BY <1>1, <2>1, <2>3 DEF JobFits, Fits
  <1>9. ASSUME NEW x \in Conns, NEW y \in Dirs
        PROVE  /\ dict'[x][y] <= asked'[x][y] + 1
               /\ Usable(x, y)' => Fits(y, streams'[x][y], asked'[x][y] + 1, dict'[x][y])
    <2>1. Usable(x, y)' <=> Usable(x, y)
      BY <1>1 DEF Usable, InFlight
    <2>2. BaseFor(streams'[x][y], asked[x][y] + 1) = BaseFor(streams[x][y], asked[x][y] + 1)
      BY <1>3 DEF BaseFor
    <2> QED
      BY <1>1, <2>1, <2>2 DEF DictInv, Fits
  <1> QED
    BY <1>6, <1>7, <1>8, <1>9, DictKept

(* cleanup(): a job that waits starts a deflater of its own, and fits that. *)
LEMMA CleanupDict ==
  ASSUME Inv, DictInv, NEW c \in Conns, Cleanup(c)
  PROVE  DictInv'
  <1> DEFINE running == streams[c].deflate.callback
             closed == [streams EXCEPT ![c] = [d \in Dirs |-> Null]]
  <1>1. /\ ~InFlight(c, "inflate")
        /\ cleaned' = cleaned \cup {c}
        /\ UNCHANGED <<concurrency, asked, dict, failure>>
        /\ IF running # <<>>
             THEN Answer(c, "deflate", closed)
             ELSE streams' = closed /\ UNCHANGED <<pending, jobs, answered>>
    BY DEF Cleanup
  <1>2. /\ streams \in Streams /\ "inflate" \in Dirs /\ "deflate" \in Dirs
        /\ dict \in [Conns -> [Dirs -> Nat]] /\ jobs \in Seq(Job)
        /\ asked \in [Conns -> [Dirs -> Nat]] /\ answered \in [Conns -> [Dirs -> Nat]]
        /\ Busy = Queued(jobs) \cup RunningIn(streams) /\ InPlace(streams)
        /\ Queued(jobs) \cap RunningIn(streams) = {}
    BY DEF Inv, Slots, Dirs, TypeOK, Accounted, DictInv
  <1>3. Null \in Stream /\ Null.callback = <<>> /\ ~Null.open
    BY DEF Null, Stream
  <1>4. closed \in Streams
    BY <1>2, <1>3 DEF Streams
  <1>5. \A x \in Conns, y \in Dirs : closed[x][y] = IF x = c THEN Null ELSE streams[x][y]
    BY <1>2 DEF Streams
  <1> HIDE DEF closed
  <1>6. <<c, "inflate">> \notin Queued(jobs) \cup RunningIn(streams)
    BY <1>1, <1>2 DEF Busy
  <1>7. RunningIn(closed) = RunningIn(streams) \ {<<c, "deflate">>}
    <2>1. RunningIn(streams) \ {<<c, "deflate">>} \subseteq RunningIn(closed)
      BY <1>5, <1>6 DEF RunningIn, Dirs
    <2>2. RunningIn(closed) \subseteq RunningIn(streams) \ {<<c, "deflate">>}
      BY <1>3, <1>5 DEF RunningIn
    <2> QED
      BY <2>1, <2>2
  <1>8. ASSUME NEW x \in Conns, NEW y \in Dirs
        PROVE  /\ dict'[x][y] <= asked[x][y] + 1
               /\ (x = c /\ Usable(x, y)') => Fits(y, closed[x][y], asked[x][y] + 1, dict'[x][y])
    <2>1. dict'[x][y] <= asked[x][y] + 1
      BY <1>1 DEF DictInv
    <2>2. ASSUME x = c, Usable(x, y)' PROVE Fits(y, closed[x][y], asked[x][y] + 1, dict'[x][y])
      <3>1. y = "deflate" /\ closed[x][y] = Null
        BY <1>1, <1>5, <2>2 DEF Usable, Dirs
      <3>2. dict[x][y] \in Nat /\ asked[x][y] + 1 \in Nat /\ dict'[x][y] = dict[x][y]
        BY SMTT(30), <1>1, <1>2
      <3> QED
        BY <1>3, <2>1, <3>1, <3>2 DEF Fits, BaseFor
    <2> QED
      BY <2>1, <2>2
  <1>9. ASSUME NEW x \in Conns, NEW y \in Dirs, x # c, Usable(x, y)'
        PROVE  Fits(y, closed[x][y], asked[x][y] + 1, dict'[x][y])
    <2>1. answered'[x][y] = answered[x][y]
      <3>1. answered' = answered \/ answered' = [answered EXCEPT ![c].deflate = @ + 1]
        BY <1>1 DEF Answer
      <3> QED
        BY <1>2, <1>9, <3>1
    <2>2. Usable(x, y)
      BY <1>1, <1>9, <2>1 DEF Usable, InFlight
    <2> QED
      BY <1>1, <1>5, <1>9, <2>2 DEF DictInv
  <1>10. CASE running # <<>>
    <2>1. Running(c, "deflate") /\ Answer(c, "deflate", closed)
      BY <1>1, <1>10 DEF Running
    <2>2. <<c, "deflate">> \in RunningIn(streams)
      BY <1>2, <2>1 DEF Running, RunningIn
    <2>3. ASSUME NEW x \in Conns, NEW y \in Dirs,
                 <<x, y>> \in Queued(jobs) \cup RunningIn(closed)
          PROVE  closed[x][y] = streams[x][y]
      <3>1. <<x, y>> # <<c, "deflate">> /\ <<x, y>> # <<c, "inflate">>
        BY <1>2, <1>6, <1>7, <2>2, <2>3
      <3>2. x # c
        BY <3>1 DEF Dirs
      <3> QED
        BY <1>5, <3>2
    <2> QED
      BY <1>1, <1>2, <1>4, <1>7, <1>8, <1>9, <2>1, <2>3, AnswerDict
  <1>11. CASE running = <<>>
    <2>1. streams' = closed /\ UNCHANGED <<pending, jobs, answered>>
      BY <1>1, <1>11
    <2>2. RunningIn(closed) = RunningIn(streams)
      BY <1>7, <1>11 DEF RunningIn
    <2>3. \A k \in RunningIn(streams) :
            /\ k[1] \in Conns /\ k[2] \in Dirs
            /\ closed[k[1]][k[2]] = streams[k[1]][k[2]]
      <3> TAKE k \in RunningIn(streams)
      <3>1. k[1] \in Conns /\ k[2] \in Dirs /\ streams[k[1]][k[2]].callback # <<>>
        BY DEF RunningIn
      <3>2. closed[k[1]][k[2]].callback # <<>>
        BY <2>2 DEF RunningIn
      <3> QED
        BY <1>3, <1>5, <3>1, <3>2
    <2>4. InPlace(closed) /\ JobsIn(jobs, closed) = JobsIn(jobs, streams)
      BY <1>2, <2>2, <2>3 DEF InPlace, JobsIn
    <2>5. ASSUME NEW j \in JobsIn(jobs, streams)
          PROVE  JobFits(j, closed) /\ Last(j, asked', dict')
      <3>1. JobFits(j, streams) /\ Last(j, asked, dict)
        BY DEF DictInv
      <3>2. j \in Job /\ Key(j) \in Queued(jobs) \cup RunningIn(streams)
        BY <1>2, JobKeys
      <3>3. /\ j.conn \in Conns /\ j.dir \in Dirs /\ j.n \in Nat /\ j.dict \in Nat
            /\ <<j.conn, j.dir>> # <<c, "inflate">>
        BY <1>6, <3>2 DEF Job, Key
      <3>4. CASE j.conn = c
        <4>1. j.dir = "deflate" /\ closed[j.conn][j.dir] = Null
          BY <1>5, <3>3, <3>4 DEF Dirs
        <4> QED
          BY <1>1, <1>3, <3>1, <3>3, <4>1 DEF JobFits, Last, Fits, BaseFor
      <3>5. CASE j.conn # c
        BY <1>1, <1>5, <3>1, <3>3, <3>5 DEF JobFits
      <3> QED
        BY <3>4, <3>5
    <2> QED
      BY <1>1, <1>8, <1>9, <2>1, <2>4, <2>5, DictKept
  <1> QED
    BY <1>10, <1>11

(* The steps that leave jobs, streams and counts alone. *)
LEMMA IdleDict ==
  ASSUME DictInv, UNCHANGED <<jobs, streams, asked, answered, dict, failure, cleaned>>
  PROVE  DictInv'
  BY DEF DictInv, InPlace, JobsIn, RunningIn, Key, JobFits, Fits, BaseFor, Last, Behind,
         Endpoint, Usable, InFlight

(* Every step of Next keeps DictInv. *)
LEMMA NextDict == Inv /\ DictInv /\ [Next]_vars => DictInv'
  <1> SUFFICES ASSUME Inv, DictInv, [Next]_vars PROVE DictInv'
    OBVIOUS
  <1>1. CASE UNCHANGED vars
    BY <1>1, IdleDict DEF vars
  <1>2. ASSUME NEW c \in Conns, Use(c) PROVE DictInv'
    <2>1. CASE Construct(c)
      BY <2>1, IdleDict DEF Construct
    <2>2. ASSUME NEW fin \in BOOLEAN, Compress(c, fin) PROVE DictInv'
      BY <2>2, CallDict DEF Compress, Dirs, Usable
    <2>3. ASSUME NEW fin \in BOOLEAN, Decompress(c, fin) PROVE DictInv'
      BY <2>3, CallDict DEF Decompress, Dirs, Usable
    <2>4. CASE Cleanup(c)
      BY <2>4, CleanupDict
    <2> QED
      BY <1>2, <2>1, <2>2, <2>3, <2>4 DEF Use
  <1>3. ASSUME NEW c \in Conns, Zlib(c) PROVE DictInv'
    <2>1. CASE OnDeflateFlush(c)
      BY <2>1, DeflateFlushDict
    <2>2. CASE OnStaleFlush(c)
      <3>1. ~streams[c].deflate.open
        BY <2>2 DEF OnStaleFlush, Inv, Closed
      <3> QED
        BY <2>2, <3>1, IdleDict DEF OnStaleFlush
    <2>3. CASE InflateOnData(c)
      BY <2>3, InflateDataDict
    <2>4. ASSUME NEW ended \in BOOLEAN, OnInflateFlush(c, ended) PROVE DictInv'
      BY <2>4, InflateFlushDict
    <2>5. CASE InflateOnError(c)
      BY <2>5, InflateErrorDict
    <2> QED
      BY <1>3, <2>1, <2>2, <2>3, <2>4, <2>5 DEF Zlib
  <1> QED
    BY <1>1, <1>2, <1>3 DEF Next

(* The first frame of a stream refers to nothing. *)
LEMMA InitDict == Init => DictInv
  <1> SUFFICES ASSUME Init PROVE DictInv
    OBVIOUS
  <1>1. /\ jobs = <<>> /\ RunningIn(streams) = {}
        /\ \A c \in Conns, d \in Dirs :
              streams[c][d] = Null /\ asked[c][d] = 0 /\ dict[c][d] = 1
    BY DEF Init, RunningIn, Null
  <1>2. JobsIn(jobs, streams) = {}
    BY <1>1 DEF JobsIn
  <1> QED
    BY <1>1, <1>2 DEF DictInv, InPlace, Fits, BaseFor, Null

(* What a deflater refers to, the inflater of the other end remembers, for   *)
(* any number of frames, any rules of context takeover on either side, and   *)
(* however jobs wait in the limiter, fail, or outlive their connection       *)
(* (permessage-deflate.js:386, 451).                                         *)
THEOREM DictionariesKept == Spec => []DictionariesAgree
  <1>1. ASSUME Inv, DictInv PROVE DictionariesAgree
    <2> SUFFICES ASSUME NEW c \in Conns, NEW d \in Dirs, Running(c, d)
                 PROVE  LET s == streams[c][d]
                            j == s.callback[1]
                        IN  IF d = "deflate" THEN s.base >= j.dict ELSE s.base <= j.dict
      BY DEF DictionariesAgree
    <2> QED
      BY <1>1, RunningJob
  <1>2. Inv /\ DictInv => DictionariesAgree
    BY <1>1
  <1>3. Init => DictInv
    BY InitDict
  <1>4. Inv /\ DictInv /\ [Next]_vars => DictInv'
    BY NextDict
  <1> QED
    BY <1>2, <1>3, <1>4, DeflateInvariance, PTL DEF Spec
=============================================================================
