-------------------------- MODULE PermessageDeflate --------------------------
(***************************************************************************)
(* lib/permessage-deflate.js and lib/limiter.js: the deflate and inflate   *)
(* streams of several connections of one process behind the one Limiter    *)
(* they share, with the calls that sender.js, receiver.js and websocket.js *)
(* make.                                                                   *)
(*                                                                         *)
(* A payload is its place in the sequence of frames deflated in its        *)
(* direction; the dictionary of a zlib stream is the first frame it still  *)
(* remembers.  Sizes matter only where a frame inflates past maxPayload.   *)
(***************************************************************************)
EXTENDS Integers, Sequences, FiniteSets

CONSTANTS
    Conns,          \* the connections of the process
    IsServer,       \* IsServer[c]: _isServer of the extension of c
    Limit,          \* Limit[c]: options.concurrencyLimit given to c
    NoTakeover,     \* NoTakeover[c]: endpoints with *_no_context_takeover in params
    MaxFrames       \* bound: MaxFrames[c][d] frames of c in direction d

ASSUME DeflateAssumption ==
    /\ IsFiniteSet(Conns)
    /\ IsServer \in [Conns -> BOOLEAN]
    /\ Limit \in [Conns -> Nat \ {0}]
    /\ NoTakeover \in [Conns -> SUBSET {"client", "server"}]
    /\ MaxFrames \in [Conns -> [{"deflate", "inflate"} -> Nat]]

VARIABLES
    instances,    \* connections whose extension exists
    concurrency,  \* zlibLimiter.concurrency; 0 before there is a limiter
    pending,      \* zlibLimiter.pending
    jobs,         \* zlibLimiter.jobs
    streams,      \* streams[c].deflate and .inflate: _deflate and _inflate
    stale,        \* jobs of closed deflate streams whose flush() is to call back
    asked,        \* asked[c][d]: calls of compress() or decompress()
    answered,     \* answered[c][d]: callbacks of those calls
    dict,         \* dict[c][d]: where the dictionary of the next frame starts
    failure,      \* failure[c]: status code of the error given to the receiver
    cleaned       \* connections whose cleanup() has run

vars == <<instances, concurrency, pending, jobs, streams, stale, asked,
          answered, dict, failure, cleaned>>

-----------------------------------------------------------------------------
Dirs == {"deflate", "inflate"}

(* The arguments of compress() or decompress().  `dict` is the first frame   *)
(* the peer's stream is sure to share with ours: its inflater remembers it,  *)
(* or its deflater may refer to it.                                          *)
Job == [conn : Conns, dir : Dirs, n : Nat, dict : Nat, fin : BOOLEAN]

(* A zlib stream.  `base`: the first frame its dictionary holds; `callback`: *)
(* kCallback while a job runs, as a sequence; `error`: kError is set.        *)
Null == [open |-> FALSE, base |-> 0, callback |-> <<>>, error |-> FALSE]
Idle(base) == [open |-> TRUE, base |-> base, callback |-> <<>>, error |-> FALSE]

(* Which endpoint's parameters govern a direction of connection c. *)
Endpoint(c, d) == IF IsServer[c] = (d = "deflate") THEN "server" ELSE "client"

InFlight(c, d) == answered[c][d] < asked[c][d]

Init ==
    /\ instances = {}
    /\ concurrency = 0
    /\ pending = 0
    /\ jobs = <<>>
    /\ streams = [c \in Conns |-> [d \in Dirs |-> Null]]
    /\ stale = [c \in Conns |-> <<>>]
    /\ asked = [c \in Conns |-> [d \in Dirs |-> 0]]
    /\ answered = asked
    /\ dict = [c \in Conns |-> [d \in Dirs |-> 1]]
    /\ failure = [c \in Conns |-> 0]
    /\ cleaned = {}

-----------------------------------------------------------------------------
(* _compress() and _decompress() up to flush(): the stream is created where  *)
(* there is none and is given the job.                                       *)
Start(ss, j) ==
    LET s == ss[j.conn][j.dir]
    IN  [ss EXCEPT ![j.conn][j.dir] =
            [IF s.open THEN s ELSE Idle(j.n) EXCEPT !.callback = <<j>>]]

(* Limiter[kRun]() with p jobs pending, q waiting and the streams ss. *)
Run(p, q, ss) ==
    IF p = concurrency \/ q = <<>>
      THEN pending' = p /\ jobs' = q /\ streams' = ss
      ELSE pending' = p + 1 /\ jobs' = Tail(q) /\ streams' = Start(ss, Head(q))

(* Limiter.add(). *)
Add(j) == Run(pending, Append(jobs, j), streams)

(* Faulty variant: a freed slot waits for the next add(). *)
DoneIdle(ss) == pending' = pending - 1 /\ jobs' = jobs /\ streams' = ss

(* Faulty variant: both the stream and the wrapper around it call done(). *)
DoneTwice(ss) == Run(pending - 2, jobs, ss)

(* Limiter[kDone](). *)
Done(ss) == Run(pending - 1, jobs, ss)

(* done() and the caller's callback. *)
Answer(c, d, ss) ==
    /\ Done(ss)
    /\ answered' = [answered EXCEPT ![c][d] = @ + 1]

-----------------------------------------------------------------------------
(* The constructor: the first instance of the process makes the limiter. *)
Construct(c) ==
    /\ c \notin instances
    /\ instances' = instances \cup {c}
    /\ concurrency' = IF concurrency = 0 THEN Limit[c] ELSE concurrency
    /\ UNCHANGED <<pending, jobs, streams, stale, asked, answered, dict, failure,
                   cleaned>>

(* compress() or decompress() is called with the next frame; the dictionary  *)
(* starts afresh behind a message that ends without context takeover.        *)
Call(c, d, fin) ==
    LET n == asked[c][d] + 1
    IN  /\ n <= MaxFrames[c][d]
        /\ asked' = [asked EXCEPT ![c][d] = n]
        /\ dict' = IF fin /\ Endpoint(c, d) \in NoTakeover[c]
                     THEN [dict EXCEPT ![c][d] = n + 1] ELSE dict
        /\ Add([conn |-> c, dir |-> d, n |-> n, dict |-> dict[c][d], fin |-> fin])
        /\ UNCHANGED <<instances, concurrency, stale, answered, failure, cleaned>>

(* Sender.dispatch(), which has one frame at the compressor at a time and    *)
(* none once the connection has closed.                                      *)
Compress(c, fin) ==
    /\ c \in instances \ cleaned
    /\ ~InFlight(c, "deflate")
    /\ Call(c, "deflate", fin)

(* Receiver.decompress(), called again only after the answer, and never      *)
(* after an error.                                                           *)
Decompress(c, fin) ==
    /\ c \in instances \ cleaned
    /\ ~InFlight(c, "inflate")
    /\ failure[c] = 0
    /\ Call(c, "inflate", fin)

-----------------------------------------------------------------------------
(* Faulty variant: the other endpoint's parameter is looked up. *)
BaseAfterSwapped(c, d, j, s) ==
    IF j.fin /\ \E e \in NoTakeover[c] : e # Endpoint(c, d) THEN j.n + 1 ELSE s.base

(* Where a stream's dictionary starts after the reset() that ends a message  *)
(* without context takeover.                                                 *)
BaseAfter(c, d, j, s) ==
    IF j.fin /\ Endpoint(c, d) \in NoTakeover[c] THEN j.n + 1 ELSE s.base

(* The callback of _deflate.flush(): kCallback is cleared, the stream reset. *)
DeflateFlushed(c, j) ==
    LET s == streams[c].deflate
    IN  Answer(c, "deflate",
               [streams EXCEPT ![c].deflate = Idle(BaseAfter(c, "deflate", j, s))])

OnDeflateFlush(c) ==
    /\ streams[c].deflate.callback # <<>>
    /\ DeflateFlushed(c, streams[c].deflate.callback[1])
    /\ UNCHANGED <<instances, concurrency, stale, asked, dict, failure, cleaned>>

(* Faulty variant: the callback does not ask whether its stream was closed. *)
OnStaleFlushUnchecked(c) ==
    /\ stale[c] # <<>>
    /\ stale' = [stale EXCEPT ![c] = Tail(@)]
    /\ DeflateFlushed(c, Head(stale[c]))
    /\ UNCHANGED <<instances, concurrency, asked, dict, failure, cleaned>>

(* The same callback after cleanup() closed its stream. *)
OnStaleFlush(c) ==
    /\ stale[c] # <<>>
    /\ stale' = [stale EXCEPT ![c] = Tail(@)]
    /\ IF streams[c].deflate.open
         THEN DeflateFlushed(c, Head(stale[c]))
         ELSE UNCHANGED <<pending, jobs, streams, answered>>
    /\ UNCHANGED <<instances, concurrency, asked, dict, failure, cleaned>>

(* inflateOnData() where the output exceeds maxPayload: the stream is reset  *)
(* and the rest of its output is not listened to.                            *)
InflateOnData(c) ==
    LET s == streams[c].inflate
    IN  /\ s.callback # <<>>
        /\ ~s.error
        /\ streams' = [streams EXCEPT ![c].inflate.error = TRUE]
        /\ UNCHANGED <<instances, concurrency, pending, jobs, stale, asked,
                       answered, dict, failure, cleaned>>

(* The callback of _inflate.flush().  `ended`: the peer ended its deflate    *)
(* stream with this frame (endEmitted), and starts another with the next.    *)
OnInflateFlush(c, ended) ==
    LET s == streams[c].inflate
        j == s.callback[1]
    IN  /\ s.callback # <<>>
        /\ Answer(c, "inflate",
                  [streams EXCEPT ![c].inflate =
                      IF s.error \/ ended THEN Null
                      ELSE Idle(BaseAfter(c, "inflate", j, s))])
        /\ failure' = IF s.error THEN [failure EXCEPT ![c] = 1009] ELSE failure
        /\ dict' = IF ended THEN [dict EXCEPT ![c].inflate = j.n + 1] ELSE dict
        /\ UNCHANGED <<instances, concurrency, stale, asked, cleaned>>

(* Faulty variant: the error goes to the receiver, not through done(). *)
InflateOnErrorDirect(c) ==
    /\ streams[c].inflate.callback # <<>>
    /\ streams' = [streams EXCEPT ![c].inflate = Null]
    /\ answered' = [answered EXCEPT ![c].inflate = @ + 1]
    /\ failure' = [failure EXCEPT ![c] = 1007]
    /\ UNCHANGED <<instances, concurrency, pending, jobs, stale, asked, dict, cleaned>>

(* inflateOnError(): the data is not what a deflater makes, or the reset()   *)
(* of inflateOnData() left the inflater in the middle of it.  zlib never     *)
(* calls back the flush() behind a failed write.                             *)
InflateOnError(c) ==
    /\ streams[c].inflate.callback # <<>>
    /\ Answer(c, "inflate", [streams EXCEPT ![c].inflate = Null])
    /\ failure' = [failure EXCEPT ![c] = 1007]
    /\ UNCHANGED <<instances, concurrency, stale, asked, dict, cleaned>>

(* Faulty variant: cleanup() drops the callback of a running job. *)
CleanupSilent(c) ==
    /\ c \in instances \ cleaned
    /\ ~InFlight(c, "inflate")
    /\ cleaned' = cleaned \cup {c}
    /\ stale' = [stale EXCEPT ![c] = @ \o streams[c].deflate.callback]
    /\ streams' = [streams EXCEPT ![c] = [d \in Dirs |-> Null]]
    /\ UNCHANGED <<instances, concurrency, pending, jobs, asked, answered, dict, failure>>

(* cleanup(), called by emitClose() once the receiver has finished or        *)
(* failed.  The callback of a running deflate job is called at once; the     *)
(* one of its flush() is still to come.                                      *)
Cleanup(c) ==
    LET running == streams[c].deflate.callback
        closed  == [streams EXCEPT ![c] = [d \in Dirs |-> Null]]
    IN  /\ c \in instances \ cleaned
        /\ ~InFlight(c, "inflate")
        /\ cleaned' = cleaned \cup {c}
        /\ stale' = [stale EXCEPT ![c] = @ \o running]
        /\ IF running # <<>>
             THEN Answer(c, "deflate", closed)
             ELSE streams' = closed /\ UNCHANGED <<pending, jobs, answered>>
        /\ UNCHANGED <<instances, concurrency, asked, dict, failure>>

-----------------------------------------------------------------------------
Use(c) ==
    \/ Construct(c)
    \/ \E fin \in BOOLEAN : Compress(c, fin) \/ Decompress(c, fin)
    \/ Cleanup(c)

Zlib(c) ==
    \/ OnDeflateFlush(c)
    \/ OnStaleFlush(c)
    \/ InflateOnData(c)
    \/ \E ended \in BOOLEAN : OnInflateFlush(c, ended)
    \/ InflateOnError(c)

Next == \E c \in Conns : Use(c) \/ Zlib(c)

Spec == Init /\ [][Next]_vars

(* zlib works off what it was given; nothing is asked of the callers. *)
Fairness ==
    \A c \in Conns :
        /\ WF_vars(OnDeflateFlush(c))
        /\ WF_vars(OnStaleFlush(c))
        /\ WF_vars(InflateOnError(c) \/ \E ended \in BOOLEAN : OnInflateFlush(c, ended))

FairSpec == Spec /\ Fairness

-----------------------------------------------------------------------------
Running(c, d) == streams[c][d].callback # <<>>

Stream == [open : BOOLEAN, base : Nat, callback : Seq(Job), error : BOOLEAN]

(* The type invariant. *)
TypeOK ==
    /\ instances \subseteq Conns
    /\ cleaned \subseteq instances
    /\ concurrency \in Nat
    /\ pending \in Nat
    /\ jobs \in Seq(Job)
    /\ streams \in [Conns -> [Dirs -> Stream]]
    /\ stale \in [Conns -> Seq(Job)]
    /\ asked \in [Conns -> [Dirs -> Nat]]
    /\ answered \in [Conns -> [Dirs -> Nat]]
    /\ dict \in [Conns -> [Dirs -> Nat]]
    /\ failure \in [Conns -> {0, 1007, 1009}]

(* A slot of the limiter is taken for each job that zlib works on and for no *)
(* other: neither cleanup() nor an error loses one or frees one twice        *)
(* (limiter.js:45, permessage-deflate.js:136, 511).                          *)
SlotsExact ==
    /\ pending = Cardinality({k \in Conns \X Dirs : Running(k[1], k[2])})
    /\ pending <= concurrency

(* No job waits while a slot is free: each done() starts the next job        *)
(* (limiter.js:43).                                                          *)
NoIdleSlot == jobs # <<>> => pending = concurrency

(* A call that was not answered is either waiting in the limiter, at one     *)
(* place, or running, and an answered one is neither: the callback of every  *)
(* compress() and decompress() runs exactly once, although cleanup() and     *)
(* flush() both may call it (permessage-deflate.js:136, 428).                *)
JobsAccounted ==
    \A c \in Conns, d \in Dirs :
        asked[c][d] - answered[c][d] =
            Cardinality({i \in DOMAIN jobs : jobs[i].conn = c /\ jobs[i].dir = d})
            + (IF Running(c, d) THEN 1 ELSE 0)

(* What a deflater refers to, its peer's inflater remembers: our deflater is *)
(* reset at least as often as the peer's inflater may be, and our inflater   *)
(* only where the peer's deflater is (permessage-deflate.js:386, 451).       *)
DictionariesAgree ==
    \A c \in Conns, d \in Dirs : Running(c, d) =>
        LET s == streams[c][d]
            j == s.callback[1]
        IN  IF d = "deflate" THEN s.base >= j.dict ELSE s.base <= j.dict

(* Every call is answered, whatever the other connections of the process do  *)
(* (limiter.js:43).                                                          *)
EveryJobAnswered ==
    \A c \in Conns, d \in Dirs : InFlight(c, d) ~> ~InFlight(c, d)

(* permessage-deflate.js:124: cleanup() releases all resources used by the   *)
(* extension, so that no stream is left open once its last job is done.      *)
CleanupReleases ==
    \A c \in cleaned, d \in Dirs : streams[c][d].open => InFlight(c, d)

(* doc/ws.md:619: a message longer than maxPayload is reported as such, with *)
(* the status code 1009.                                                     *)
TooLongIsReported ==
    [][\A c \in Conns :
         (failure'[c] # failure[c] /\ streams[c].inflate.error) => failure'[c] = 1009]_vars
=============================================================================
