----------------------- MODULE WebSocketStreamProofs -----------------------
(***************************************************************************)
(* Proofs about the stream of createWebSocketStream().  The inductive      *)
(* invariant is Sound, of a state x of both parts, as the functions of     *)
(* module WebSocketStream are: it relates the queue of process.nextTick,   *)
(* the events emitted, and what the WebSocket may still say.  One lemma    *)
(* says of each function that it keeps a state sound, in the order in      *)
(* which the functions call each other; StepSound puts them together,      *)
(* action by action.  The three theorems are at the end.                   *)
(***************************************************************************)
EXTENDS WebSocketStream, SequenceTheorems, TLAPS

-----------------------------------------------------------------------------
(* The types, with numbers where TypeOK has a bound: that is a consequence. *)
WS == [readyState : {"CONNECTING", "OPEN", "CLOSING", "CLOSED"},
       socket : {"none", "open", "finished", "lost"}, paused : BOOLEAN,
       failed : BOOLEAN, arrived : Nat, inside : Nat]

Callbacks == {"end", "finish", "error", "closed", "failed", "close"}

Events == {"end", "finish", "error", "close"}

Duplex == [terminateOnDestroy : BOOLEAN, listening : SUBSET {"error", "close"},
           cause : BOOLEAN, destroyed : BOOLEAN, errored : BOOLEAN, closed : BOOLEAN,
           buffered : Nat, got : Nat, reading : BOOLEAN,
           ended : BOOLEAN, writing : {"idle", "waiting", "sending"},
           ending : BOOLEAN, final : {"no", "waiting", "dropped", "socket", "done"},
           finished : BOOLEAN, ticks : Seq(Callbacks), events : Seq(Events)]

State == [ws : WS, d : Duplex]

-----------------------------------------------------------------------------
(* Callbacks that emit nothing on a stream that has closed. *)
Harmless == {"end", "error"}

AllHarmless(ticks) == \A i \in 1 .. Len(ticks) : ticks[i] \in Harmless

(* Nothing but harmless callbacks waits behind that of 'close'. *)
CloseLast(ticks) ==
    \A i, j \in 1 .. Len(ticks) : i < j /\ ticks[i] = "close" => ticks[j] \in Harmless

FinishOnce(ticks) ==
    \A i, j \in 1 .. Len(ticks) : ticks[i] = "finish" /\ ticks[j] = "finish" => i = j

(* No event comes twice, and none comes behind 'close'. *)
EventsOK(events) ==
    \A i, j \in 1 .. Len(events) : i < j => events[i] # "close" /\ events[i] # events[j]

Waits(d, callback) == In(callback, d.ticks)

(* What the WebSocket knows of its socket and its receiver. *)
SocketOK(w) ==
    /\ w.arrived <= MaxMessages
    /\ w.readyState = "CONNECTING" => w.socket = "none"
    /\ w.readyState = "OPEN" => w.socket = "open"
    /\ w.readyState = "CLOSED" => w.socket # "open" /\ w.inside = 0
    /\ w.failed => w.inside = 0 /\ w.readyState \in {"CLOSING", "CLOSED"}

(* Messages are in the receiver, in the buffer or read; none is missing at   *)
(* the end but for an error.                                                 *)
Counted(w, d) ==
    /\ d.got + d.buffered + w.inside <= w.arrived
    /\ d.ended => w.readyState = "CLOSED"
    /\ d.ended /\ ~d.errored => d.got + d.buffered = w.arrived
    /\ Waits(d, "end") => d.ended
    /\ Has(d, "end") => d.ended /\ d.buffered = 0 /\ d.got = w.arrived

(* A stream drops messages only when it is destroyed or errored. *)
Complete(w, d) == ~d.destroyed /\ ~d.errored => d.got + d.buffered + w.inside = w.arrived

(* 'finish' is emitted once, for a socket that has finished. *)
FinishOK(w, d) ==
    /\ Waits(d, "finish") \/ Has(d, "finish") =>
          w.socket = "finished" /\ d.writing = "idle" /\ d.ending /\ d.final = "done"
    /\ ~(Waits(d, "finish") /\ Has(d, "finish"))
    /\ FinishOnce(d.ticks)

(* Nothing is emitted behind 'close', and the callback of _destroy() comes   *)
(* before it.                                                                *)
CloseOK(w, d) ==
    /\ Waits(d, "close") \/ Has(d, "close") => d.destroyed /\ w.readyState = "CLOSED"
    /\ Waits(d, "close") => d.closed \/ Waits(d, "closed") \/ Waits(d, "failed")
    /\ Has(d, "close") => d.closed /\ AllHarmless(d.ticks)
    /\ CloseLast(d.ticks)
    /\ EventsOK(d.events)

(* An error of the WebSocket was told, or is to be; a destroyed stream hears *)
(* of what the WebSocket may still emit.                                     *)
Told(w, d, told) ==
    /\ w.failed => d.destroyed
    /\ w.failed => \/ told \/ Waits(d, "failed")
                   \/ "error" \in d.listening /\ d.cause /\ w.readyState # "CLOSED"
    /\ d.destroyed /\ w.readyState # "CLOSED" =>
          /\ "close" \in d.listening
          /\ w.failed \/ "error" \in d.listening
          /\ "error" \in d.listening \/ d.closed \/ Waits(d, "closed") \/ Waits(d, "failed")

(* The inductive invariant, of a state x. *)
Sound(x) ==
    /\ x \in State /\ SocketOK(x.ws)
    /\ Counted(x.ws, x.d) /\ Complete(x.ws, x.d)
    /\ FinishOK(x.ws, x.d) /\ CloseOK(x.ws, x.d)
    /\ Told(x.ws, x.d, Has(x.d, "error"))

-----------------------------------------------------------------------------
(* A callback joins the queue. *)
LEMMA Push ==
  ASSUME NEW s \in Seq(Callbacks), NEW c \in Callbacks
  PROVE  LET t == s \o <<c>>
         IN  /\ t \in Seq(Callbacks)
             /\ \A e : In(e, t) <=> In(e, s) \/ e = c
             /\ CloseLast(s) /\ (c \in Harmless \/ ~In("close", s)) => CloseLast(t)
             /\ FinishOnce(s) /\ (c # "finish" \/ ~In("finish", s)) => FinishOnce(t)
             /\ AllHarmless(s) /\ c \in Harmless => AllHarmless(t)
<1> DEFINE t == s \o <<c>>
<1>1. /\ t \in Seq(Callbacks) /\ Len(t) = Len(s) + 1 /\ Len(s) \in Nat /\ t[Len(s) + 1] = c
      /\ \A i \in 1 .. Len(s) : t[i] = s[i]
  OBVIOUS
<1> HIDE DEF t
<1>2. ASSUME NEW e PROVE In(e, t) <=> In(e, s) \/ e = c
  <2>1. ASSUME NEW i \in 1 .. Len(t), t[i] = e PROVE In(e, s) \/ e = c
    <3>1. i = Len(s) + 1 \/ i \in 1 .. Len(s)
      BY <1>1
    <3> QED BY <1>1, <2>1, <3>1 DEF In
  <2>2. ASSUME NEW i \in 1 .. Len(s), s[i] = e PROVE In(e, t)
    <3>1. i \in 1 .. Len(t)
      BY <1>1
    <3> QED BY <1>1, <2>2, <3>1 DEF In
  <2>3. ASSUME e = c PROVE In(e, t)
    <3>1. Len(s) + 1 \in 1 .. Len(t)
      BY <1>1
    <3> QED BY <1>1, <2>3, <3>1 DEF In
  <2> QED BY <2>1, <2>2, <2>3 DEF In
<1>3. ASSUME CloseLast(s), c \in Harmless \/ ~In("close", s) PROVE CloseLast(t)
  <2> SUFFICES ASSUME NEW i \in 1 .. Len(t), NEW j \in 1 .. Len(t), i < j, t[i] = "close"
               PROVE  t[j] \in Harmless
    BY DEF CloseLast
  <2>1. i \in 1 .. Len(s) /\ s[i] = "close"
    BY <1>1
  <2>2. In("close", s)
    BY <2>1 DEF In
  <2>3. CASE j = Len(s) + 1
    BY <1>1, <1>3, <2>2, <2>3
  <2>4. CASE j \in 1 .. Len(s)
    BY <1>1, <1>3, <2>1, <2>4 DEF CloseLast
  <2> QED BY <1>1, <2>3, <2>4
<1>4. ASSUME FinishOnce(s), c # "finish" \/ ~In("finish", s) PROVE FinishOnce(t)
  <2>1. \A i \in 1 .. Len(t) : i = Len(s) + 1 \/ i \in 1 .. Len(s)
    BY <1>1
  <2> SUFFICES ASSUME NEW i \in 1 .. Len(t), NEW j \in 1 .. Len(t), t[i] = "finish", t[j] = "finish"
               PROVE  i = j
    BY DEF FinishOnce
  <2>2. CASE i = Len(s) + 1 \/ j = Len(s) + 1
    <3>1. c = "finish" /\ ~In("finish", s)
      BY <1>1, <1>4, <2>2
    <3> QED BY <1>1, <2>1, <3>1 DEF In
  <2>3. CASE i \in 1 .. Len(s) /\ j \in 1 .. Len(s)
    BY <1>1, <1>4, <2>3 DEF FinishOnce
  <2> QED BY <2>1, <2>2, <2>3
<1>5. ASSUME AllHarmless(s), c \in Harmless PROVE AllHarmless(t)
  BY <1>1, <1>5 DEF AllHarmless
<1> QED BY <1>1, <1>2, <1>3, <1>4, <1>5 DEF t

(* The first callback leaves the queue. *)
LEMMA Pop ==
  ASSUME NEW s \in Seq(Callbacks), s # <<>>
  PROVE  LET c == Head(s)
             t == Tail(s)
         IN  /\ c \in Callbacks /\ t \in Seq(Callbacks)
             /\ \A e : In(e, s) <=> In(e, t) \/ e = c
             /\ CloseLast(s) => CloseLast(t) /\ (c = "close" => AllHarmless(t))
             /\ FinishOnce(s) => FinishOnce(t) /\ (c = "finish" => ~In("finish", t))
             /\ AllHarmless(s) => AllHarmless(t) /\ c \in Harmless
<1> DEFINE c == Head(s)
           t == Tail(s)
<1>1. /\ t \in Seq(Callbacks) /\ Len(s) = Len(t) + 1 /\ Len(t) \in Nat /\ c = s[1] /\ c \in Callbacks
      /\ \A i \in 1 .. Len(t) : t[i] = s[i + 1]
  OBVIOUS
<1> HIDE DEF c, t
<1>2. \A i \in 1 .. Len(t) : i + 1 \in 1 .. Len(s) /\ 1 < i + 1
  BY <1>1
<1>3. 1 \in 1 .. Len(s)
  BY <1>1
<1>4. \A i \in 1 .. Len(s) : i = 1 \/ (i - 1 \in 1 .. Len(t) /\ (i - 1) + 1 = i)
  BY <1>1
<1>5. ASSUME NEW e PROVE In(e, s) <=> In(e, t) \/ e = c
  <2>1. ASSUME NEW i \in 1 .. Len(s), s[i] = e PROVE In(e, t) \/ e = c
    <3>1. CASE i = 1
      BY <1>1, <2>1, <3>1
    <3>2. CASE i # 1
      <4>1. i - 1 \in 1 .. Len(t) /\ t[i - 1] = e
        BY <1>1, <1>4, <2>1, <3>2
      <4> QED BY <4>1 DEF In
    <3> QED BY <3>1, <3>2
  <2>2. ASSUME NEW i \in 1 .. Len(t), t[i] = e PROVE In(e, s)
    BY <1>1, <1>2, <2>2 DEF In
  <2>3. ASSUME e = c PROVE In(e, s)
    BY <1>1, <1>3, <2>3 DEF In
  <2> QED BY <2>1, <2>2, <2>3 DEF In
<1>6. ASSUME CloseLast(s) PROVE CloseLast(t) /\ (c = "close" => AllHarmless(t))
  <2>1. \A i, j \in 1 .. Len(t) : i < j => i + 1 < j + 1
    BY <1>1
  <2>2. CloseLast(t)
    BY <1>1, <1>2, <1>6, <2>1 DEF CloseLast
  <2>3. c = "close" => AllHarmless(t)
    BY <1>1, <1>2, <1>3, <1>6 DEF CloseLast, AllHarmless
  <2> QED BY <2>2, <2>3
<1>7. ASSUME FinishOnce(s) PROVE FinishOnce(t) /\ (c = "finish" => ~In("finish", t))
  <2>1. FinishOnce(t)
    <3> SUFFICES ASSUME NEW i \in 1 .. Len(t), NEW j \in 1 .. Len(t), t[i] = "finish", t[j] = "finish"
                 PROVE  i = j
      BY DEF FinishOnce
    <3>1. i + 1 = j + 1
      BY <1>1, <1>2, <1>7 DEF FinishOnce
    <3> QED BY <3>1
  <2>2. c = "finish" => ~In("finish", t)
    <3> SUFFICES ASSUME c = "finish", NEW i \in 1 .. Len(t), t[i] = "finish" PROVE FALSE
      BY DEF In
    <3>1. i + 1 \in 1 .. Len(s) /\ s[i + 1] = "finish" /\ s[1] = "finish" /\ i + 1 # 1
      BY <1>1, <1>2
    <3> QED BY <1>3, <1>7, <3>1 DEF FinishOnce
  <2> QED BY <2>1, <2>2
<1>8. ASSUME AllHarmless(s) PROVE AllHarmless(t) /\ c \in Harmless
  BY <1>1, <1>2, <1>3, <1>8 DEF AllHarmless
<1> QED BY <1>1, <1>5, <1>6, <1>7, <1>8 DEF c, t

(* An event is emitted. *)
LEMMA Emitting ==
  ASSUME NEW s \in Seq(Events), NEW e \in Events
  PROVE  LET t == Append(s, e)
         IN  /\ t \in Seq(Events)
             /\ \A f : In(f, t) <=> In(f, s) \/ f = e
             /\ EventsOK(s) /\ ~In("close", s) /\ ~In(e, s) => EventsOK(t)
<1> DEFINE t == Append(s, e)
<1>1. /\ t \in Seq(Events) /\ Len(t) = Len(s) + 1 /\ Len(s) \in Nat /\ t[Len(s) + 1] = e
      /\ \A i \in 1 .. Len(s) : t[i] = s[i]
  OBVIOUS
<1> HIDE DEF t
<1>2. \A i \in 1 .. Len(t) : i = Len(s) + 1 \/ i \in 1 .. Len(s)
  BY <1>1
<1>3. Len(s) + 1 \in 1 .. Len(t) /\ \A i \in 1 .. Len(s) : i \in 1 .. Len(t)
  BY <1>1
<1>4. \A f : In(f, t) <=> In(f, s) \/ f = e
  BY <1>1, <1>2, <1>3 DEF In
<1>5. ASSUME EventsOK(s), ~In("close", s), ~In(e, s) PROVE EventsOK(t)
  <2> SUFFICES ASSUME NEW i \in 1 .. Len(t), NEW j \in 1 .. Len(t), i < j
               PROVE  t[i] # "close" /\ t[i] # t[j]
    BY DEF EventsOK
  <2>1. i \in 1 .. Len(s) /\ t[i] = s[i]
    BY <1>1
  <2>2. s[i] # "close" /\ s[i] # e
    BY <1>5, <2>1 DEF In
  <2>3. CASE j = Len(s) + 1
    BY <1>1, <2>1, <2>2, <2>3
  <2>4. CASE j \in 1 .. Len(s)
    BY <1>1, <1>5, <2>1, <2>4 DEF EventsOK
  <2> QED BY <1>2, <2>3, <2>4
<1> QED BY <1>1, <1>4, <1>5 DEF t

-----------------------------------------------------------------------------
(* What the functions of the model make of a state. *)
LEMMA NextTickIs ==
  ASSUME NEW x \in State, NEW c \in Callbacks
  PROVE  LET y == NextTick(x, <<c>>)
         IN  /\ y \in State /\ y.ws = x.ws
             /\ y.d = [x.d EXCEPT !.ticks = @ \o <<c>>]
<1> DEFINE t == x.d.ticks \o <<c>>
<1>1. x.d.ticks \in Seq(Callbacks)
  BY DEF State, Duplex
<1>2. t \in Seq(Callbacks)
  BY <1>1, Push
<1>3. NextTick(x, <<c>>) = [x EXCEPT !.d.ticks = t]
  BY DEF NextTick
<1> HIDE DEF t
<1>4. [x EXCEPT !.d.ticks = t] \in State
  BY <1>2 DEF State, Duplex
<1>5. /\ [x EXCEPT !.d.ticks = t].ws = x.ws
      /\ [x EXCEPT !.d.ticks = t].d = [x.d EXCEPT !.ticks = t]
  BY DEF State
<1> QED BY <1>3, <1>4, <1>5 DEF t

(* An event is added to those emitted, and nothing else changes. *)
LEMMA EmitIs ==
  ASSUME NEW x \in State, NEW e \in Events
  PROVE  LET y == Emit(x, e)
         IN  /\ y \in State /\ y.ws = x.ws
             /\ y.d = [x.d EXCEPT !.events = Append(@, e)]
<1> DEFINE t == Append(x.d.events, e)
<1>1. x.d.events \in Seq(Events)
  BY DEF State, Duplex
<1>2. t \in Seq(Events)
  BY <1>1, Emitting
<1>3. Emit(x, e) = [x EXCEPT !.d.events = t]
  BY DEF Emit
<1> HIDE DEF t
<1>4. [x EXCEPT !.d.events = t] \in State
  BY <1>2 DEF State, Duplex
<1>5. /\ [x EXCEPT !.d.events = t].ws = x.ws
      /\ [x EXCEPT !.d.events = t].d = [x.d EXCEPT !.events = t]
  BY DEF State
<1> QED BY <1>3, <1>4, <1>5 DEF t

(* terminate(), of a WebSocket that is not closed: it destroys an open socket. *)
LEMMA TerminateIs ==
  ASSUME NEW x \in State, x.ws.readyState # "CLOSED"
  PROVE  LET y == Terminate(x)
         IN  /\ y \in State /\ y.d = x.d
             /\ y.ws = [x.ws EXCEPT !.readyState = "CLOSING",
                                    !.socket = IF @ = "open" THEN "lost" ELSE @]
BY DEF Terminate, State, WS

(* destroy(), of a closed WebSocket and of another. *)
LEMMA DestroyClosedIs ==
  ASSUME NEW x \in State, NEW failed \in BOOLEAN, ~x.d.destroyed, x.ws.readyState = "CLOSED"
  PROVE  LET y == Destroy(x, failed)
         IN  /\ y \in State /\ y.ws = x.ws
             /\ y.d = [x.d EXCEPT !.destroyed = TRUE, !.errored = @ \/ failed,
                                  !.ticks = (@ \o <<IF failed THEN "failed" ELSE "closed">>)
                                                \o <<"close">>]
<1> DEFINE y == [x EXCEPT !.d.destroyed = TRUE, !.d.errored = @ \/ failed]
           c == IF failed THEN "failed" ELSE "closed"
           z == NextTick(y, <<c>>)
<1>1. y \in State /\ y.ws = x.ws /\ y.d = [x.d EXCEPT !.destroyed = TRUE, !.errored = @ \/ failed]
  BY DEF State, Duplex, WS
<1>2. Destroy(x, failed) = NextTick(z, <<"close">>)
  BY <1>1 DEF Destroy, _destroy, DestroyCallback
<1>3. c \in Callbacks /\ "close" \in Callbacks
  BY DEF Callbacks
<1> HIDE DEF y, c, z
<1>4. z \in State /\ z.ws = y.ws /\ z.d = [y.d EXCEPT !.ticks = @ \o <<c>>]
  BY <1>1, <1>3, NextTickIs DEF z
<1>5. LET u == NextTick(z, <<"close">>)
      IN  u \in State /\ u.ws = z.ws /\ u.d = [z.d EXCEPT !.ticks = @ \o <<"close">>]
  BY <1>3, <1>4, NextTickIs
<1>6. [[[x.d EXCEPT !.destroyed = TRUE, !.errored = @ \/ failed]
               EXCEPT !.ticks = @ \o <<c>>] EXCEPT !.ticks = @ \o <<"close">>]
        = [x.d EXCEPT !.destroyed = TRUE, !.errored = @ \/ failed,
                      !.ticks = (@ \o <<c>>) \o <<"close">>]
  BY DEF State, Duplex
<1> QED BY <1>1, <1>2, <1>4, <1>5, <1>6 DEF c

(* Of another: it listens, and may terminate the WebSocket. *)
LEMMA DestroyOpenIs ==
  ASSUME NEW x \in State, NEW failed \in BOOLEAN, ~x.d.destroyed, x.ws.readyState # "CLOSED"
  PROVE  LET y == Destroy(x, failed)
         IN  /\ y \in State
             /\ y.ws \in {x.ws, [x.ws EXCEPT !.readyState = "CLOSING",
                                             !.socket = IF @ = "open" THEN "lost" ELSE @]}
             /\ y.d = [x.d EXCEPT !.destroyed = TRUE, !.errored = @ \/ failed,
                                  !.listening = {"error", "close"}, !.cause = failed]
<1> DEFINE y == [x EXCEPT !.d.destroyed = TRUE, !.d.errored = @ \/ failed]
           z == [y EXCEPT !.d.listening = {"error", "close"}, !.d.cause = failed]
<1>1. y \in State /\ y.ws = x.ws /\ y.d = [x.d EXCEPT !.destroyed = TRUE, !.errored = @ \/ failed]
  BY DEF State, Duplex, WS
<1>2. Destroy(x, failed) = IF z.d.terminateOnDestroy THEN Terminate(z) ELSE z
  BY <1>1 DEF Destroy, _destroy
<1> HIDE DEF y
<1>3. /\ z \in State /\ z.ws = y.ws
      /\ z.d = [y.d EXCEPT !.listening = {"error", "close"}, !.cause = failed]
  BY <1>1 DEF State, Duplex, WS
<1> HIDE DEF z
<1>4. LET u == Terminate(z)
      IN  /\ u \in State /\ u.d = z.d
          /\ u.ws = [z.ws EXCEPT !.readyState = "CLOSING",
                                 !.socket = IF @ = "open" THEN "lost" ELSE @]
  <2>1. z \in State /\ z.ws.readyState # "CLOSED"
    BY <1>1, <1>3
  <2> QED BY <2>1, TerminateIs, Zenon
<1>5. [[x.d EXCEPT !.destroyed = TRUE, !.errored = @ \/ failed]
              EXCEPT !.listening = {"error", "close"}, !.cause = failed]
        = [x.d EXCEPT !.destroyed = TRUE, !.errored = @ \/ failed,
                      !.listening = {"error", "close"}, !.cause = failed]
  BY DEF State, Duplex
<1> QED BY <1>1, <1>2, <1>3, <1>4, <1>5

-----------------------------------------------------------------------------
(* destroy(), also from the listener of an 'error' of the WebSocket. *)
LEMMA DestroySound ==
  ASSUME NEW x \in State, NEW f \in BOOLEAN,
         SocketOK(x.ws), Counted(x.ws, x.d), FinishOK(x.ws, x.d), CloseOK(x.ws, x.d),
         x.d.destroyed => Told(x.ws, x.d, Has(x.d, "error")),
         ~x.d.destroyed => (x.ws.failed => f /\ x.ws.readyState # "CLOSED")
  PROVE  Sound(Destroy(x, f))
<1> DEFINE y == Destroy(x, f)
           w == x.ws
           d == x.d
           v == y.ws
           e == y.d
<1>1. CASE d.destroyed
  BY <1>1 DEF Destroy, Sound, Complete
<1>2. CASE ~d.destroyed /\ w.readyState = "CLOSED"
  <2> DEFINE c == IF f THEN "failed" ELSE "closed"
  <2>1. /\ y \in State /\ v = w
        /\ e = [d EXCEPT !.destroyed = TRUE, !.errored = @ \/ f,
                         !.ticks = (@ \o <<c>>) \o <<"close">>]
    BY <1>2, DestroyClosedIs
  <2>2. d \in Duplex /\ d.ticks \in Seq(Callbacks) /\ c \in Callbacks \ {"close", "finish", "end"}
        /\ "close" \in Callbacks
    BY DEF State, Duplex, Callbacks
  <2> HIDE DEF y, c
  <2>3. /\ e.destroyed /\ (d.errored => e.errored)
        /\ (e.closed <=> d.closed) /\ (e.ended <=> d.ended) /\ (e.ending <=> d.ending)
        /\ e.got = d.got /\ e.buffered = d.buffered /\ e.writing = d.writing
        /\ e.final = d.final /\ e.events = d.events
        /\ e.ticks = (d.ticks \o <<c>>) \o <<"close">>
    BY <2>1, <2>2 DEF Duplex
  <2> HIDE DEF v, e
  <2>4. ~Waits(d, "close") /\ ~Has(d, "close")
    BY <1>2 DEF CloseOK
  <2>5. /\ \A g : Waits(e, g) <=> Waits(d, g) \/ g = c \/ g = "close"
        /\ CloseLast(e.ticks) /\ FinishOnce(e.ticks)
    <3> DEFINE s == d.ticks \o <<c>>
    <3>1. /\ s \in Seq(Callbacks) /\ \A g : In(g, s) <=> In(g, d.ticks) \/ g = c
          /\ CloseLast(s) /\ FinishOnce(s)
      BY <2>2, <2>4, Push DEF CloseOK, FinishOK, Waits
    <3> HIDE DEF s
    <3>2. /\ \A g : In(g, s \o <<"close">>) <=> In(g, s) \/ g = "close"
          /\ CloseLast(s \o <<"close">>) /\ FinishOnce(s \o <<"close">>)
      <4>1. ~In("close", s)
        BY <2>2, <2>4, <3>1 DEF Waits
      <4> QED BY <2>2, <3>1, <4>1, Push
    <3> QED BY <2>3, <3>1, <3>2 DEF Waits, s
  <2>6. \A g : Has(e, g) <=> Has(d, g)
    BY <2>3 DEF Has
  <2>7. Counted(v, e) /\ Complete(v, e)
    BY <2>1, <2>2, <2>3, <2>5, <2>6 DEF Counted, Complete
  <2>8. FinishOK(v, e)
    BY <2>1, <2>2, <2>3, <2>5, <2>6 DEF FinishOK
  <2>9. CloseOK(v, e)
    <3>1. c \in {"failed", "closed"}
      BY DEF c
    <3> QED BY <1>2, <2>1, <2>2, <2>3, <2>4, <2>5, <2>6, <3>1 DEF CloseOK
  <2>10. Told(v, e, Has(e, "error"))
    BY <1>2, <2>1, <2>3 DEF Told
  <2> QED BY <2>1, <2>7, <2>8, <2>9, <2>10 DEF Sound, v, e, y
<1>3. CASE ~d.destroyed /\ w.readyState # "CLOSED"
  <2>1. /\ y \in State
        /\ v \in {w, [w EXCEPT !.readyState = "CLOSING",
                               !.socket = IF @ = "open" THEN "lost" ELSE @]}
        /\ e = [d EXCEPT !.destroyed = TRUE, !.errored = @ \/ f,
                         !.listening = {"error", "close"}, !.cause = f]
    BY <1>3, DestroyOpenIs
  <2>2. d \in Duplex /\ w \in WS
    BY DEF State
  <2> HIDE DEF y
  <2>3. /\ e.destroyed /\ (d.errored => e.errored) /\ (e.cause <=> f)
        /\ (e.closed <=> d.closed) /\ (e.ended <=> d.ended) /\ (e.ending <=> d.ending)
        /\ e.got = d.got /\ e.buffered = d.buffered /\ e.writing = d.writing
        /\ e.final = d.final /\ e.events = d.events /\ e.ticks = d.ticks
        /\ e.listening = {"error", "close"}
    BY <2>1, <2>2 DEF Duplex
  <2>4. /\ v.readyState # "CLOSED" /\ v.arrived = w.arrived /\ v.inside = w.inside
        /\ (v.failed <=> w.failed) /\ (w.socket = "finished" => v.socket = "finished")
        /\ v = w \/ v.readyState = "CLOSING"
    BY <1>3, <2>1, <2>2 DEF WS
  <2> HIDE DEF v, e
  <2>5. \A g : (Has(e, g) <=> Has(d, g)) /\ (Waits(e, g) <=> Waits(d, g))
    BY <2>3 DEF Has, Waits
  <2>6. SocketOK(v)
    BY <2>4 DEF SocketOK
  <2>7. Counted(v, e) /\ Complete(v, e)
    BY <1>3, <2>3, <2>4, <2>5 DEF Counted, Complete
  <2>8. FinishOK(v, e)
    BY <2>3, <2>4, <2>5 DEF FinishOK
  <2>9. CloseOK(v, e)
    BY <1>3, <2>3, <2>4, <2>5 DEF CloseOK
  <2>10. Told(v, e, Has(e, "error"))
    BY <1>3, <2>3, <2>4, <2>5 DEF Told
  <2> QED BY <2>1, <2>6, <2>7, <2>8, <2>9, <2>10 DEF Sound, v, e, y
<1> QED BY <1>1, <1>2, <1>3

-----------------------------------------------------------------------------
(* A callback is queued that keeps the order of events. *)
LEMMA TickSound ==
  ASSUME NEW x, Sound(x), NEW c \in Callbacks,
         c \in Harmless \/ c = "finish",
         c = "end" => x.d.ended,
         c = "finish" => /\ ~Waits(x.d, "finish") /\ ~Has(x.d, "finish") /\ ~x.d.destroyed
                         /\ x.ws.socket = "finished" /\ x.d.final = "done"
                         /\ x.d.writing = "idle" /\ x.d.ending
  PROVE  Sound(NextTick(x, <<c>>))
<1> DEFINE y == NextTick(x, <<c>>)
           d == x.d
           e == y.d
<1>1. y \in State /\ y.ws = x.ws /\ e = [d EXCEPT !.ticks = @ \o <<c>>] /\ x \in State
  BY NextTickIs DEF Sound
<1>2. d \in Duplex /\ d.ticks \in Seq(Callbacks)
  BY <1>1 DEF State, Duplex
<1> HIDE DEF y
<1>3. /\ (e.destroyed <=> d.destroyed) /\ (e.errored <=> d.errored) /\ (e.cause <=> d.cause)
      /\ (e.closed <=> d.closed) /\ (e.ended <=> d.ended) /\ (e.ending <=> d.ending)
      /\ e.got = d.got /\ e.buffered = d.buffered /\ e.writing = d.writing
      /\ e.final = d.final /\ e.events = d.events /\ e.ticks = d.ticks \o <<c>>
      /\ e.listening = d.listening
  BY <1>1, <1>2 DEF Duplex
<1> HIDE DEF e
<1>4. /\ SocketOK(x.ws) /\ Counted(x.ws, d) /\ Complete(x.ws, d) /\ FinishOK(x.ws, d)
      /\ CloseOK(x.ws, d) /\ Told(x.ws, d, Has(d, "error"))
  BY DEF Sound
<1> HIDE DEF d
<1>5. \A g : (Has(e, g) <=> Has(d, g)) /\ (Waits(e, g) <=> Waits(d, g) \/ g = c)
  BY <1>2, <1>3, Push DEF Has, Waits
<1>6. c \in Harmless \/ (~In("close", d.ticks) /\ ~Has(d, "close"))
  <2>1. CASE c = "finish"
    <3>1. ~d.destroyed
      BY <2>1 DEF d
    <3> QED BY <1>4, <3>1 DEF CloseOK, Waits
  <2>2. CASE c # "finish"
    BY <2>2
  <2> QED BY <2>1, <2>2
<1>7. CloseLast(e.ticks) /\ (Has(d, "close") => AllHarmless(e.ticks))
  BY <1>2, <1>3, <1>4, <1>6, Push DEF CloseOK
<1>8. FinishOnce(e.ticks)
  BY <1>2, <1>3, <1>4, Push DEF FinishOK, Waits, d
<1>9. Counted(x.ws, e) /\ Complete(x.ws, e)
  BY <1>3, <1>4, <1>5 DEF Counted, Complete, d
<1>10. FinishOK(x.ws, e)
  BY <1>3, <1>4, <1>5, <1>8 DEF FinishOK, d
<1>11. CloseOK(x.ws, e)
  <2>1. c # "close"
    BY DEF Harmless
  <2> QED BY <1>3, <1>4, <1>5, <1>7, <2>1 DEF CloseOK
<1>12. Told(x.ws, e, Has(e, "error"))
  BY <1>3, <1>4, <1>5 DEF Told
<1> QED BY <1>1, <1>4, <1>9, <1>10, <1>11, <1>12 DEF Sound, e, y

(* 'error' is told, and the stream destroyed. *)
LEMMA EmitErrorSound ==
  ASSUME NEW x \in State,
         SocketOK(x.ws), Counted(x.ws, x.d), Complete(x.ws, x.d), FinishOK(x.ws, x.d),
         CloseOK(x.ws, x.d), Told(x.ws, x.d, TRUE), ~Has(x.d, "close")
  PROVE  Sound(EmitError(x))
<1>1. CASE Has(x.d, "error")
  BY <1>1 DEF EmitError, Sound, Told
<1>2. CASE ~Has(x.d, "error")
  <2> DEFINE y == Emit(x, "error")
             d == x.d
             e == y.d
  <2>1. y \in State /\ y.ws = x.ws /\ e = [d EXCEPT !.events = Append(@, "error")]
        /\ "error" \in Events
    BY EmitIs DEF Events
  <2>2. d \in Duplex /\ d.events \in Seq(Events)
    BY DEF State, Duplex
  <2> HIDE DEF y
  <2>3. /\ (e.destroyed <=> d.destroyed) /\ (e.errored <=> d.errored) /\ (e.cause <=> d.cause)
        /\ (e.closed <=> d.closed) /\ (e.ended <=> d.ended) /\ (e.ending <=> d.ending)
        /\ e.got = d.got /\ e.buffered = d.buffered /\ e.writing = d.writing
        /\ e.final = d.final /\ e.events = Append(d.events, "error") /\ e.ticks = d.ticks
        /\ e.listening = d.listening
    BY <2>1, <2>2 DEF Duplex
  <2> HIDE DEF e
  <2>4. /\ \A g : (Waits(e, g) <=> Waits(d, g)) /\ (Has(e, g) <=> Has(d, g) \/ g = "error")
        /\ EventsOK(e.events)
    BY <1>2, <2>1, <2>2, <2>3, Emitting DEF Has, Waits, CloseOK
  <2>5. Counted(y.ws, e)
    BY <2>1, <2>3, <2>4 DEF Counted
  <2>6. FinishOK(y.ws, e)
    BY <2>1, <2>3, <2>4 DEF FinishOK
  <2>7. CloseOK(y.ws, e)
    BY <2>1, <2>3, <2>4 DEF CloseOK
  <2>8. Told(y.ws, e, Has(e, "error"))
    BY <2>1, <2>3, <2>4 DEF Told
  <2>9. ~e.destroyed => ~y.ws.failed
    BY <2>8 DEF Told
  <2>10. Sound(Destroy(y, FALSE))
    BY <2>1, <2>5, <2>6, <2>7, <2>8, <2>9, DestroySound DEF e
  <2> QED BY <1>2, <2>10 DEF EmitError, y
<1> QED BY <1>1, <1>2

(* A failed write destroys a stream that is not destroyed yet. *)
LEMMA WriteErrorSound ==
  ASSUME NEW x, Sound(x)
  PROVE  Sound(WriteError(x))
<1>1. CASE x.d.destroyed
  BY <1>1 DEF WriteError
<1>2. CASE ~x.d.destroyed
  <2>1. ~Has(x.d, "close") /\ Told(x.ws, x.d, TRUE)
    BY <1>2 DEF Sound, CloseOK, Told
  <2> QED BY <1>2, <2>1, EmitErrorSound DEF WriteError, Sound
<1> QED BY <1>1, <1>2

(* The state of _final() changes before its callback. *)
LEMMA SetFinalSound ==
  ASSUME NEW x, Sound(x), x.d.final # "done",
         NEW v \in {"waiting", "dropped", "socket", "done"}
  PROVE  LET y == [x EXCEPT !.d.final = v]
         IN  /\ Sound(y) /\ y.ws = x.ws /\ y.d = [x.d EXCEPT !.final = v] /\ y.d.final = v
             /\ ~Waits(y.d, "finish") /\ ~Has(y.d, "finish")
<1> DEFINE y == [x EXCEPT !.d.final = v]
           d == x.d
           e == y.d
<1>1. x \in State /\ d \in Duplex
  BY DEF Sound, State
<1>2. y \in State /\ y.ws = x.ws /\ e = [d EXCEPT !.final = v]
  BY <1>1 DEF State, Duplex
<1> HIDE DEF y
<1>3. /\ (e.destroyed <=> d.destroyed) /\ (e.errored <=> d.errored) /\ (e.cause <=> d.cause)
      /\ (e.closed <=> d.closed) /\ (e.ended <=> d.ended) /\ (e.ending <=> d.ending)
      /\ e.got = d.got /\ e.buffered = d.buffered /\ e.writing = d.writing
      /\ e.final = v /\ e.events = d.events /\ e.ticks = d.ticks
      /\ e.listening = d.listening
  BY <1>1, <1>2 DEF Duplex
<1> HIDE DEF e
<1>4. \A g : (Waits(e, g) <=> Waits(d, g)) /\ (Has(e, g) <=> Has(d, g))
  BY <1>3 DEF Has, Waits
<1>5. ~Waits(d, "finish") /\ ~Has(d, "finish")
  BY DEF Sound, FinishOK
<1>6. Counted(x.ws, e) /\ Complete(x.ws, e)
  BY <1>3, <1>4 DEF Sound, Counted, Complete
<1>7. FinishOK(x.ws, e)
  BY <1>3, <1>4, <1>5 DEF Sound, FinishOK
<1>8. CloseOK(x.ws, e) /\ Told(x.ws, e, Has(e, "error"))
  BY <1>3, <1>4 DEF Sound, CloseOK, Told
<1>9. Sound(y)
  BY <1>2, <1>6, <1>7, <1>8 DEF Sound, e
<1> QED BY <1>2, <1>3, <1>4, <1>5, <1>9 DEF e, y

(* The callback of _final(): 'finish' is queued, once. *)
LEMMA FinalCallbackSound ==
  ASSUME NEW x, Sound(x), x.d.final # "done", x.ws.socket = "finished"
  PROVE  Sound(FinalCallback(x))
<1> DEFINE y == [x EXCEPT !.d.final = "done"]
<1>1. /\ Sound(y) /\ y.ws = x.ws /\ y.d.final = "done"
      /\ ~Waits(y.d, "finish") /\ ~Has(y.d, "finish")
  BY SetFinalSound
<1>2. FinalCallback(x) = IF NeedFinish(y.d) THEN NextTick(y, <<"finish">>) ELSE y
  BY DEF FinalCallback
<1> HIDE DEF y
<1>3. ASSUME NeedFinish(y.d) PROVE Sound(NextTick(y, <<"finish">>))
  BY <1>1, <1>3, TickSound DEF NeedFinish, Callbacks
<1> QED BY <1>1, <1>2, <1>3

(* close() of the WebSocket. *)
LEMMA CloseSound ==
  ASSUME NEW x, Sound(x)
  PROVE  Sound(Close(x))
<1> DEFINE y == Close(x)
           w == x.ws
           v == y.ws
<1>1. x \in State /\ w \in WS /\ x.d \in Duplex
  BY DEF Sound, State
<1>2. y = [x EXCEPT !.ws.readyState = IF w.readyState = "OPEN" THEN "CLOSING" ELSE @]
  BY DEF Close
<1>3. /\ y \in State /\ y.d = x.d
      /\ v = [w EXCEPT !.readyState = IF w.readyState = "OPEN" THEN "CLOSING" ELSE @]
  BY <1>1, <1>2 DEF State, WS
<1>4. /\ v.readyState = IF w.readyState = "OPEN" THEN "CLOSING" ELSE w.readyState
      /\ v.socket = w.socket /\ v.arrived = w.arrived /\ v.inside = w.inside
      /\ (v.failed <=> w.failed)
  BY <1>1, <1>3 DEF WS
<1> HIDE DEF y, v
<1>5. SocketOK(v)
  BY <1>4 DEF Sound, SocketOK
<1>6. Counted(v, x.d) /\ Complete(v, x.d)
  BY <1>4 DEF Sound, Counted, Complete
<1>7. FinishOK(v, x.d) /\ CloseOK(v, x.d)
  BY <1>4 DEF Sound, FinishOK, CloseOK
<1>8. Told(v, x.d, Has(x.d, "error"))
  BY <1>4 DEF Sound, Told
<1> QED BY <1>3, <1>5, <1>6, <1>7, <1>8 DEF Sound, v, y

(* _final(), in each state of the WebSocket. *)
LEMMA FinalSound ==
  ASSUME NEW x, Sound(x), x.d.final # "done"
  PROVE  Sound(_final(x))
<1>1. CASE x.ws.readyState = "CONNECTING"
  <2>1. x.ws.socket = "none"
    BY <1>1 DEF Sound, SocketOK
  <2>2. _final(x) = [x EXCEPT !.d.final = "waiting"]
    BY <1>1, <2>1 DEF _final
  <2> QED BY ZenonT(60), <2>2, SetFinalSound
<1>2. CASE x.ws.readyState # "CONNECTING" /\ x.ws.socket = "none"
  BY <1>2, SetFinalSound DEF _final
<1>3. CASE x.ws.readyState # "CONNECTING" /\ x.ws.socket = "finished"
  <2> DEFINE y == FinalCallback(x)
  <2>1. Sound(y)
    BY <1>3, FinalCallbackSound
  <2>2. _final(x) = IF Has(x.d, "end") THEN Destroy(y, FALSE) ELSE y
    BY <1>3 DEF _final
  <2> HIDE DEF y
  <2>3. Sound(Destroy(y, FALSE))
    BY <2>1, DestroySound DEF Sound, Told
  <2> QED BY <2>1, <2>2, <2>3
<1>4. CASE x.ws.readyState # "CONNECTING" /\ x.ws.socket \notin {"none", "finished"}
  <2> DEFINE y == [x EXCEPT !.d.final = "socket"]
  <2>1. Sound(y)
    BY SetFinalSound
  <2>2. _final(x) = Close(y)
    BY <1>4 DEF _final
  <2> HIDE DEF y
  <2> QED BY <2>1, <2>2, CloseSound
<1> QED BY <1>1, <1>2, <1>3, <1>4

(* _final() is called when its time has come, and once. *)
LEMMA FinishMaybeSound ==
  ASSUME NEW x, Sound(x)
  PROVE  Sound(FinishMaybe(x))
BY FinalSound DEF FinishMaybe

-----------------------------------------------------------------------------
(* What the invariant says of a stream without pending or emitted 'finish'   *)
(* does not depend on its writing.                                           *)
LEMMA WritingSound ==
  ASSUME NEW x, Sound(x), NEW v \in {"idle", "waiting", "sending"}, NEW f \in BOOLEAN,
         v = "idle" \/ (~Waits(x.d, "finish") /\ ~Has(x.d, "finish"))
  PROVE  Sound([x EXCEPT !.d.writing = v, !.d.errored = @ \/ f])
<1> DEFINE y == [x EXCEPT !.d.writing = v, !.d.errored = @ \/ f]
           d == x.d
           e == y.d
<1>1. x \in State /\ d \in Duplex
  BY DEF Sound, State
<1>2. y \in State /\ y.ws = x.ws /\ e = [d EXCEPT !.writing = v, !.errored = @ \/ f]
  BY <1>1 DEF State, Duplex
<1> HIDE DEF y
<1>3. /\ (e.destroyed <=> d.destroyed) /\ (d.errored => e.errored) /\ (e.cause <=> d.cause)
      /\ (e.closed <=> d.closed) /\ (e.ended <=> d.ended) /\ (e.ending <=> d.ending)
      /\ e.got = d.got /\ e.buffered = d.buffered /\ e.writing = v
      /\ e.final = d.final /\ e.events = d.events /\ e.ticks = d.ticks
      /\ e.listening = d.listening
  BY <1>1, <1>2 DEF Duplex
<1> HIDE DEF e
<1>4. \A g : (Waits(e, g) <=> Waits(d, g)) /\ (Has(e, g) <=> Has(d, g))
  BY <1>3 DEF Has, Waits
<1>5. Counted(x.ws, e) /\ Complete(x.ws, e)
  BY <1>3, <1>4 DEF Sound, Counted, Complete
<1>6. FinishOK(x.ws, e)
  BY <1>3, <1>4 DEF Sound, FinishOK
<1>7. CloseOK(x.ws, e) /\ Told(x.ws, e, Has(e, "error"))
  BY <1>3, <1>4 DEF Sound, CloseOK, Told
<1>8. Sound(y)
  BY <1>2, <1>5, <1>6, <1>7 DEF Sound, e
<1> QED BY <1>8 DEF y

(* The same for an update that leaves errored alone, or sets it. *)
LEMMA WritingCases ==
  ASSUME NEW x, Sound(x), NEW v \in {"idle", "waiting", "sending"},
         v = "idle" \/ (~Waits(x.d, "finish") /\ ~Has(x.d, "finish"))
  PROVE  /\ Sound([x EXCEPT !.d.writing = v])
         /\ Sound([x EXCEPT !.d.writing = v, !.d.errored = TRUE])
<1>1. x \in State
  BY DEF Sound
<1>2. [x EXCEPT !.d.writing = v, !.d.errored = @ \/ FALSE] = [x EXCEPT !.d.writing = v]
  BY ZenonT(60), <1>1 DEF State, Duplex
<1>3. [x EXCEPT !.d.writing = v, !.d.errored = @ \/ TRUE]
        = [x EXCEPT !.d.writing = v, !.d.errored = TRUE]
  BY <1>1 DEF State, Duplex
<1>4. /\ Sound([x EXCEPT !.d.writing = v, !.d.errored = @ \/ FALSE])
      /\ Sound([x EXCEPT !.d.writing = v, !.d.errored = @ \/ TRUE])
  BY WritingSound
<1> QED BY <1>2, <1>3, <1>4

(* The callback of a write, that failed or not. *)
LEMMA WriteCallbackSound ==
  ASSUME NEW x, Sound(x), NEW failed \in BOOLEAN
  PROVE  Sound(WriteCallback(x, failed))
BY WritingCases, WriteErrorSound, FinishMaybeSound DEF WriteCallback

(* _write(), on a stream that has not finished. *)
LEMMA WriteSound ==
  ASSUME NEW x, Sound(x), ~Waits(x.d, "finish"), ~Has(x.d, "finish")
  PROVE  Sound(_write(x))
<1>1. CASE x.ws.readyState = "CONNECTING"
  BY <1>1, WritingCases DEF _write
<1>2. CASE x.ws.readyState = "OPEN"
  BY <1>2, WritingCases DEF _write
<1>3. CASE x.ws.readyState \notin {"CONNECTING", "OPEN"}
  <2> DEFINE y == [x EXCEPT !.d.writing = "idle", !.d.errored = TRUE]
  <2>1. Sound(y)
    BY WritingCases
  <2>2. _write(x) = NextTick(y, <<"error">>)
    BY <1>3 DEF _write
  <2> HIDE DEF y
  <2> QED BY <2>1, <2>2, TickSound DEF Callbacks, Harmless
<1> QED BY <1>1, <1>2, <1>3

(* 'end' is queued only when nothing is left to read. *)
LEMMA EndReadableSound ==
  ASSUME NEW x, Sound(x)
  PROVE  Sound(EndReadable(x))
BY TickSound DEF EndReadable, Callbacks, Harmless

-----------------------------------------------------------------------------
(* The invariant does not say whether the socket is paused, what the stream  *)
(* knows of its readable side, how it will destroy its WebSocket; end() may  *)
(* have been called.                                                         *)
LEMMA SameSound ==
  ASSUME NEW x, Sound(x), NEW y \in State,
         NEW p \in BOOLEAN, NEW r \in BOOLEAN, NEW g \in BOOLEAN, NEW n \in BOOLEAN, NEW t \in BOOLEAN,
         y.ws = [x.ws EXCEPT !.paused = p],
         y.d = [x.d EXCEPT !.reading = r, !.ending = g, !.finished = n, !.terminateOnDestroy = t],
         x.d.ending => g
  PROVE  Sound(y)
<1> DEFINE w == x.ws
           v == y.ws
           d == x.d
           e == y.d
<1>1. x \in State /\ w \in WS /\ d \in Duplex
  BY DEF Sound, State
<1>2. /\ v.readyState = w.readyState /\ v.socket = w.socket /\ v.arrived = w.arrived
      /\ v.inside = w.inside /\ (v.failed <=> w.failed)
  BY <1>1 DEF WS
<1>3. /\ (e.destroyed <=> d.destroyed) /\ (e.errored <=> d.errored) /\ (e.cause <=> d.cause)
      /\ (e.closed <=> d.closed) /\ (e.ended <=> d.ended) /\ (d.ending => e.ending)
      /\ e.got = d.got /\ e.buffered = d.buffered /\ e.writing = d.writing
      /\ e.final = d.final /\ e.events = d.events /\ e.ticks = d.ticks
      /\ e.listening = d.listening
  BY <1>1 DEF Duplex
<1>4. /\ SocketOK(w) /\ Counted(w, d) /\ Complete(w, d) /\ FinishOK(w, d) /\ CloseOK(w, d)
      /\ Told(w, d, Has(d, "error"))
  BY DEF Sound
<1> HIDE DEF v, w, d, e
<1>5. \A f : (Waits(e, f) <=> Waits(d, f)) /\ (Has(e, f) <=> Has(d, f))
  BY <1>3 DEF Has, Waits
<1>6. SocketOK(v)
  BY <1>2, <1>4 DEF SocketOK
<1>7. Counted(v, e)
  BY <1>2, <1>3, <1>4, <1>5 DEF Counted
<1>8. Complete(v, e)
  BY <1>2, <1>3, <1>4 DEF Complete
<1>9. FinishOK(v, e)
  BY <1>2, <1>3, <1>4, <1>5 DEF FinishOK
<1>10. CloseOK(v, e)
  BY <1>2, <1>3, <1>4, <1>5 DEF CloseOK
<1>11. Told(v, e, Has(e, "error"))
  BY <1>2, <1>3, <1>4, <1>5 DEF Told
<1> QED BY <1>6, <1>7, <1>8, <1>9, <1>10, <1>11 DEF Sound, v, e

(* pause() and resume(). *)
LEMMA PauseSound ==
  ASSUME NEW x, Sound(x)
  PROVE  Sound(Pause(x)) /\ Sound(Resume(x))
<1>1. x \in State /\ x.ws \in WS /\ x.d \in Duplex
  BY DEF Sound, State
<1>2. ASSUME NEW p \in BOOLEAN PROVE Sound([x EXCEPT !.ws.paused = p])
  <2> DEFINE y == [x EXCEPT !.ws.paused = p]
  <2>1. y \in State /\ y.ws = [x.ws EXCEPT !.paused = p] /\ y.d = x.d
    BY <1>1 DEF State, WS
  <2>2. x.d = [x.d EXCEPT !.reading = x.d.reading, !.ending = x.d.ending,
                          !.finished = x.d.finished, !.terminateOnDestroy = x.d.terminateOnDestroy]
    BY <1>1 DEF Duplex
  <2>3. /\ x.d.reading \in BOOLEAN /\ x.d.ending \in BOOLEAN /\ x.d.finished \in BOOLEAN
        /\ x.d.terminateOnDestroy \in BOOLEAN
    BY <1>1 DEF Duplex
  <2> HIDE DEF y
  <2>4. y.d = [x.d EXCEPT !.reading = x.d.reading, !.ending = x.d.ending,
                          !.finished = x.d.finished, !.terminateOnDestroy = x.d.terminateOnDestroy]
    BY <2>1, <2>2
  <2>5. Sound(y)
    BY <2>1, <2>3, <2>4, SameSound
  <2> QED BY <2>5 DEF y
<1> DEFINE p == x.ws.paused \/ x.ws.readyState \in {"OPEN", "CLOSING"}
           q == x.ws.paused /\ x.ws.readyState \notin {"OPEN", "CLOSING"}
<1>3. Pause(x) = [x EXCEPT !.ws.paused = p]
  BY <1>1 DEF State, Pause
<1>4. Resume(x) = [x EXCEPT !.ws.paused = q]
  BY <1>1 DEF State, Resume
<1>5. p \in BOOLEAN /\ q \in BOOLEAN
  BY <1>1 DEF WS
<1> QED BY <1>2, <1>3, <1>4, <1>5

(* What a call or a callback notes in the stream. *)
LEMMA NotedSound ==
  ASSUME NEW x, Sound(x)
  PROVE  /\ \A r \in BOOLEAN : Sound([x EXCEPT !.d.reading = r])
         /\ Sound([x EXCEPT !.d.ending = TRUE])
         /\ Sound([x EXCEPT !.d.finished = TRUE])
<1>1. x \in State /\ x.ws \in WS /\ x.d \in Duplex
  BY DEF Sound, State
<1>2. /\ x.ws = [x.ws EXCEPT !.paused = x.ws.paused] /\ x.ws.paused \in BOOLEAN
      /\ x.d.reading \in BOOLEAN /\ x.d.ending \in BOOLEAN /\ x.d.finished \in BOOLEAN
      /\ x.d.terminateOnDestroy \in BOOLEAN
  BY <1>1 DEF Duplex, WS
<1>3. ASSUME NEW r \in BOOLEAN PROVE Sound([x EXCEPT !.d.reading = r])
  <2> DEFINE y == [x EXCEPT !.d.reading = r]
  <2>1. /\ y \in State /\ y.ws = x.ws
        /\ y.d = [x.d EXCEPT !.reading = r, !.ending = x.d.ending,
                             !.finished = x.d.finished, !.terminateOnDestroy = x.d.terminateOnDestroy]
    BY <1>1 DEF State, Duplex
  <2> HIDE DEF y
  <2>2. Sound(y)
    BY <1>2, <2>1, SameSound
  <2> QED BY <2>2 DEF y
<1>4. Sound([x EXCEPT !.d.ending = TRUE])
  <2> DEFINE y == [x EXCEPT !.d.ending = TRUE]
  <2>1. /\ y \in State /\ y.ws = x.ws
        /\ y.d = [x.d EXCEPT !.reading = x.d.reading, !.ending = TRUE,
                             !.finished = x.d.finished, !.terminateOnDestroy = x.d.terminateOnDestroy]
    BY <1>1 DEF State, Duplex
  <2> HIDE DEF y
  <2>2. Sound(y)
    BY <1>2, <2>1, SameSound
  <2> QED BY <2>2 DEF y
<1>5. Sound([x EXCEPT !.d.finished = TRUE])
  <2> DEFINE y == [x EXCEPT !.d.finished = TRUE]
  <2>1. /\ y \in State /\ y.ws = x.ws
        /\ y.d = [x.d EXCEPT !.reading = x.d.reading, !.ending = x.d.ending,
                             !.finished = TRUE, !.terminateOnDestroy = x.d.terminateOnDestroy]
    BY <1>1 DEF State, Duplex
  <2> HIDE DEF y
  <2>2. Sound(y)
    BY <1>2, <2>1, SameSound
  <2> QED BY <2>2 DEF y
<1> QED BY <1>3, <1>4, <1>5

(* 'end', 'finish' and 'close' are emitted. *)
LEMMA EmitSound ==
  ASSUME NEW x, Sound(x), NEW c \in {"end", "finish", "close"},
         ~Has(x.d, c), ~Has(x.d, "close"),
         c = "end" => x.d.ended /\ x.d.buffered = 0 /\ x.d.got = x.ws.arrived,
         c = "finish" => /\ x.ws.socket = "finished" /\ x.d.writing = "idle"
                         /\ x.d.ending /\ x.d.final = "done" /\ ~Waits(x.d, "finish"),
         c = "close" => /\ x.d.destroyed /\ x.ws.readyState = "CLOSED"
                        /\ x.d.closed /\ AllHarmless(x.d.ticks)
  PROVE  Sound(Emit(x, c)) /\ Has(Emit(x, c).d, c)
<1> DEFINE y == Emit(x, c)
           d == x.d
           e == y.d
<1>1. x \in State /\ c \in Events
  BY DEF Sound, Events
<1>2. y \in State /\ y.ws = x.ws /\ e = [d EXCEPT !.events = Append(@, c)]
  BY <1>1, EmitIs
<1>3. d \in Duplex /\ d.events \in Seq(Events)
  BY <1>1 DEF State, Duplex
<1> HIDE DEF y
<1>4. /\ (e.destroyed <=> d.destroyed) /\ (e.errored <=> d.errored) /\ (e.cause <=> d.cause)
      /\ (e.closed <=> d.closed) /\ (e.ended <=> d.ended) /\ (e.ending <=> d.ending)
      /\ e.got = d.got /\ e.buffered = d.buffered /\ e.writing = d.writing
      /\ e.final = d.final /\ e.events = Append(d.events, c) /\ e.ticks = d.ticks
      /\ e.listening = d.listening
  BY <1>2, <1>3 DEF Duplex
<1> HIDE DEF e
<1>5. EventsOK(d.events)
  BY DEF Sound, CloseOK
<1>6. /\ \A g : (Waits(e, g) <=> Waits(d, g)) /\ (Has(e, g) <=> Has(d, g) \/ g = c)
      /\ EventsOK(e.events)
  BY <1>1, <1>3, <1>4, <1>5, Emitting DEF Has, Waits
<1>7. Counted(x.ws, e)
  BY <1>4, <1>6 DEF Sound, Counted
<1>8. Complete(x.ws, e)
  BY <1>4 DEF Sound, Complete
<1>9. FinishOK(x.ws, e)
  BY <1>4, <1>6 DEF Sound, FinishOK
<1>10. CloseOK(x.ws, e)
  BY <1>4, <1>6 DEF Sound, CloseOK
<1>11. Told(x.ws, e, Has(e, "error"))
  BY <1>4, <1>6 DEF Sound, Told
<1>12. Sound(y)
  BY <1>2, <1>7, <1>8, <1>9, <1>10, <1>11 DEF Sound, e
<1> QED BY <1>6, <1>12 DEF y, e

(* A callback leaves the queue; that of _destroy() closes the stream. *)
LEMMA PopSound ==
  ASSUME NEW x, Sound(x), x.d.ticks # <<>>, NEW k \in BOOLEAN,
         Head(x.d.ticks) \in {"closed", "failed"} => k
  PROVE  LET c == Head(x.d.ticks)
             y == [x EXCEPT !.d.ticks = Tail(@), !.d.closed = @ \/ k]
         IN  /\ y \in State /\ y.ws = x.ws /\ c \in Callbacks
             /\ y.d = [x.d EXCEPT !.ticks = Tail(@), !.closed = @ \/ k]
             /\ SocketOK(y.ws) /\ Counted(y.ws, y.d) /\ Complete(y.ws, y.d) /\ FinishOK(y.ws, y.d)
             /\ CloseOK(y.ws, y.d) /\ Told(y.ws, y.d, TRUE)
             /\ c # "failed" => Sound(y)
             /\ Has(y.d, "close") => c \in Harmless
             /\ c = "close" => AllHarmless(y.d.ticks) /\ y.d.closed
             /\ c = "finish" => ~Waits(y.d, "finish") /\ ~Has(y.d, "finish")
<1> DEFINE c == Head(x.d.ticks)
           t == Tail(x.d.ticks)
           y == [x EXCEPT !.d.ticks = Tail(@), !.d.closed = @ \/ k]
           d == x.d
           e == y.d
<1>1. x \in State /\ d \in Duplex /\ d.ticks \in Seq(Callbacks)
  BY DEF Sound, State, Duplex
<1>2. /\ c \in Callbacks /\ t \in Seq(Callbacks)
      /\ \A f : In(f, d.ticks) <=> In(f, t) \/ f = c
      /\ CloseLast(d.ticks) => CloseLast(t) /\ (c = "close" => AllHarmless(t))
      /\ FinishOnce(d.ticks) => FinishOnce(t) /\ (c = "finish" => ~In("finish", t))
      /\ AllHarmless(d.ticks) => AllHarmless(t) /\ c \in Harmless
  BY <1>1, Pop
<1> HIDE DEF c, t
<1>3. y \in State /\ y.ws = x.ws /\ e = [d EXCEPT !.ticks = t, !.closed = @ \/ k]
  BY <1>1, <1>2 DEF State, Duplex, t
<1> HIDE DEF y
<1>4. /\ (e.destroyed <=> d.destroyed) /\ (e.errored <=> d.errored) /\ (e.cause <=> d.cause)
      /\ (e.closed <=> d.closed \/ k) /\ (e.ended <=> d.ended) /\ (e.ending <=> d.ending)
      /\ e.got = d.got /\ e.buffered = d.buffered /\ e.writing = d.writing
      /\ e.final = d.final /\ e.events = d.events /\ e.ticks = t
      /\ e.listening = d.listening
  BY <1>1, <1>3 DEF Duplex
<1>5. e = [d EXCEPT !.ticks = Tail(@), !.closed = @ \/ k]
  BY <1>3 DEF t
<1> HIDE DEF e
<1>6. \A f : (Waits(d, f) <=> Waits(e, f) \/ f = c) /\ (Has(e, f) <=> Has(d, f))
  BY <1>2, <1>4 DEF Has, Waits
<1>7. /\ SocketOK(x.ws) /\ Counted(x.ws, d) /\ Complete(x.ws, d) /\ FinishOK(x.ws, d) /\ CloseOK(x.ws, d)
      /\ Told(x.ws, d, Has(d, "error"))
  BY DEF Sound
<1>8. c \in {"closed", "failed"} => k
  BY DEF c
<1>9. Counted(x.ws, e) /\ Complete(x.ws, e)
  BY <1>4, <1>6, <1>7 DEF Counted, Complete
<1>10. FinishOK(x.ws, e) /\ (c = "finish" => ~Waits(e, "finish") /\ ~Has(e, "finish"))
  BY <1>2, <1>4, <1>6, <1>7 DEF FinishOK, Waits
<1>11. /\ CloseOK(x.ws, e) /\ (Has(e, "close") => c \in Harmless)
       /\ c = "close" => AllHarmless(e.ticks)
  BY <1>2, <1>4, <1>6, <1>7, <1>8 DEF CloseOK
<1>12. ASSUME c = "close" PROVE e.closed
  <2>1. ~Waits(e, "closed") /\ ~Waits(e, "failed")
    BY <1>11, <1>12 DEF AllHarmless, Waits, In, Harmless
  <2> QED BY <1>4, <1>6, <1>7, <1>12, <2>1 DEF CloseOK
<1>13. Told(x.ws, e, TRUE)
  BY <1>4, <1>6, <1>7, <1>8 DEF Told
<1>14. c # "failed" => Told(x.ws, e, Has(e, "error"))
  BY <1>4, <1>6, <1>7, <1>8 DEF Told
<1>15. c # "failed" => Sound(y)
  BY <1>3, <1>7, <1>9, <1>10, <1>11, <1>14 DEF Sound, e
<1>16. y.d = e
  BY DEF e
<1>17. /\ y \in State /\ y.ws = x.ws /\ c \in Callbacks
       /\ y.d = [d EXCEPT !.ticks = Tail(@), !.closed = @ \/ k]
  BY <1>2, <1>3, <1>5, <1>16
<1>18. /\ SocketOK(y.ws) /\ Counted(y.ws, y.d) /\ Complete(y.ws, y.d) /\ FinishOK(y.ws, y.d)
       /\ CloseOK(y.ws, y.d) /\ Told(y.ws, y.d, TRUE)
  BY <1>3, <1>7, <1>9, <1>10, <1>11, <1>13, <1>16
<1>19. /\ Has(y.d, "close") => c \in Harmless
       /\ c = "close" => AllHarmless(y.d.ticks) /\ y.d.closed
       /\ c = "finish" => ~Waits(y.d, "finish") /\ ~Has(y.d, "finish")
  BY <1>10, <1>11, <1>12, <1>16
<1> QED BY <1>15, <1>17, <1>18, <1>19 DEF y, c

-----------------------------------------------------------------------------
(* Callbacks of process.nextTick. *)
LEMMA OnEndSound ==
  ASSUME NEW x, Sound(x), x.d.ended
  PROVE  Sound(OnEnd(x))
<1>1. CASE x.d.errored \/ x.d.closed \/ x.d.buffered > 0 \/ Has(x.d, "end")
  BY <1>1 DEF OnEnd
<1>2. CASE ~(x.d.errored \/ x.d.closed \/ x.d.buffered > 0 \/ Has(x.d, "end"))
  <2> DEFINE y == Emit(x, "end")
  <2>1. x.d.buffered \in Nat /\ x.d.got \in Nat
    BY DEF Sound, State, Duplex
  <2>2. x.d.got + x.d.buffered = x.ws.arrived
    BY <1>2 DEF Sound, Counted
  <2>3. x.d.buffered = 0 /\ x.d.got = x.ws.arrived
    BY <1>2, <2>1, <2>2
  <2>4. ~Has(x.d, "close")
    BY <1>2 DEF Sound, CloseOK
  <2>5. Sound(y)
    BY <1>2, <2>3, <2>4, EmitSound
  <2> HIDE DEF y
  <2>6. Sound(Destroy(y, FALSE))
    BY <2>5, DestroySound DEF Sound, Told
  <2> QED BY <1>2, <2>5, <2>6 DEF OnEnd, y
<1> QED BY <1>1, <1>2

(* Whichever callback is the first of the queue, its effect is sound. *)
LEMMA CalledSound ==
  ASSUME NEW x, Sound(x), x.d.ticks # <<>>
  PROVE  Sound(Called([x EXCEPT !.d.ticks = Tail(@)], Head(x.d.ticks)))
<1> DEFINE c == Head(x.d.ticks)
           y == [x EXCEPT !.d.ticks = Tail(@)]
           yc == [x EXCEPT !.d.ticks = Tail(@), !.d.closed = TRUE]
<1>1. x \in State /\ x.ws \in WS /\ x.d \in Duplex
  BY DEF Sound, State
<1>2. /\ [x EXCEPT !.d.ticks = Tail(@), !.d.closed = @ \/ FALSE] = y
      /\ [x EXCEPT !.d.ticks = Tail(@), !.d.closed = @ \/ TRUE] = yc
      /\ [y EXCEPT !.d.closed = TRUE] = yc
  BY ZenonT(60), <1>1 DEF State, Duplex
<1>3. /\ y.ws = x.ws /\ y.d.destroyed = x.d.destroyed /\ y.d.events = x.d.events
      /\ y.d.writing = x.d.writing /\ y.d.ending = x.d.ending /\ y.d.final = x.d.final
      /\ y.d.ended = x.d.ended
  BY <1>1 DEF State, Duplex
<1>4. \A f : Has(y.d, f) <=> Has(x.d, f)
  BY <1>3 DEF Has
<1> HIDE DEF c, y, yc
<1>5. c = "end" \/ c = "finish" \/ c = "error" \/ c = "closed" \/ c = "failed" \/ c = "close"
  <2>1. c \in Callbacks
    BY <1>1, PopSound DEF c
  <2> QED BY <2>1 DEF Callbacks
<1>6. Waits(x.d, c)
  <2>1. x.d.ticks \in Seq(Callbacks)
    BY <1>1 DEF Duplex
  <2>2. 1 \in 1 .. Len(x.d.ticks) /\ x.d.ticks[1] = c
    BY <2>1 DEF c
  <2> QED BY <2>2 DEF Waits, In
<1>7. ASSUME c \notin {"closed", "failed"}
      PROVE  /\ Sound(y) /\ (Has(y.d, "close") => c \in Harmless)
             /\ c = "close" => AllHarmless(y.d.ticks) /\ y.d.closed
             /\ c = "finish" => ~Waits(y.d, "finish") /\ ~Has(y.d, "finish")
  BY <1>2, <1>7, PopSound DEF c
<1> DEFINE yt == [x EXCEPT !.d.ticks = Tail(@), !.d.closed = @ \/ TRUE]
<1>14. /\ yt \in State
       /\ SocketOK(yt.ws) /\ Counted(yt.ws, yt.d) /\ Complete(yt.ws, yt.d) /\ FinishOK(yt.ws, yt.d)
       /\ CloseOK(yt.ws, yt.d) /\ Told(yt.ws, yt.d, TRUE) /\ (Has(yt.d, "close") => c \in Harmless)
       /\ c # "failed" => Sound(yt)
  BY PopSound DEF c
<1>15. yt = yc
  BY <1>2
<1> HIDE DEF yt
<1>8. CASE c = "end"
  <2>1. y.d.ended
    BY <1>3, <1>6, <1>8 DEF Sound, Counted
  <2> QED BY <1>7, <1>8, <2>1, OnEndSound DEF Called, y, c
<1>9. CASE c = "finish"
  <2> DEFINE z == [y EXCEPT !.d.finished = TRUE]
  <2>1. y \in State
    BY <1>7, <1>9 DEF Sound
  <2>2. z.ws = y.ws /\ z.d = [y.d EXCEPT !.finished = TRUE]
    BY <2>1 DEF State, Duplex
  <2>3. /\ z.d.ticks = y.d.ticks /\ z.d.events = y.d.events /\ z.d.writing = y.d.writing
        /\ z.d.ending = y.d.ending /\ z.d.final = y.d.final
    BY <2>1, <2>2 DEF State, Duplex
  <2>4. Sound(z)
    BY <1>7, <1>9, NotedSound
  <2> HIDE DEF z
  <2>5. /\ x.ws.socket = "finished" /\ x.d.writing = "idle" /\ x.d.ending /\ x.d.final = "done"
    BY <1>6, <1>9 DEF Sound, FinishOK
  <2>6. ~Has(y.d, "close") /\ ~Waits(y.d, "finish") /\ ~Has(y.d, "finish")
    BY <1>7, <1>9 DEF Harmless
  <2>7. ~Has(z.d, "close") /\ ~Waits(z.d, "finish") /\ ~Has(z.d, "finish")
    BY <2>3, <2>6 DEF Has, Waits
  <2>8. z.ws.socket = "finished" /\ z.d.writing = "idle" /\ z.d.ending /\ z.d.final = "done"
    BY <1>3, <2>2, <2>3, <2>5
  <2>9. Sound(Emit(z, "finish"))
    BY <2>4, <2>7, <2>8, EmitSound
  <2> QED BY <1>9, <2>9 DEF Called, y, c, z
<1>10. CASE c = "error"
  BY <1>7, <1>10, WriteErrorSound DEF Called, y, c
<1>11. CASE c = "closed"
  <2>1. Sound(yc)
    BY <1>11, <1>14, <1>15
  <2> QED BY <1>2, <1>11, <2>1 DEF Called, y, c
<1>12. CASE c = "failed"
  <2>1. /\ yc \in State
        /\ SocketOK(yc.ws) /\ Counted(yc.ws, yc.d) /\ Complete(yc.ws, yc.d) /\ FinishOK(yc.ws, yc.d)
        /\ CloseOK(yc.ws, yc.d) /\ Told(yc.ws, yc.d, TRUE) /\ (Has(yc.d, "close") => c \in Harmless)
    BY <1>14, <1>15
  <2>2. ~Has(yc.d, "close")
    BY <1>12, <2>1 DEF Harmless
  <2>3. Sound(EmitError(yc))
    BY <2>1, <2>2, EmitErrorSound
  <2> QED BY <1>2, <1>12, <2>3 DEF Called, y, c
<1>13. CASE c = "close"
  <2>1. x.d.destroyed /\ x.ws.readyState = "CLOSED"
    BY <1>6, <1>13 DEF Sound, CloseOK
  <2>2. ~Has(y.d, "close")
    BY <1>7, <1>13 DEF Harmless
  <2>3. Sound(Emit(y, "close"))
    BY <1>3, <1>7, <1>13, <2>1, <2>2, EmitSound
  <2> QED BY <1>13, <2>3 DEF Called, y, c
<1> QED BY <1>5, <1>8, <1>9, <1>10, <1>11, <1>12, <1>13 DEF y, c

-----------------------------------------------------------------------------
(* The next state of an action is the one its function gives. *)
LEMMA BecomeSound ==
  \A y : Sound(y) /\ Become(y) => Sound(Both)'
<1> SUFFICES ASSUME NEW y, Sound(y), Become(y) PROVE Sound(Both')
  BY DEF Sound
<1>1. y \in State
  BY DEF Sound
<1>2. Both' = y
  BY <1>1 DEF Both, Become, State
<1> QED BY <1>2

-----------------------------------------------------------------------------
(* Messages move, and the sums still hold. *)
LEMMA CountSound ==
  ASSUME NEW x, Sound(x), NEW a \in Nat, NEW i \in Nat, NEW b \in Nat, NEW g \in Nat,
         a <= MaxMessages, x.ws.failed \/ x.ws.readyState = "CLOSED" => i = 0,
         g + b + i <= a,
         x.d.ended => i = 0 /\ a = x.ws.arrived /\ g + b = x.d.got + x.d.buffered,
         Has(x.d, "end") => g = x.d.got,
         ~x.d.destroyed /\ ~x.d.errored => g + b + i = a
  PROVE  Sound([x EXCEPT !.ws.arrived = a, !.ws.inside = i, !.d.buffered = b, !.d.got = g])
<1> DEFINE y == [x EXCEPT !.ws.arrived = a, !.ws.inside = i, !.d.buffered = b, !.d.got = g]
           w == x.ws
           v == y.ws
           d == x.d
           e == y.d
<1>1. x \in State /\ w \in WS /\ d \in Duplex
  BY DEF Sound, State
<1>2. /\ y \in State /\ v = [w EXCEPT !.arrived = a, !.inside = i]
      /\ e = [d EXCEPT !.buffered = b, !.got = g]
  BY <1>1 DEF State, WS, Duplex
<1> HIDE DEF y
<1>3. /\ v.readyState = w.readyState /\ v.socket = w.socket /\ v.arrived = a
      /\ v.inside = i /\ (v.failed <=> w.failed)
  BY <1>1, <1>2 DEF WS
<1>4. /\ (e.destroyed <=> d.destroyed) /\ (e.errored <=> d.errored) /\ (e.cause <=> d.cause)
      /\ (e.closed <=> d.closed) /\ (e.ended <=> d.ended) /\ (e.ending <=> d.ending)
      /\ e.got = g /\ e.buffered = b /\ e.writing = d.writing
      /\ e.final = d.final /\ e.events = d.events /\ e.ticks = d.ticks
      /\ e.listening = d.listening
  BY <1>1, <1>2 DEF Duplex
<1>5. /\ SocketOK(w) /\ Counted(w, d) /\ FinishOK(w, d) /\ CloseOK(w, d)
      /\ Told(w, d, Has(d, "error"))
  BY DEF Sound
<1>6. /\ d.got \in Nat /\ d.buffered \in Nat
      /\ x.d.ended => i = 0 /\ a = w.arrived /\ g + b = d.got + d.buffered
      /\ Has(d, "end") => g = d.got
      /\ ~d.destroyed /\ ~d.errored => g + b + i = a
      /\ w.failed \/ w.readyState = "CLOSED" => i = 0
  BY <1>1 DEF Duplex
<1> HIDE DEF v, w, d, e
<1>7. \A f : (Waits(e, f) <=> Waits(d, f)) /\ (Has(e, f) <=> Has(d, f))
  BY <1>4 DEF Has, Waits
<1>8. SocketOK(v)
  BY <1>3, <1>5, <1>6 DEF SocketOK
<1>9. Counted(v, e)
  <2>1. e.got + e.buffered + v.inside <= v.arrived
    BY <1>3, <1>4
  <2>2. e.ended => v.readyState = "CLOSED"
    BY <1>3, <1>4, <1>5 DEF Counted
  <2>3. e.ended /\ ~e.errored => e.got + e.buffered = v.arrived
    BY <1>3, <1>4, <1>5, <1>6 DEF Counted, d
  <2>4. Waits(e, "end") => e.ended
    BY <1>4, <1>5, <1>7 DEF Counted
  <2>5. ASSUME Has(e, "end") PROVE e.ended /\ e.buffered = 0 /\ e.got = v.arrived
    <3>1. d.ended /\ d.buffered = 0 /\ d.got = w.arrived
      BY <1>5, <1>7, <2>5 DEF Counted
    <3>2. g + b = d.got + d.buffered /\ a = w.arrived /\ g = d.got
      BY <1>6, <1>7, <2>5, <3>1 DEF d
    <3> QED BY <1>3, <1>4, <1>6, <3>1, <3>2
  <2> QED BY <2>1, <2>2, <2>3, <2>4, <2>5 DEF Counted
<1>10. Complete(v, e)
  BY <1>3, <1>4, <1>6 DEF Complete
<1>11. FinishOK(v, e)
  BY <1>3, <1>4, <1>5, <1>7 DEF FinishOK
<1>12. CloseOK(v, e)
  BY <1>3, <1>4, <1>5, <1>7 DEF CloseOK
<1>13. Told(v, e, Has(e, "error"))
  BY <1>3, <1>4, <1>5, <1>7 DEF Told
<1>14. Sound(y)
  BY <1>2, <1>8, <1>9, <1>10, <1>11, <1>12, <1>13 DEF Sound, v, e
<1> QED BY <1>14 DEF y

(* The WebSocket opens or starts to close; a socket that has finished stays  *)
(* so.                                                                       *)
LEMMA SocketSound ==
  ASSUME NEW x, Sound(x), x.ws.readyState # "CLOSED",
         NEW r \in {"OPEN", "CLOSING"}, NEW s \in {"none", "open", "finished", "lost"},
         r = "OPEN" => s = "open" /\ ~x.ws.failed, x.ws.socket = "finished" => s = "finished"
  PROVE  LET y == [x EXCEPT !.ws.readyState = r, !.ws.socket = s]
         IN  /\ Sound(y) /\ y.d = x.d /\ y.ws.readyState = r /\ y.ws.socket = s
<1> DEFINE y == [x EXCEPT !.ws.readyState = r, !.ws.socket = s]
           w == x.ws
           v == y.ws
           d == x.d
<1>1. x \in State /\ w \in WS /\ d \in Duplex
  BY DEF Sound, State
<1>2. y \in State /\ v = [w EXCEPT !.readyState = r, !.socket = s] /\ y.d = d
  BY <1>1 DEF State, WS
<1> HIDE DEF y
<1>3. /\ v.readyState = r /\ v.socket = s /\ v.arrived = w.arrived
      /\ v.inside = w.inside /\ (v.failed <=> w.failed)
  BY <1>1, <1>2 DEF WS
<1>4. /\ SocketOK(w) /\ Counted(w, d) /\ Complete(w, d) /\ FinishOK(w, d) /\ CloseOK(w, d)
      /\ Told(w, d, Has(d, "error"))
  BY DEF Sound
<1>5. r # "CLOSED" /\ r # "CONNECTING" /\ w.readyState # "CLOSED" /\ (r = "OPEN" => s = "open" /\ ~w.failed)
      /\ (w.socket = "finished" => s = "finished") /\ r \in {"OPEN", "CLOSING"}
  OBVIOUS
<1> HIDE DEF v, w, d
<1>6. SocketOK(v)
  BY <1>3, <1>4, <1>5 DEF SocketOK
<1>7. Counted(v, d) /\ Complete(v, d)
  BY <1>3, <1>4, <1>5 DEF Counted, Complete
<1>8. FinishOK(v, d)
  BY <1>3, <1>4, <1>5 DEF FinishOK
<1>9. CloseOK(v, d)
  BY <1>3, <1>4, <1>5 DEF CloseOK
<1>10. Told(v, d, Has(d, "error"))
  BY <1>3, <1>4, <1>5 DEF Told
<1>11. Sound(y)
  BY <1>2, <1>6, <1>7, <1>8, <1>9, <1>10 DEF Sound, v
<1> QED BY <1>2, <1>3, <1>11 DEF y, v, d

-----------------------------------------------------------------------------
(* 'error': a stream that is not destroyed is now, and one that is has       *)
(* listened for it.                                                          *)
LEMMA ErrorSound ==
  ASSUME NEW x, Sound(x), x.d.ticks = <<>>, x.ws.readyState # "CLOSED", ~x.ws.failed
  PROVE  LET y == [x EXCEPT !.ws.readyState = "CLOSING", !.ws.failed = TRUE, !.ws.inside = 0]
         IN  /\ ~x.d.destroyed => Sound(Destroy([y EXCEPT !.d.terminateOnDestroy = FALSE], TRUE))
             /\ x.d.destroyed => "error" \in x.d.listening
             /\ x.d.destroyed => Sound(DestroyCallback([y EXCEPT !.d.listening = {"close"}], TRUE))
<1> DEFINE y == [x EXCEPT !.ws.readyState = "CLOSING", !.ws.failed = TRUE, !.ws.inside = 0]
           w == x.ws
           v == y.ws
           d == x.d
<1>1. x \in State /\ w \in WS /\ d \in Duplex
  BY DEF Sound, State
<1>2. y \in State /\ v = [w EXCEPT !.readyState = "CLOSING", !.failed = TRUE, !.inside = 0] /\ y.d = d
  BY <1>1 DEF State, WS
<1> HIDE DEF y
<1>3. /\ v.readyState = "CLOSING" /\ v.socket = w.socket /\ v.arrived = w.arrived
      /\ v.inside = 0 /\ v.failed
  BY <1>1, <1>2 DEF WS
<1>4. /\ SocketOK(w) /\ Counted(w, d) /\ FinishOK(w, d) /\ CloseOK(w, d)
      /\ Told(w, d, Has(d, "error")) /\ w.readyState # "CLOSED" /\ ~w.failed
      /\ d.ticks = <<>>
  BY DEF Sound
<1>5. d.got \in Nat /\ d.buffered \in Nat /\ w.inside \in Nat /\ w.arrived \in Nat
  BY <1>1 DEF Duplex, WS
<1>6. \A f : ~Waits(d, f)
  BY <1>4 DEF Waits, In
<1>7. d.destroyed => "error" \in d.listening
  BY <1>4 DEF Told
<1> HIDE DEF v, w, d
<1>8. SocketOK(v)
  BY <1>3, <1>4 DEF SocketOK
<1>9. Counted(v, d)
  BY <1>3, <1>4, <1>5 DEF Counted
<1>10. FinishOK(v, d)
  BY <1>3, <1>4 DEF FinishOK
<1>11. CloseOK(v, d)
  BY <1>3, <1>4, <1>6 DEF CloseOK
<1>12. ASSUME ~d.destroyed PROVE Sound(Destroy([y EXCEPT !.d.terminateOnDestroy = FALSE], TRUE))
  <2> DEFINE z == [y EXCEPT !.d.terminateOnDestroy = FALSE]
             e == z.d
  <2>1. z \in State /\ z.ws = v /\ e = [d EXCEPT !.terminateOnDestroy = FALSE]
    BY <1>1, <1>2 DEF State, Duplex, v
  <2> HIDE DEF z
  <2>2. /\ (e.destroyed <=> d.destroyed) /\ (e.errored <=> d.errored)
        /\ (e.closed <=> d.closed) /\ (e.ended <=> d.ended) /\ (e.ending <=> d.ending)
        /\ e.got = d.got /\ e.buffered = d.buffered /\ e.writing = d.writing
        /\ e.final = d.final /\ e.events = d.events /\ e.ticks = d.ticks
    BY <1>1, <2>1 DEF Duplex
  <2> HIDE DEF e
  <2>3. \A f : (Waits(e, f) <=> Waits(d, f)) /\ (Has(e, f) <=> Has(d, f))
    BY <2>2 DEF Has, Waits
  <2>4. Counted(v, e)
    BY <1>9, <2>2, <2>3 DEF Counted
  <2>5. FinishOK(v, e)
    BY <1>10, <2>2, <2>3 DEF FinishOK
  <2>6. CloseOK(v, e)
    BY <1>11, <2>2, <2>3 DEF CloseOK
  <2>7. ~z.d.destroyed /\ z.ws.readyState # "CLOSED"
    BY <1>3, <1>12, <2>1, <2>2 DEF e
  <2>8. Sound(Destroy(z, TRUE))
    BY <1>8, <2>1, <2>4, <2>5, <2>6, <2>7, DestroySound DEF e
  <2> QED BY <2>8 DEF z
<1>13. ASSUME d.destroyed PROVE Sound(DestroyCallback([y EXCEPT !.d.listening = {"close"}], TRUE))
  <2> DEFINE z == [y EXCEPT !.d.listening = {"close"}]
             u == NextTick(z, <<"failed">>)
             e == u.d
  <2>1. z \in State /\ z.ws = v /\ z.d = [d EXCEPT !.listening = {"close"}]
    BY <1>1, <1>2 DEF State, Duplex, v
  <2>2. "failed" \in Callbacks
    BY DEF Callbacks
  <2> HIDE DEF z
  <2>3. u \in State /\ u.ws = v /\ e = [z.d EXCEPT !.ticks = @ \o <<"failed">>]
    BY <2>1, <2>2, NextTickIs
  <2> HIDE DEF u
  <2>4. z.d.ticks = <<>> /\ <<>> \o <<"failed">> = <<"failed">>
    BY <1>1, <1>4, <2>1 DEF Duplex
  <2>5. e.ticks = <<"failed">>
    BY <1>1, <2>1, <2>3, <2>4 DEF Duplex
  <2>6. /\ (e.destroyed <=> d.destroyed) /\ (e.errored <=> d.errored)
        /\ (e.closed <=> d.closed) /\ (e.ended <=> d.ended) /\ (e.ending <=> d.ending)
        /\ e.got = d.got /\ e.buffered = d.buffered /\ e.writing = d.writing
        /\ e.final = d.final /\ e.events = d.events /\ e.listening = {"close"}
    BY <1>1, <2>1, <2>3 DEF Duplex
  <2> HIDE DEF e
  <2>7. \A f : (Waits(e, f) <=> f = "failed") /\ (Has(e, f) <=> Has(d, f))
    BY <2>5, <2>6 DEF Has, Waits, In
  <2>8. Counted(v, e) /\ Complete(v, e)
    BY <1>9, <1>13, <2>6, <2>7 DEF Counted, Complete
  <2>9. FinishOK(v, e)
    BY <1>10, <2>5, <2>6, <2>7 DEF FinishOK, FinishOnce
  <2>10. CloseOK(v, e)
    <3>1. ~Has(e, "close")
      BY <1>3, <1>11, <2>7 DEF CloseOK
    <3>2. CloseLast(e.ticks)
      BY <2>5 DEF CloseLast
    <3> QED BY <1>11, <2>6, <2>7, <3>1, <3>2 DEF CloseOK
  <2>11. Told(v, e, Has(e, "error"))
    BY <1>3, <1>13, <2>6, <2>7 DEF Told
  <2>12. Sound(u)
    BY <1>8, <2>3, <2>8, <2>9, <2>10, <2>11 DEF Sound, e
  <2> QED BY <2>12 DEF DestroyCallback, u, z
<1> QED BY <1>7, <1>12, <1>13 DEF y, d

-----------------------------------------------------------------------------
(* 'close': the readable side ends, or the callback of _destroy() is queued  *)
(* before 'close'.                                                           *)
LEMMA ClosedSound ==
  ASSUME NEW x, Sound(x), x.d.ticks = <<>>, x.ws.readyState = "CLOSING",
         IF x.ws.socket = "none" THEN x.ws.failed ELSE x.ws.socket # "open" /\ x.ws.inside = 0
  PROVE  LET y == [x EXCEPT !.ws.readyState = "CLOSED"]
             z == IF "error" \in y.d.listening THEN DestroyCallback(y, y.d.cause) ELSE y
         IN  /\ ~x.d.destroyed => Sound([y EXCEPT !.d.ended = TRUE])
             /\ x.d.destroyed => Sound(NextTick([z EXCEPT !.d.listening = {}], <<"close">>))
<1> DEFINE y == [x EXCEPT !.ws.readyState = "CLOSED"]
           z == IF "error" \in y.d.listening THEN DestroyCallback(y, y.d.cause) ELSE y
           w == x.ws
           v == y.ws
           d == x.d
<1>1. x \in State /\ w \in WS /\ d \in Duplex
  BY DEF Sound, State
<1>2. y \in State /\ v = [w EXCEPT !.readyState = "CLOSED"] /\ y.d = d
  BY <1>1 DEF State, WS
<1> HIDE DEF y
<1>3. /\ v.readyState = "CLOSED" /\ v.socket = w.socket /\ v.arrived = w.arrived
      /\ v.inside = w.inside /\ (v.failed <=> w.failed)
  BY <1>1, <1>2 DEF WS
<1>4. /\ SocketOK(w) /\ Counted(w, d) /\ Complete(w, d) /\ FinishOK(w, d) /\ CloseOK(w, d)
      /\ Told(w, d, Has(d, "error")) /\ w.readyState = "CLOSING" /\ d.ticks = <<>>
      /\ IF w.socket = "none" THEN w.failed ELSE w.socket # "open" /\ w.inside = 0
  BY DEF Sound
<1>5. d.got \in Nat /\ d.buffered \in Nat /\ w.inside \in Nat /\ w.arrived \in Nat
  BY <1>1 DEF Duplex, WS
<1>6. \A f : ~Waits(d, f)
  BY <1>4 DEF Waits, In
<1> HIDE DEF v, w, d
<1>7. SocketOK(v) /\ v.inside = 0
  BY <1>3, <1>4 DEF SocketOK
<1>8. ASSUME ~d.destroyed PROVE Sound([y EXCEPT !.d.ended = TRUE])
  <2> DEFINE u == [y EXCEPT !.d.ended = TRUE]
             e == u.d
  <2>1. u \in State /\ u.ws = v /\ e = [d EXCEPT !.ended = TRUE]
    BY <1>1, <1>2 DEF State, Duplex, v
  <2> HIDE DEF u
  <2>2. /\ (e.destroyed <=> d.destroyed) /\ (e.errored <=> d.errored) /\ (e.cause <=> d.cause)
        /\ (e.closed <=> d.closed) /\ e.ended /\ (e.ending <=> d.ending)
        /\ e.got = d.got /\ e.buffered = d.buffered /\ e.writing = d.writing
        /\ e.final = d.final /\ e.events = d.events /\ e.ticks = d.ticks
        /\ e.listening = d.listening
    BY <1>1, <2>1 DEF Duplex
  <2> HIDE DEF e
  <2>3. \A f : (Waits(e, f) <=> Waits(d, f)) /\ (Has(e, f) <=> Has(d, f))
    BY <2>2 DEF Has, Waits
  <2>4. Counted(v, e)
    BY <1>3, <1>4, <1>5, <1>7, <1>8, <2>2, <2>3 DEF Counted, Complete
  <2>5. Complete(v, e)
    BY <1>3, <1>4, <2>2 DEF Complete
  <2>6. FinishOK(v, e)
    BY <1>3, <1>4, <2>2, <2>3 DEF FinishOK
  <2>7. CloseOK(v, e)
    BY <1>3, <1>4, <2>2, <2>3 DEF CloseOK
  <2>8. Told(v, e, Has(e, "error"))
    BY <1>3, <1>4, <1>8, <2>2, <2>3 DEF Told
  <2>9. Sound(u)
    BY <1>7, <2>1, <2>4, <2>5, <2>6, <2>7, <2>8 DEF Sound, e
  <2> QED BY <2>9 DEF u
<1>9. ASSUME d.destroyed PROVE Sound(NextTick([z EXCEPT !.d.listening = {}], <<"close">>))
  <2> DEFINE c == IF d.cause THEN "failed" ELSE "closed"
             listens == "error" \in d.listening
             q == IF listens THEN <<c>> ELSE <<>>
             t == q \o <<"close">>
             s == [z EXCEPT !.d.listening = {}]
             u == NextTick(s, <<"close">>)
             e == u.d
  <2>1. (c = "failed" \/ c = "closed") /\ (d.cause => c = "failed") /\ c \in Callbacks /\ "close" \in Callbacks
    BY DEF Callbacks
  <2>2. z = IF listens THEN NextTick(y, <<c>>) ELSE y
    BY <1>2 DEF DestroyCallback
  <2> HIDE DEF c, z, listens
  <2>3. z \in State /\ z.ws = v /\ z.d = [d EXCEPT !.ticks = q]
    <3>1. CASE listens
      <4>1. z \in State /\ z.ws = v /\ z.d = [d EXCEPT !.ticks = @ \o <<c>>]
        BY <1>2, <2>1, <2>2, <3>1, NextTickIs DEF v
      <4>2. <<>> \o <<c>> = q
        BY <2>1, <3>1
      <4> QED BY <1>4, <4>1, <4>2
    <3>2. CASE ~listens
      <4>1. d = [d EXCEPT !.ticks = q]
        BY <1>1, <1>4, <3>2 DEF Duplex
      <4> QED BY <1>2, <2>2, <3>2, <4>1 DEF v
    <3> QED BY <3>1, <3>2
  <2>4. /\ q \in Seq(Callbacks) /\ \A f : In(f, q) <=> listens /\ f = c
        /\ CloseLast(q) /\ FinishOnce(q)
    <3>1. CASE listens
      <4>1. q = <<c>>
        BY <3>1
      <4>2. q \in Seq(Callbacks) /\ Len(q) = 1 /\ q[1] = c
        BY <2>1, <4>1
      <4> HIDE DEF q
      <4> QED BY <3>1, <4>2 DEF In, CloseLast, FinishOnce
    <3>2. CASE ~listens
      <4>1. q = <<>>
        BY <3>2
      <4> HIDE DEF q
      <4> QED BY <3>2, <4>1 DEF In, CloseLast, FinishOnce
    <3> QED BY <3>1, <3>2
  <2> HIDE DEF q
  <2>5. ~In("close", q)
    BY <2>1, <2>4
  <2>6. /\ t \in Seq(Callbacks) /\ \A f : In(f, t) <=> (listens /\ f = c) \/ f = "close"
        /\ CloseLast(t) /\ FinishOnce(t)
    BY <2>1, <2>4, <2>5, Push
  <2>7. s \in State /\ s.ws = v /\ s.d = [d EXCEPT !.ticks = q, !.listening = {}]
    BY <1>1, <2>3, <2>4 DEF State, Duplex
  <2> HIDE DEF s
  <2>8. u \in State /\ u.ws = v /\ e = [s.d EXCEPT !.ticks = @ \o <<"close">>]
    BY <2>1, <2>7, NextTickIs
  <2> HIDE DEF u
  <2>9. /\ (e.destroyed <=> d.destroyed) /\ (e.errored <=> d.errored) /\ (e.cause <=> d.cause)
        /\ (e.closed <=> d.closed) /\ (e.ended <=> d.ended) /\ (e.ending <=> d.ending)
        /\ e.got = d.got /\ e.buffered = d.buffered /\ e.writing = d.writing
        /\ e.final = d.final /\ e.events = d.events /\ e.ticks = t
    BY <1>1, <2>7, <2>8 DEF Duplex
  <2> HIDE DEF e, t
  <2>10. \A f : (Waits(e, f) <=> (listens /\ f = c) \/ f = "close") /\ (Has(e, f) <=> Has(d, f))
    BY <2>6, <2>9 DEF Has, Waits
  <2>11. Counted(v, e) /\ Complete(v, e)
    <3>1. ~d.ended
      BY <1>4 DEF Counted
    <3> QED BY <1>3, <1>4, <1>9, <2>1, <2>9, <2>10, <3>1 DEF Counted, Complete
  <2>12. FinishOK(v, e)
    BY <1>3, <1>4, <2>1, <2>6, <2>9, <2>10 DEF FinishOK
  <2>13. CloseOK(v, e)
    <3>1. ~Has(e, "close")
      BY <1>4, <2>10 DEF CloseOK
    <3>2. listens \/ d.closed
      BY <1>4, <1>6, <1>9 DEF Told, listens
    <3>3. d.closed \/ Waits(e, "closed") \/ Waits(e, "failed")
      BY <2>1, <2>10, <3>2
    <3> QED BY <1>3, <1>4, <1>9, <2>6, <2>9, <3>1, <3>3 DEF CloseOK
  <2>14. Told(v, e, Has(e, "error"))
    <3>1. w.failed => Has(d, "error") \/ (listens /\ d.cause)
      BY <1>4, <1>6 DEF Told, listens
    <3> QED BY <1>3, <1>9, <2>1, <2>9, <2>10, <3>1 DEF Told
  <2>15. Sound(u)
    BY <1>7, <2>8, <2>11, <2>12, <2>13, <2>14 DEF Sound, e
  <2> QED BY <2>15 DEF u, s
<1> QED BY <1>8, <1>9 DEF y, z, d

(* A state is its two records. *)
LEMMA SameState ==
  ASSUME NEW x \in State, NEW y \in State, x.ws = y.ws, x.d = y.d
  PROVE  x = y
BY DEF State

-----------------------------------------------------------------------------
(* A new stream is sound. *)
LEMMA InitSound == Init => Sound(Both)
<1> SUFFICES ASSUME Init PROVE Sound(Both)
  OBVIOUS
<1>1. PICK state \in {"CONNECTING", "OPEN"} : ws = NewSocket(state)
  BY DEF Init
<1>2. ws \in WS /\ duplex \in Duplex /\ duplex = NewDuplex
  <2>1. <<>> \in Seq(Callbacks) /\ <<>> \in Seq(Events)
    OBVIOUS
  <2>2. ws \in WS
    BY <1>1 DEF NewSocket, WS
  <2>3. duplex = NewDuplex
    BY DEF Init
  <2> QED BY <2>1, <2>2, <2>3 DEF NewDuplex, Duplex
<1>3. Both \in State /\ Both.ws = ws /\ Both.d = duplex
  BY <1>2 DEF Both, State
<1>4. \A f : ~Waits(duplex, f) /\ ~Has(duplex, f)
  BY <1>2 DEF NewDuplex, Waits, Has, In
<1>5. SocketOK(ws)
  BY <1>1, StreamAssumption DEF NewSocket, SocketOK
<1>6. Counted(ws, duplex) /\ Complete(ws, duplex)
  BY <1>1, <1>2, <1>4 DEF NewSocket, NewDuplex, Counted, Complete
<1>7. FinishOK(ws, duplex)
  BY <1>2, <1>4 DEF NewDuplex, FinishOK, FinishOnce
<1>8. CloseOK(ws, duplex)
  BY <1>2, <1>4 DEF NewDuplex, CloseOK, CloseLast, EventsOK
<1>9. Told(ws, duplex, Has(duplex, "error"))
  BY <1>1, <1>2 DEF NewSocket, NewDuplex, Told
<1> QED BY <1>3, <1>5, <1>6, <1>7, <1>8, <1>9 DEF Sound

(* Every step keeps the stream sound. *)
LEMMA StepSound == Sound(Both) /\ [Next]_vars => Sound(Both)'
<1> SUFFICES ASSUME Sound(Both), [Next]_vars PROVE Sound(Both)'
  OBVIOUS
<1>1. /\ Both.ws = ws /\ Both.d = duplex /\ Both \in State /\ ws \in WS /\ duplex \in Duplex
      /\ SocketOK(ws) /\ Counted(ws, duplex) /\ Complete(ws, duplex)
      /\ FinishOK(ws, duplex) /\ CloseOK(ws, duplex)
      /\ Told(ws, duplex, Has(duplex, "error"))
  BY DEF Sound, Both, State
<1>2. /\ ws.arrived \in Nat /\ ws.inside \in Nat /\ duplex.buffered \in Nat /\ duplex.got \in Nat
      /\ MaxMessages \in Nat
  BY <1>1, StreamAssumption DEF WS, Duplex
<1>3. CASE Write
  <2>1. ~Waits(duplex, "finish") /\ ~Has(duplex, "finish")
    BY <1>1, <1>3 DEF Write, FinishOK
  <2> QED BY <1>1, <1>3, <2>1, WriteSound, BecomeSound DEF Write
<1>4. CASE End
  <2>1. Sound([Both EXCEPT !.d.ending = TRUE])
    BY NotedSound
  <2> QED BY <1>4, <2>1, FinishMaybeSound, BecomeSound DEF End
<1>5. CASE DestroyCall
  <2>1. ASSUME NEW failed \in BOOLEAN PROVE Sound(Destroy(Both, failed))
    BY <1>1, <1>5, DestroySound DEF DestroyCall, Told
  <2> QED BY <1>5, <2>1, BecomeSound DEF DestroyCall
<1>6. ASSUME NEW n \in 0 .. MaxMessages, Read(n) PROVE Sound(Both)'
  <2> DEFINE b == duplex.buffered - n
             g == duplex.got + n
             x == [Both EXCEPT !.d.buffered = @ - n, !.d.got = @ + n]
             y == [Both EXCEPT !.ws.arrived = ws.arrived, !.ws.inside = ws.inside,
                               !.d.buffered = b, !.d.got = g]
  <2>1. n \in Nat /\ n <= duplex.buffered
    BY <1>2, <1>6 DEF Read
  <2>2. b \in Nat /\ g \in Nat /\ g + b = duplex.got + duplex.buffered
    BY <1>2, <2>1
  <2>3. Has(duplex, "end") => g = duplex.got
    BY <1>1, <1>2, <2>1 DEF Counted
  <2>4. x = y
    <3>1. x \in State /\ x.ws = ws /\ x.d = [duplex EXCEPT !.buffered = b, !.got = g]
      BY <1>1, <2>2 DEF State, Duplex
    <3>2. ws = [ws EXCEPT !.arrived = ws.arrived, !.inside = ws.inside]
      BY <1>1 DEF WS
    <3>3. y \in State /\ y.ws = ws /\ y.d = [duplex EXCEPT !.buffered = b, !.got = g]
      BY <1>1, <1>2, <2>2, <3>2 DEF State, Duplex
    <3> QED BY <3>1, <3>3, SameState
  <2>5. ws.failed \/ ws.readyState = "CLOSED" => ws.inside = 0
    BY <1>1 DEF SocketOK
  <2>6. duplex.ended => ws.inside = 0
    BY <1>1, <2>5 DEF Counted
  <2>7. g + b + ws.inside <= ws.arrived /\ ws.arrived <= MaxMessages
    BY <1>1, <1>2, <2>2 DEF Counted, SocketOK
  <2>8. ~duplex.destroyed /\ ~duplex.errored => g + b + ws.inside = ws.arrived
    BY <1>1, <1>2, <2>2 DEF Complete
  <2> HIDE DEF b, g
  <2>9. Sound(y)
    BY ZenonT(60), <1>1, <1>2, <2>2, <2>3, <2>5, <2>6, <2>7, <2>8, CountSound
  <2> HIDE DEF y
  <2>10. Sound(EndReadable(x))
    BY <2>4, <2>9, EndReadableSound
  <2>11. Sound(Resume([x EXCEPT !.d.reading = TRUE]))
    BY <2>4, <2>9, NotedSound, PauseSound
  <2> QED BY <1>6, <2>10, <2>11, BecomeSound DEF Read, _read
<1>7. CASE Tick
  <2>1. duplex.ticks # <<>> /\ Become(Called([Both EXCEPT !.d.ticks = Tail(@)], Head(duplex.ticks)))
    BY <1>7 DEF Tick
  <2>2. Sound(Called([Both EXCEPT !.d.ticks = Tail(@)], Head(Both.d.ticks)))
    BY <1>1, <2>1, CalledSound
  <2> QED BY <1>1, <2>1, <2>2, BecomeSound
<1>8. CASE Open
  <2>1. PICK state \in {"OPEN", "CLOSING"} :
           LET x == [Both EXCEPT !.ws.readyState = state, !.ws.socket = "open"]
           IN Become(IF duplex.writing = "waiting" THEN
                       IF state = "OPEN" THEN _write(x) ELSE WriteCallback(x, TRUE)
                     ELSE IF duplex.final = "waiting" THEN _final(x)
                     ELSE x)
    BY <1>8 DEF Open
  <2> DEFINE x == [Both EXCEPT !.ws.readyState = state, !.ws.socket = "open"]
  <2>0. state = "OPEN" \/ state = "CLOSING"
    OBVIOUS
  <2>2. ws.readyState = "CONNECTING" /\ ws.socket = "none" /\ ~ws.failed
    BY <1>1, <1>8 DEF Open, SocketOK
  <2>3. Sound(x) /\ x.d = duplex
    <3>1. Both.ws.readyState # "CLOSED" /\ ~Both.ws.failed /\ Both.ws.socket # "finished"
          /\ "open" \in {"none", "open", "finished", "lost"}
      BY <1>1, <2>2
    <3>2. Sound(x) /\ x.d = Both.d
      <4>1. CASE state = "OPEN"
        <5> DEFINE y == [Both EXCEPT !.ws.readyState = "OPEN", !.ws.socket = "open"]
        <5>1. Sound(y) /\ y.d = Both.d
          BY <3>1, SocketSound
        <5> QED BY <4>1, <5>1
      <4>2. CASE state = "CLOSING"
        <5> DEFINE y == [Both EXCEPT !.ws.readyState = "CLOSING", !.ws.socket = "open"]
        <5>1. Sound(y) /\ y.d = Both.d
          BY <3>1, SocketSound
        <5> QED BY <4>2, <5>1
      <4> QED BY <2>0, <4>1, <4>2
    <3> QED BY <1>1, <3>2
  <2> HIDE DEF x
  <2>4. ASSUME duplex.writing = "waiting" PROVE Sound(_write(x)) /\ Sound(WriteCallback(x, TRUE))
    <3>1. ~Waits(x.d, "finish") /\ ~Has(x.d, "finish")
      BY <1>1, <2>3, <2>4 DEF FinishOK
    <3> QED BY <2>3, <3>1, WriteSound, WriteCallbackSound
  <2>5. duplex.final = "waiting" => Sound(_final(x))
    BY <2>3, FinalSound
  <2> QED BY <2>1, <2>3, <2>4, <2>5, BecomeSound DEF x
<1>9. CASE SendCallback
  <2>1. (ws.socket # "open") \in BOOLEAN
    OBVIOUS
  <2> QED BY <1>9, <2>1, WriteCallbackSound, BecomeSound DEF SendCallback
<1>10. CASE Arrive
  <2> DEFINE a == ws.arrived + 1
             i == ws.inside + 1
             y == [Both EXCEPT !.ws.arrived = a, !.ws.inside = i, !.d.buffered = duplex.buffered, !.d.got = duplex.got]
  <2>1. /\ ws.readyState # "CLOSED" /\ ~ws.failed /\ ws.arrived < MaxMessages
        /\ ws' = [ws EXCEPT !.arrived = @ + 1, !.inside = @ + 1] /\ duplex' = duplex
    BY <1>10 DEF Arrive
  <2>2. ~duplex.ended
    BY <1>1, <2>1 DEF Counted
  <2>3. a \in Nat /\ i \in Nat /\ a <= MaxMessages
    BY <1>2, <2>1
  <2>4. duplex.got + duplex.buffered + i <= a
    BY <1>1, <1>2 DEF Counted
  <2>5. ~duplex.destroyed /\ ~duplex.errored => duplex.got + duplex.buffered + i = a
    BY <1>1, <1>2 DEF Complete
  <2>6. Become(y)
    BY <1>1, <2>1 DEF Become, State, WS, Duplex
  <2> HIDE DEF a, i
  <2>7. Sound(y)
    BY <1>1, <1>2, <2>1, <2>2, <2>3, <2>4, <2>5, CountSound
  <2> QED BY <2>6, <2>7, BecomeSound
<1>11. CASE Message
  <2> DEFINE i == ws.inside - 1
             x == [Both EXCEPT !.ws.inside = @ - 1]
             y == [x EXCEPT !.d.reading = FALSE, !.d.buffered = @ + 1]
             z == [x EXCEPT !.d.reading = FALSE, !.d.got = @ + 1]
             p == [Both EXCEPT !.ws.arrived = ws.arrived, !.ws.inside = i,
                               !.d.buffered = duplex.buffered + 1, !.d.got = duplex.got]
             q == [Both EXCEPT !.ws.arrived = ws.arrived, !.ws.inside = i,
                               !.d.buffered = duplex.buffered, !.d.got = duplex.got + 1]
             r == [Both EXCEPT !.ws.arrived = ws.arrived, !.ws.inside = i,
                               !.d.buffered = duplex.buffered, !.d.got = duplex.got]
  <2>1. ws.inside > 0 /\ i \in Nat /\ i + 1 = ws.inside
    BY <1>2, <1>11 DEF Message
  <2>2. ~ws.failed /\ ws.readyState # "CLOSED" /\ ~duplex.ended /\ ws.arrived <= MaxMessages
    BY <1>1, <2>1 DEF SocketOK, Counted
  <2>3. ~Has(duplex, "end")
    BY <1>1, <2>2 DEF Counted
  <2>4. duplex.got + duplex.buffered + ws.inside <= ws.arrived
    BY <1>1 DEF Counted
  <2>5. ~duplex.destroyed /\ ~duplex.errored => duplex.got + duplex.buffered + ws.inside = ws.arrived
    BY <1>1 DEF Complete
  <2>6. duplex.got + 1 \in Nat /\ duplex.buffered + 1 \in Nat
    BY <1>2
  <2> DEFINE v == [ws EXCEPT !.arrived = ws.arrived, !.inside = i]
  <2>15. v = [ws EXCEPT !.inside = @ - 1] /\ v \in WS
    BY <1>1, <2>1 DEF WS
  <2>7. y = [p EXCEPT !.d.reading = FALSE]
    <3> DEFINE e == [duplex EXCEPT !.reading = FALSE, !.buffered = duplex.buffered + 1, !.got = duplex.got]
    <3>1. e \in Duplex /\ e = [duplex EXCEPT !.reading = FALSE, !.buffered = @ + 1]
      BY <1>1, <2>6 DEF Duplex
    <3>2. y \in State /\ y.ws = v /\ y.d = e
      BY ZenonT(60), <1>1, <2>15, <3>1 DEF State, Duplex
    <3>3. p \in State /\ p.ws = v /\ p.d = [duplex EXCEPT !.buffered = duplex.buffered + 1, !.got = duplex.got]
      BY <1>1, <2>15, <2>6 DEF State, Duplex
    <3> HIDE DEF p
    <3>4. [p EXCEPT !.d.reading = FALSE].d = e
      BY <1>1, <2>6, <3>3 DEF State, Duplex
    <3>5. [p EXCEPT !.d.reading = FALSE] \in State /\ [p EXCEPT !.d.reading = FALSE].ws = v
      BY <3>3 DEF State, Duplex
    <3> QED BY ZenonT(60), <3>2, <3>4, <3>5, SameState
  <2>8. z = [q EXCEPT !.d.reading = FALSE]
    <3> DEFINE e == [duplex EXCEPT !.reading = FALSE, !.buffered = duplex.buffered, !.got = duplex.got + 1]
    <3>1. e \in Duplex /\ e = [duplex EXCEPT !.reading = FALSE, !.got = @ + 1]
      BY <1>1, <2>6 DEF Duplex
    <3>2. z \in State /\ z.ws = v /\ z.d = e
      BY ZenonT(60), <1>1, <2>15, <3>1 DEF State, Duplex
    <3>3. q \in State /\ q.ws = v /\ q.d = [duplex EXCEPT !.buffered = duplex.buffered, !.got = duplex.got + 1]
      BY <1>1, <2>15, <2>6 DEF State, Duplex
    <3> HIDE DEF q
    <3>4. [q EXCEPT !.d.reading = FALSE].d = e
      BY <1>1, <2>6, <3>3 DEF State, Duplex
    <3>5. [q EXCEPT !.d.reading = FALSE] \in State /\ [q EXCEPT !.d.reading = FALSE].ws = v
      BY <3>3 DEF State, Duplex
    <3> QED BY <3>2, <3>4, <3>5, SameState
  <2>9. x = r
    BY ZenonT(60), <1>1 DEF State, WS, Duplex
  <2>10. \/ (duplex.destroyed \/ duplex.errored) /\ Become(Pause(x))
         \/ /\ ~duplex.destroyed /\ ~duplex.errored
            /\ Become(y) \/ Become(Pause(y)) \/ Become(z)
    BY <1>11 DEF Message
  <2> HIDE DEF x, y, z, i
  <2>11. ASSUME duplex.destroyed \/ duplex.errored PROVE Sound(r)
    <3>1. duplex.got + duplex.buffered + i <= ws.arrived
      BY <1>2, <2>1, <2>4
    <3> QED BY <1>1, <1>2, <2>1, <2>2, <2>3, <2>11, <3>1, CountSound
  <2>12. ASSUME ~duplex.destroyed, ~duplex.errored PROVE Sound(p) /\ Sound(q)
    <3>1. /\ duplex.got + (duplex.buffered + 1) + i = ws.arrived
          /\ (duplex.got + 1) + duplex.buffered + i = ws.arrived
      BY <1>2, <2>1, <2>5, <2>12
    <3> DEFINE b == duplex.buffered + 1
               g == duplex.got + 1
    <3> HIDE DEF b, g
    <3>4. /\ b \in Nat /\ g \in Nat
          /\ duplex.got + b + i = ws.arrived /\ duplex.got + b + i <= ws.arrived
          /\ g + duplex.buffered + i = ws.arrived /\ g + duplex.buffered + i <= ws.arrived
      BY <1>2, <2>6, <3>1 DEF b, g
    <3>2. Sound([Both EXCEPT !.ws.arrived = ws.arrived, !.ws.inside = i, !.d.buffered = b, !.d.got = duplex.got])
      BY <1>1, <1>2, <2>1, <2>2, <2>3, <3>4, CountSound
    <3>3. Sound([Both EXCEPT !.ws.arrived = ws.arrived, !.ws.inside = i, !.d.buffered = duplex.buffered, !.d.got = g])
      BY <1>1, <1>2, <2>1, <2>2, <2>3, <3>4, CountSound
    <3> QED BY <3>2, <3>3 DEF b, g
  <2> HIDE DEF p, q, r
  <2>13. CASE (duplex.destroyed \/ duplex.errored) /\ Become(Pause(x))
    BY <2>9, <2>11, <2>13, PauseSound, BecomeSound
  <2>14. CASE ~duplex.destroyed /\ ~duplex.errored /\ (Become(y) \/ Become(Pause(y)) \/ Become(z))
    <3>1. Sound(y) /\ Sound(z)
      BY <2>7, <2>8, <2>12, <2>14, NotedSound
    <3> QED BY <2>14, <3>1, PauseSound, BecomeSound
  <2> QED BY <2>10, <2>13, <2>14
<1>12. CASE Error
  <2> DEFINE x == [Both EXCEPT !.ws.readyState = "CLOSING", !.ws.failed = TRUE, !.ws.inside = 0]
  <2>1. /\ duplex.ticks = <<>> /\ ws.readyState # "CLOSED" /\ ~ws.failed
        /\ Become(IF ~duplex.destroyed THEN Destroy([x EXCEPT !.d.terminateOnDestroy = FALSE], TRUE)
                  ELSE IF "error" \in duplex.listening
                    THEN DestroyCallback([x EXCEPT !.d.listening = {"close"}], TRUE)
                  ELSE x)
    BY <1>12 DEF Error, Quiet
  <2>2. /\ ~duplex.destroyed => Sound(Destroy([x EXCEPT !.d.terminateOnDestroy = FALSE], TRUE))
        /\ duplex.destroyed => "error" \in duplex.listening
        /\ duplex.destroyed => Sound(DestroyCallback([x EXCEPT !.d.listening = {"close"}], TRUE))
    BY <1>1, <2>1, ErrorSound
  <2> HIDE DEF x
  <2> QED BY <2>1, <2>2, BecomeSound
<1>13. CASE Closing
  <2> DEFINE y == [Both EXCEPT !.ws.readyState = "CLOSING", !.ws.socket = ws.socket]
  <2>1. /\ ws.readyState # "CLOSED" /\ ws' = [ws EXCEPT !.readyState = "CLOSING"] /\ duplex' = duplex
    BY <1>13 DEF Closing
  <2>2. ws.socket \in {"none", "open", "finished", "lost"}
    BY <1>1 DEF WS
  <2>3. Sound(y)
    BY <1>1, <2>1, <2>2, SocketSound
  <2>4. Become(y)
    BY <1>1, <2>1 DEF Become, State, WS
  <2> QED BY <2>3, <2>4, BecomeSound
<1>14. CASE SocketFinish
  <2> DEFINE x == [Both EXCEPT !.ws.socket = "finished"]
             y == [Both EXCEPT !.ws.readyState = "CLOSING", !.ws.socket = "finished"]
  <2>1. /\ ws.readyState = "CLOSING"
        /\ Become(IF duplex.final = "socket" THEN FinalCallback(x) ELSE x)
    BY <1>14 DEF SocketFinish
  <2>2. x = y
    BY <1>1, <2>1 DEF State, WS
  <2>3. Sound(y) /\ y.d = duplex /\ y.ws.socket = "finished"
    BY ZenonT(60), <1>1, <2>1, SocketSound
  <2> HIDE DEF x, y
  <2>4. duplex.final = "socket" => Sound(FinalCallback(y))
    BY <2>3, FinalCallbackSound
  <2> QED BY <2>1, <2>2, <2>3, <2>4, BecomeSound
<1>15. CASE SocketLost
  <2> DEFINE y == [Both EXCEPT !.ws.readyState = "CLOSING", !.ws.socket = "lost"]
  <2>1. /\ ws.socket = "open" /\ ws' = [ws EXCEPT !.readyState = "CLOSING", !.socket = "lost"]
        /\ duplex' = duplex
    BY <1>15 DEF SocketLost
  <2>2. ws.readyState # "CLOSED"
    BY <1>1, <2>1 DEF SocketOK
  <2>3. Sound(y)
    BY <1>1, <2>1, <2>2, SocketSound
  <2>4. Become(y)
    BY <1>1, <2>1 DEF Become, State, WS
  <2> QED BY <2>3, <2>4, BecomeSound
<1>16. CASE Closed
  <2> DEFINE x == [Both EXCEPT !.ws.readyState = "CLOSED"]
             y == [x EXCEPT !.d.ended = TRUE]
             z == IF "error" \in x.d.listening THEN DestroyCallback(x, x.d.cause) ELSE x
             u == NextTick([z EXCEPT !.d.listening = {}], <<"close">>)
  <2>1. /\ duplex.ticks = <<>> /\ ws.readyState = "CLOSING"
        /\ IF ws.socket = "none" THEN ws.failed ELSE ws.socket # "open" /\ ws.inside = 0
        /\ \/ ~duplex.destroyed /\ (Become(y) \/ Become(EndReadable(y)))
           \/ duplex.destroyed /\ Become(u)
    BY <1>16 DEF Closed, Quiet
  <2>2. (~duplex.destroyed => Sound(y)) /\ (duplex.destroyed => Sound(u))
    BY <1>1, <2>1, ClosedSound
  <2> HIDE DEF x, y, z, u
  <2> QED BY <2>1, <2>2, EndReadableSound, BecomeSound
<1>17. CASE UNCHANGED vars
  BY <1>17 DEF vars, Both, Sound
<1> QED BY <1>3, <1>4, <1>5, <1>6, <1>7, <1>8, <1>9, <1>10, <1>11, <1>12, <1>13, <1>14, <1>15,
           <1>16, <1>17 DEF Next, Program

(* The queue, the events and the listeners of the stream agree in every      *)
(* state: the invariant.                                                     *)
THEOREM StreamInvariance == Spec => []Sound(Both)
BY InitSound, StepSound, PTL DEF Spec

(* Counters in their range, and a destroyed stream that listens as long as   *)
(* the WebSocket may tell it something.                                      *)
THEOREM StreamTypes == Spec => []TypeOK
<1>1. Sound(Both) => TypeOK
  <2> SUFFICES ASSUME Sound(Both) PROVE TypeOK
    OBVIOUS
  <2>1. /\ ws \in WS /\ duplex \in Duplex /\ SocketOK(ws) /\ Counted(ws, duplex)
        /\ Told(ws, duplex, Has(duplex, "error"))
    BY DEF Sound, Both, State
  <2>2. /\ ws.arrived \in Nat /\ ws.inside \in Nat /\ duplex.buffered \in Nat /\ duplex.got \in Nat
        /\ MaxMessages \in Nat
    BY <2>1, StreamAssumption DEF WS, Duplex
  <2>3. /\ ws.arrived <= MaxMessages /\ duplex.got + duplex.buffered + ws.inside <= ws.arrived
    BY <2>1 DEF SocketOK, Counted
  <2>4. /\ ws.arrived \in 0 .. MaxMessages /\ ws.inside \in 0 .. MaxMessages
        /\ duplex.buffered \in 0 .. MaxMessages /\ duplex.got \in 0 .. MaxMessages
    BY <2>2, <2>3
  <2>5. ws \in [readyState : {"CONNECTING", "OPEN", "CLOSING", "CLOSED"},
               socket : {"none", "open", "finished", "lost"}, paused : BOOLEAN,
               failed : BOOLEAN, arrived : 0 .. MaxMessages, inside : 0 .. MaxMessages]
    BY <2>1, <2>4 DEF WS
  <2>6. duplex \in [terminateOnDestroy : BOOLEAN, listening : SUBSET {"error", "close"},
                   cause : BOOLEAN, destroyed : BOOLEAN, errored : BOOLEAN, closed : BOOLEAN,
                   buffered : 0 .. MaxMessages, got : 0 .. MaxMessages, reading : BOOLEAN,
                   ended : BOOLEAN, writing : {"idle", "waiting", "sending"},
                   ending : BOOLEAN, final : {"no", "waiting", "dropped", "socket", "done"},
                   finished : BOOLEAN,
                   ticks : Seq({"end", "finish", "error", "closed", "failed", "close"}),
                   events : Seq({"end", "finish", "error", "close"})]
    BY <2>1, <2>4 DEF Duplex, Callbacks, Events
  <2>7. duplex.destroyed /\ ws.readyState # "CLOSED" =>
          "close" \in duplex.listening /\ (ws.failed \/ "error" \in duplex.listening)
    BY <2>1 DEF Told
  <2> QED BY <2>5, <2>6, <2>7 DEF TypeOK
<1> QED BY <1>1, StreamInvariance, PTL

(* Each event at most once, 'close' last and only of a destroyed stream on a *)
(* closed WebSocket, an error of the WebSocket told before it; 'end' when    *)
(* all was read; 'finish' when the socket has finished.                      *)
THEOREM EventsInOrder == Spec => []OrderlyEvents
<1>1. Sound(Both) => OrderlyEvents
  <2> SUFFICES ASSUME Sound(Both) PROVE OrderlyEvents
    OBVIOUS
  <2> DEFINE s == duplex.events
  <2>1. /\ ws \in WS /\ duplex \in Duplex /\ Counted(ws, duplex) /\ FinishOK(ws, duplex)
        /\ CloseOK(ws, duplex) /\ Told(ws, duplex, Has(duplex, "error"))
    BY DEF Sound, Both, State
  <2>2. s \in Seq(Events) /\ EventsOK(s)
    BY <2>1 DEF Duplex, CloseOK
  <2>3. \A i, j \in 1 .. Len(s) : s[i] = s[j] => i = j
    <3> SUFFICES ASSUME NEW i \in 1 .. Len(s), NEW j \in 1 .. Len(s), s[i] = s[j], i # j PROVE FALSE
      OBVIOUS
    <3>1. i < j \/ j < i
      OBVIOUS
    <3> QED BY <2>2, <3>1 DEF EventsOK
  <2>4. ASSUME Has(duplex, "close")
        PROVE  /\ s[Len(s)] = "close"
               /\ ws.readyState = "CLOSED" /\ duplex.destroyed
               /\ ws.failed => Has(duplex, "error")
    <3>1. PICK i \in 1 .. Len(s) : s[i] = "close"
      BY <2>4 DEF Has, In
    <3>2. i = Len(s)
      <4>1. Len(s) \in 1 .. Len(s) /\ (i < Len(s) \/ i = Len(s))
        BY <2>2
      <4> QED BY <2>2, <3>1, <4>1 DEF EventsOK
    <3>3. duplex.destroyed /\ ws.readyState = "CLOSED" /\ AllHarmless(duplex.ticks)
      BY <2>1, <2>4 DEF CloseOK
    <3>4. ~Waits(duplex, "failed")
      BY <3>3 DEF AllHarmless, Harmless, Waits, In
    <3> QED BY <2>1, <3>1, <3>2, <3>3, <3>4 DEF Told
  <2>5. Has(duplex, "end") => ws.readyState = "CLOSED" /\ duplex.got = ws.arrived
    BY <2>1 DEF Counted
  <2>6. Has(duplex, "finish") => ws.socket = "finished" /\ duplex.writing = "idle"
    BY <2>1 DEF FinishOK
  <2> QED BY <2>3, <2>4, <2>5, <2>6 DEF OrderlyEvents
<1> QED BY <1>1, StreamInvariance, PTL
=============================================================================
