------------------------ MODULE WebSocketServerProofs ------------------------
(***************************************************************************)
(* What WebSocketServer.tla promises with 'close', for any number of       *)
(* connections, any options and any number of calls of close().            *)
(*                                                                         *)
(* ClosedMeansClosed is not inductive: it says nothing of the emitClose()  *)
(* calls that wait for a nextTick.  Inv adds when one may wait (Promised), *)
(* what the internal HTTP server knows (HttpKnows), that close() leaves no *)
(* upgrade behind (Stopped) and which event is still owed (Counted).       *)
(***************************************************************************)
EXTENDS WebSocketServer, TLAPS

(* close() ends the upgrades, but for those inside which it was called. *)
Stopped ==
    /\ state = "RUNNING" => calls = 0 /\ ~shouldEmitClose /\ http = "listening"
    /\ state # "RUNNING" => calls > 0 /\ ~attached
    /\ state # "RUNNING" /\ Upgrading => options.reentrant
    /\ options.mode = "noServer" => ~attached

(* The internal HTTP server closes after its sockets and emits the event. *)
HttpKnows ==
    /\ Internal => /\ ~shouldEmitClose
                   /\ state = "CLOSING" => http = "closing"
                   /\ state = "CLOSED" => http = "closed"
                   /\ ticks > 0 => state = "CLOSED"
                   /\ http = "closed" =>
                        \A c \in Connections : conn[c] \in {"none", "ending", "gone"}
    /\ ~Internal => http = "listening"

(* With an external server the event waits for the tracked clients. *)
Promised ==
    /\ ~Internal /\ ~options.reentrant /\ (ticks > 0 \/ state = "CLOSED") => clients = {}
    /\ shouldEmitClose /\ Upgrading => clients # {}

Owed == IF (Internal /\ http = "closing") \/ (shouldEmitClose /\ clients # {}) THEN 1 ELSE 0

Counted == emitted + ticks + Owed <= calls

Inv == TypeOK /\ Stopped /\ HttpKnows /\ Promised /\ Counted

-----------------------------------------------------------------------------
(* A made server promises nothing yet. *)
LEMMA InitInv == Init => Inv
  <1> SUFFICES ASSUME Init PROVE Inv
    OBVIOUS
  <1>1. options \in AllOptions
    BY ServerAssumption DEF Init
  <1>2. MaxCloses \in Nat
    BY ServerAssumption
  <1>6. attached \in BOOLEAN /\ (options.mode = "noServer" => ~attached)
    BY Zenon DEF Init
  <1>7. ~shouldEmitClose /\ clients = {} /\ \A c \in Connections : conn[c] = "none"
    BY DEF Init
  <1>3. TypeOK
    <2>1. conn \in [Connections -> Phases] /\ answers \in [1 .. MaxCloses -> Answers]
      BY SMT DEF Init, Phases, Answers
    <2>2. clients = {c \in Connections : options.clientTracking /\ conn[c] \in {"open", "ending"}}
      BY <1>7, SMT
    <2>3. calls \in 0 .. MaxCloses /\ emitted \in Nat /\ ticks \in Nat
      BY <1>2, SMT DEF Init
    <2>4. shouldEmitClose \in BOOLEAN
      BY Zenon DEF Init
    <2> QED
      BY <1>6, <2>1, <2>2, <2>3, <2>4, Zenon DEF Init, TypeOK
  <1>4. Stopped
    BY <1>6, <1>7, Zenon DEF Init, Stopped
  <1>5. HttpKnows /\ Promised /\ Counted
    BY <1>7, SMT DEF Init, HttpKnows, Promised, Counted, Owed, Internal, Upgrading
  <1> QED
    BY <1>3, <1>4, <1>5 DEF Inv

-----------------------------------------------------------------------------
(* What an upgrade that advances leaves alone. *)
Untouched == UNCHANGED <<options, state, attached, shouldEmitClose, clients, http,
                         ticks, answers, calls, emitted>>

(* A connection that is no client, before and after, and that is upgrading   *)
(* only in a running server, disturbs nothing unless the server is closed.  *)
LEMMA Approach ==
  ASSUME Inv, Untouched, ~Upgrading,
         NEW c \in Connections, NEW p \in Phases \ {"open", "ending"},
         conn[c] \notin {"open", "ending"}, Become(c, p),
         p = "upgrading" => state = "RUNNING",
         Internal /\ http = "closed" => p = "gone"
  PROVE  Inv'
  <1>1. TypeOK'
    BY SMT DEF Inv, TypeOK, Untouched, Become, Phases
  <1>2. Stopped' /\ HttpKnows' /\ Promised' /\ Counted'
    BY SMT DEF Inv, TypeOK, Untouched, Become, Phases, Stopped, HttpKnows, Promised,
               Counted, Owed, Internal, Upgrading
  <1> QED
    BY <1>1, <1>2 DEF Inv

(* completeUpgrade() up to the program's code. *)
LEMMA CompleteUpgradeInv ==
  ASSUME Inv, Untouched, ~Upgrading, NEW c \in Connections,
         conn[c] \in {"none", "verifying", "hungup"}, CompleteUpgrade(c),
         ~(Internal /\ http = "closed")
  PROVE  Inv'
  <1>1. CASE conn[c] = "hungup"
    BY <1>1, Approach, Zenon DEF CompleteUpgrade, Phases
  <1>2. CASE conn[c] # "hungup" /\ state # "RUNNING"
    BY <1>2, Approach, Zenon DEF CompleteUpgrade, Phases
  <1>3. CASE conn[c] # "hungup" /\ state = "RUNNING"
    BY <1>3, Approach, Zenon DEF CompleteUpgrade, Phases
  <1> QED
    BY <1>1, <1>2, <1>3

(* handleUpgrade(): the HTTP server no longer calls it once closing. *)
LEMMA RequestInv ==
  ASSUME Inv, NEW c \in Connections, Request(c)
  PROVE  Inv'
  <1>1. Untouched /\ ~Upgrading /\ conn[c] = "none"
    BY DEF Request, Untouched
  <1>2. ~(Internal /\ http = "closed")
    BY SMT DEF Request, Inv, Stopped, Internal, TypeOK
  <1>3. CASE Become(c, "aborting")
    BY <1>1, <1>2, <1>3, Approach, Zenon DEF Phases
  <1>4. CASE Become(c, "verifying")
    BY <1>1, <1>2, <1>4, Approach, Zenon DEF Phases
  <1>5. CASE CompleteUpgrade(c)
    BY <1>1, <1>2, <1>5, CompleteUpgradeInv, Zenon
  <1> QED
    BY <1>3, <1>4, <1>5 DEF Request

(* The answer of verifyClient: refused, or completed. *)
LEMMA VerifiedInv ==
  ASSUME Inv, NEW c \in Connections, Verified(c)
  PROVE  Inv'
  <1>1. Untouched /\ ~Upgrading /\ conn[c] \in {"verifying", "hungup"}
    BY DEF Verified, Untouched
  <1>2. ~(Internal /\ http = "closed")
    BY <1>1, SMT DEF Inv, HttpKnows
  <1>3. CASE Become(c, "aborting")
    BY <1>1, <1>2, <1>3, Approach, Zenon DEF Phases
  <1>4. CASE CompleteUpgrade(c)
    BY <1>1, <1>2, <1>4, CompleteUpgradeInv, Zenon
  <1> QED
    BY <1>3, <1>4 DEF Verified

(* The client hangs up, and an aborted connection goes. *)
LEMMA HangUpInv ==
  ASSUME Inv, NEW c \in Connections, HangUp(c)
  PROVE  Inv'
  <1>1. Untouched /\ ~Upgrading /\ conn[c] = "verifying" /\ Become(c, "hungup")
    BY DEF HangUp, Untouched
  <1>2. ~(Internal /\ http = "closed")
    BY <1>1, SMT DEF Inv, HttpKnows
  <1> QED
    BY <1>1, <1>2, Approach, Zenon DEF Phases

LEMMA AbortedInv ==
  ASSUME Inv, NEW c \in Connections, Aborted(c)
  PROVE  Inv'
  <1>1. Untouched /\ ~Upgrading /\ conn[c] = "aborting" /\ Become(c, "gone")
    BY DEF Aborted, Untouched
  <1> QED
    BY <1>1, Approach, Zenon DEF Phases

(* A socket goes: a client stays one until its 'close' event. *)
LEMMA SocketGoneInv ==
  ASSUME Inv, NEW c \in Connections, SocketGone(c)
  PROVE  Inv'
  <1>1. Untouched /\ ~Upgrading
    BY DEF SocketGone, Untouched
  <1>2. CASE conn[c] = "open"
    <2>1. Become(c, "ending")
      BY <1>2 DEF SocketGone
    <2>2. TypeOK'
      BY <1>1, <1>2, <2>1, SMT DEF Inv, TypeOK, Untouched, Become, Phases
    <2>3. Stopped' /\ HttpKnows' /\ Promised' /\ Counted'
      BY <1>1, <1>2, <2>1, SMT DEF Inv, TypeOK, Untouched, Become, Stopped, HttpKnows, Promised,
                                   Counted, Owed, Internal, Upgrading
    <2> QED
      BY <2>2, <2>3 DEF Inv
  <1>3. CASE conn[c] \in {"verifying", "hungup"}
    <2>1. Become(c, "gone")
      BY <1>3 DEF SocketGone
    <2> QED
      BY <1>1, <1>3, <2>1, Approach, Zenon DEF Phases
  <1> QED
    BY <1>2, <1>3 DEF SocketGone

-----------------------------------------------------------------------------
(* The upgraded connection becomes a client; it was not refused because the  *)
(* server runs, or because close() was called inside its upgrade.           *)
LEMMA AdmitInv ==
  ASSUME Inv, NEW c \in Connections, Admit(c)
  PROVE  Inv'
  <1>1. TypeOK'
    BY SMT DEF Admit, Become, Inv, TypeOK, Phases
  <1>2. Upgrading
    BY DEF Admit, Upgrading
  <1>3. Stopped'
    BY SMT DEF Admit, Become, Inv, TypeOK, Stopped, Upgrading, Internal
  <1>4. HttpKnows'
    BY SMT DEF Admit, Become, Inv, TypeOK, HttpKnows, Internal
  <1>5. Promised'
    <2>1. ~Internal /\ ~options.reentrant => ticks = 0 /\ state = "RUNNING"
      BY <1>2, SMT DEF Inv, TypeOK, Stopped, Counted, Owed
    <2>2. shouldEmitClose => clients' # {}
      BY <1>2, SMT DEF Inv, Promised, Admit
    <2> QED
      BY <2>1, <2>2, SMT DEF Admit, Promised, Internal, Inv, TypeOK
  <1>6. Counted'
    BY <1>2, SMT DEF Admit, Inv, TypeOK, Counted, Owed, Promised, Internal
  <1> QED
    BY <1>1, <1>3, <1>4, <1>5, <1>6 DEF Inv

(* The last tracked client turns what is owed into a waiting emitClose(). *)
LEMMA ClientClosedInv ==
  ASSUME Inv, NEW c \in Connections, ClientClosed(c)
  PROVE  Inv'
  <1>1. TypeOK'
    BY SMT DEF ClientClosed, Become, Inv, TypeOK, Phases
  <1>2. ~Upgrading'
    BY SMT DEF ClientClosed, Become, Inv, TypeOK, Upgrading
  <1>3. Stopped'
    BY <1>2, SMT DEF ClientClosed, Inv, TypeOK, Stopped, Internal
  <1>4. HttpKnows'
    BY SMT DEF ClientClosed, Become, Inv, TypeOK, HttpKnows, Internal
  <1>5. Promised'
    BY <1>2, SMT DEF ClientClosed, Inv, TypeOK, Promised, Internal
  <1>6. Counted'
    <2>1. CASE shouldEmitClose /\ clients = {c}
      BY <2>1, SMT DEF ClientClosed, Inv, TypeOK, Counted, Owed, HttpKnows, Internal
    <2>2. CASE ~(shouldEmitClose /\ clients = {c})
      BY <2>2, SMT DEF ClientClosed, Inv, TypeOK, Counted, Owed, HttpKnows, Internal
    <2> QED
      BY <2>1, <2>2
  <1> QED
    BY <1>1, <1>3, <1>4, <1>5, <1>6 DEF Inv

-----------------------------------------------------------------------------
(* emitClose() keeps the record of the callbacks. *)
LEMMA EmitCloseType ==
  ASSUME TypeOK, EmitClose
  PROVE  state' = "CLOSED" /\ emitted' \in Nat /\ emitted' = emitted + 1
         /\ answers' \in [1 .. MaxCloses -> Answers]
  BY SMT DEF TypeOK, EmitClose, Answers

(* A nextTick: its 'close' event had been counted. *)
LEMMA TickInv ==
  ASSUME Inv, Tick
  PROVE  Inv'
  <1>0. TypeOK /\ EmitClose
    BY DEF Inv, Tick
  <1>1. state' = "CLOSED" /\ emitted' \in Nat /\ emitted' = emitted + 1
        /\ answers' \in [1 .. MaxCloses -> Answers]
    BY <1>0, EmitCloseType
  <1>2. ticks' = ticks - 1 /\ ticks' \in Nat
    BY <1>0, SMT DEF Tick, TypeOK
  <1>3. TypeOK'
    BY <1>0, <1>1, <1>2, SMT DEF Tick, TypeOK
  <1>4. state # "RUNNING"
    BY SMT DEF Tick, Inv, TypeOK, Stopped, Counted, Owed
  <1>5. Stopped'
    BY <1>1, <1>4, SMT DEF Tick, Inv, Stopped, Upgrading
  <1>6. HttpKnows'
    BY <1>0, <1>1, <1>4, SMT DEF Tick, Inv, HttpKnows, TypeOK, Internal
  <1>7. Promised' /\ Counted'
    BY <1>0, <1>1, <1>2, SMT DEF Tick, Inv, TypeOK, Promised, Counted, Owed, Internal, Upgrading
  <1> QED
    BY <1>3, <1>5, <1>6, <1>7 DEF Inv

(* The internal HTTP server calls back: the event it owed. *)
LEMMA HttpClosedInv ==
  ASSUME Inv, HttpClosed
  PROVE  Inv'
  <1>0. TypeOK /\ EmitClose
    BY DEF Inv, HttpClosed
  <1>1. state' = "CLOSED" /\ emitted' \in Nat /\ emitted' = emitted + 1
        /\ answers' \in [1 .. MaxCloses -> Answers]
    BY <1>0, EmitCloseType
  <1>2. Internal /\ state # "RUNNING"
    BY SMT DEF HttpClosed, Inv, HttpKnows, Stopped
  <1>3. TypeOK'
    BY <1>0, <1>1, SMT DEF HttpClosed, TypeOK
  <1>4. Stopped'
    BY <1>1, <1>2, SMT DEF HttpClosed, Inv, Stopped, Upgrading
  <1>5. HttpKnows'
    BY <1>0, <1>1, <1>2, SMT DEF HttpClosed, Inv, HttpKnows, TypeOK, Internal
  <1>6. Promised' /\ Counted'
    BY <1>0, <1>1, <1>2, SMT DEF HttpClosed, Inv, TypeOK, HttpKnows, Promised, Counted, Owed, Internal, Upgrading
  <1> QED
    BY <1>3, <1>4, <1>5, <1>6 DEF Inv

-----------------------------------------------------------------------------
(* close(): the first call makes somebody owe the event, a call of a closed  *)
(* server one of its own.                                                   *)
LEMMA CloseInv ==
  ASSUME Inv, Close
  PROVE  Inv'
  <1>0. TypeOK /\ MaxCloses \in Nat
    BY ServerAssumption DEF Inv
  <1>1. answers' \in [1 .. MaxCloses -> Answers]
    BY <1>0, SMT DEF TypeOK, Close, Answers
  <1>2. calls' = calls + 1 /\ calls' \in 0 .. MaxCloses /\ calls' > 0
    BY <1>0, SMT DEF TypeOK, Close
  <1>3. UNCHANGED <<options, clients, conn, emitted>> /\ (Upgrading' <=> Upgrading)
    BY DEF Close, Upgrading
  <1>4. CASE state = "CLOSED"
    <2>1. ticks' = ticks + 1 /\ UNCHANGED <<state, attached, http, shouldEmitClose>>
      BY <1>4 DEF Close
    <2>2. TypeOK'
      BY <1>0, <1>1, <1>2, <1>3, <2>1, SMT DEF TypeOK
    <2>3. Stopped' /\ HttpKnows' /\ Promised' /\ Counted'
      BY <1>0, <1>2, <1>3, <1>4, <2>1, SMT DEF Inv, TypeOK, Stopped, HttpKnows, Promised, Counted, Owed, Internal
    <2> QED
      BY <2>2, <2>3 DEF Inv
  <1>5. CASE state = "CLOSING"
    <2>1. UNCHANGED <<state, attached, http, shouldEmitClose, ticks>>
      BY <1>5 DEF Close
    <2>2. TypeOK'
      BY <1>0, <1>1, <1>2, <1>3, <2>1, SMT DEF TypeOK
    <2>3. Stopped' /\ HttpKnows' /\ Promised' /\ Counted'
      BY <1>0, <1>2, <1>3, <1>5, <2>1, SMT DEF Inv, TypeOK, Stopped, HttpKnows, Promised, Counted, Owed, Internal
    <2> QED
      BY <2>2, <2>3 DEF Inv
  <1>6. CASE state = "RUNNING"
    <2>1. state' = "CLOSING" /\ Stop
      BY <1>6 DEF Close
    <2>2. calls = 0 /\ emitted = 0 /\ ticks = 0 /\ ~shouldEmitClose /\ http = "listening"
      BY <1>0, <1>6, SMT DEF Inv, TypeOK, Stopped, Counted, Owed
    <2>3. Upgrading => options.reentrant
      BY DEF Close
    <2>4. CASE Internal
      <3>1. attached' = FALSE /\ http' = "closing" /\ UNCHANGED <<ticks, shouldEmitClose>>
        BY <2>1, <2>4 DEF Stop
      <3>2. TypeOK'
        <4>1. attached' \in BOOLEAN /\ shouldEmitClose' \in BOOLEAN
          BY <1>0, <3>1, Zenon DEF TypeOK
        <4>2. http' \in {"listening", "closing", "closed"} /\ ticks' \in Nat
          BY <1>0, <3>1, SMT DEF TypeOK
        <4> QED
          BY <1>0, <1>1, <1>2, <1>3, <2>1, <4>1, <4>2, Zenon DEF TypeOK
      <3>3. Stopped'
        <4>1. ~attached'
          BY <3>1, Zenon
        <4>2. calls' > 0 /\ state' # "RUNNING" /\ (Upgrading' => options'.reentrant)
          BY <1>1, <1>2, <1>3, <2>1, <2>3
        <4> QED
          BY <4>1, <4>2, Zenon DEF Stopped
      <3>4. HttpKnows' /\ Promised' /\ Counted'
        BY <1>0, <1>2, <1>3, <2>1, <2>2, <2>3, <2>4, <3>1, SMT
           DEF Inv, TypeOK, Stopped, HttpKnows, Promised, Counted, Owed, Internal
      <3> QED
        BY <3>2, <3>3, <3>4 DEF Inv
    <2>5. CASE ~Internal /\ clients = {}
      <3>1. attached' = FALSE /\ ticks' = ticks + 1 /\ UNCHANGED <<http, shouldEmitClose>>
        BY <2>1, <2>5 DEF Stop
      <3>2. TypeOK'
        <4>1. attached' \in BOOLEAN /\ shouldEmitClose' \in BOOLEAN
          BY <1>0, <3>1, Zenon DEF TypeOK
        <4>2. http' \in {"listening", "closing", "closed"} /\ ticks' \in Nat
          BY <1>0, <3>1, SMT DEF TypeOK
        <4> QED
          BY <1>0, <1>1, <1>2, <1>3, <2>1, <4>1, <4>2, Zenon DEF TypeOK
      <3>3. Stopped'
        <4>1. ~attached'
          BY <3>1, Zenon
        <4>2. calls' > 0 /\ state' # "RUNNING" /\ (Upgrading' => options'.reentrant)
          BY <1>1, <1>2, <1>3, <2>1, <2>3
        <4> QED
          BY <4>1, <4>2, Zenon DEF Stopped
      <3>4. HttpKnows' /\ Promised' /\ Counted'
        BY <1>0, <1>2, <1>3, <2>1, <2>2, <2>3, <2>5, <3>1, SMT
           DEF Inv, TypeOK, Stopped, HttpKnows, Promised, Counted, Owed, Internal
      <3> QED
        BY <3>2, <3>3, <3>4 DEF Inv
    <2>6. CASE ~Internal /\ clients # {}
      <3>1. attached' = FALSE /\ shouldEmitClose' = TRUE /\ UNCHANGED <<http, ticks>>
        BY <2>1, <2>6 DEF Stop
      <3>2. TypeOK'
        <4>1. attached' \in BOOLEAN /\ shouldEmitClose' \in BOOLEAN
          BY <1>0, <3>1, Zenon DEF TypeOK
        <4>2. http' \in {"listening", "closing", "closed"} /\ ticks' \in Nat
          BY <1>0, <3>1, SMT DEF TypeOK
        <4> QED
          BY <1>0, <1>1, <1>2, <1>3, <2>1, <4>1, <4>2, Zenon DEF TypeOK
      <3>3. Stopped'
        <4>1. ~attached'
          BY <3>1, Zenon
        <4>2. calls' > 0 /\ state' # "RUNNING" /\ (Upgrading' => options'.reentrant)
          BY <1>1, <1>2, <1>3, <2>1, <2>3
        <4> QED
          BY <4>1, <4>2, Zenon DEF Stopped
      <3>4. HttpKnows' /\ Promised' /\ Counted'
        BY <1>0, <1>2, <1>3, <2>1, <2>2, <2>3, <2>6, <3>1, SMT
           DEF Inv, TypeOK, Stopped, HttpKnows, Promised, Counted, Owed, Internal
      <3> QED
        BY <3>2, <3>3, <3>4 DEF Inv
    <2> QED
      BY <2>4, <2>5, <2>6
  <1> QED
    BY <1>0, <1>4, <1>5, <1>6 DEF TypeOK

(* Every step, one lemma per action. *)
LEMMA NextInv == Inv /\ [Next]_vars => Inv'
  <1> SUFFICES ASSUME Inv, [Next]_vars PROVE Inv'
    OBVIOUS
  <1>1. CASE Close
    BY <1>1, CloseInv
  <1>2. CASE Tick
    BY <1>2, TickInv
  <1>3. CASE HttpClosed
    BY <1>3, HttpClosedInv
  <1>4. ASSUME NEW c \in Connections, Admit(c) PROVE Inv'
    BY <1>4, AdmitInv
  <1>5. ASSUME NEW c \in Connections, Aborted(c) PROVE Inv'
    BY <1>5, AbortedInv
  <1>6. ASSUME NEW c \in Connections, ClientClosed(c) PROVE Inv'
    BY <1>6, ClientClosedInv
  <1>7. ASSUME NEW c \in Connections, Request(c) PROVE Inv'
    BY <1>7, RequestInv
  <1>8. ASSUME NEW c \in Connections, Verified(c) PROVE Inv'
    BY <1>8, VerifiedInv
  <1>9. ASSUME NEW c \in Connections, HangUp(c) PROVE Inv'
    BY <1>9, HangUpInv
  <1>10. ASSUME NEW c \in Connections, SocketGone(c) PROVE Inv'
    BY <1>10, SocketGoneInv
  <1>11. CASE UNCHANGED vars
    BY <1>11 DEF vars, Inv, TypeOK, Stopped, HttpKnows, Promised, Counted, Owed, Internal, Upgrading
  <1> QED
    BY <1>1, <1>2, <1>3, <1>4, <1>5, <1>6, <1>7, <1>8, <1>9, <1>10, <1>11
       DEF Next, Runtime

-----------------------------------------------------------------------------
(* The inductive invariant. *)
THEOREM ServerInvariance == Spec => []Inv
  <1>1. Init => Inv
    BY InitInv
  <1>2. Inv /\ [Next]_vars => Inv'
    BY NextInv
  <1> QED
    BY <1>1, <1>2, PTL DEF Spec

(* The types of the server's variables, and clients is what it should be. *)
THEOREM ServerTypes == Spec => []TypeOK
  <1>1. Inv => TypeOK
    BY DEF Inv
  <1> QED
    BY <1>1, ServerInvariance, PTL

(* 'close' means what doc/ws.md says, for any number of clients: in every    *)
(* mode as long as the program does not call close() inside an upgrade, and  *)
(* with an internal HTTP server even then.                                   *)
THEOREM CloseIsTruthful == Spec => []ClosedUnlessReentered
  <1>1. Inv => ClosedUnlessReentered
    <2> SUFFICES ASSUME Inv, state = "CLOSED", Internal \/ ~options.reentrant PROVE ClosedMeansClosed
      BY DEF ClosedMeansClosed, ClosedUnlessReentered
    <2>1. CASE Internal
      BY <2>1, SMT DEF Inv, HttpKnows, ClosedMeansClosed
    <2>2. CASE ~Internal /\ ~options.reentrant
      <3>1. ~Upgrading
        BY <2>2, SMT DEF Inv, Stopped
      <3> QED
        BY <2>2, <3>1, SMT DEF Inv, TypeOK, Promised, Upgrading, ClosedMeansClosed, Internal
    <2> QED
      BY <2>1, <2>2
  <1> QED
    BY <1>1, ServerInvariance, PTL

(* No call of close() brings about more than one 'close' event. *)
THEOREM EventsCounted == Spec => []OneEventPerCall
  <1>1. Inv => OneEventPerCall
    BY SMT DEF Inv, TypeOK, Counted, Owed, OneEventPerCall
  <1> QED
    BY <1>1, ServerInvariance, PTL

(* Once close() was called, no connection opens. *)
THEOREM NothingOpensLate == Spec => NoLateOpen
  <1>1. Inv /\ [Next]_vars =>
          [\A c \in Connections :
             conn'[c] = "open" /\ conn[c] # "open" => calls = 0 \/ options.reentrant]_vars
    <2> SUFFICES ASSUME Inv, Next, NEW c \in Connections,
                        conn'[c] = "open", conn[c] # "open"
                 PROVE  calls = 0 \/ options.reentrant
      BY Zenon DEF vars
    <2>1. conn[c] = "upgrading"
      BY SMT DEF Inv, TypeOK, Next, Runtime, Close, Tick, HttpClosed, Admit, Aborted, ClientClosed,
                 Request, Verified, HangUp, SocketGone, CompleteUpgrade, Become
    <2> QED
      BY <2>1, SMT DEF Inv, Stopped, Upgrading
  <1> QED
    BY <1>1, ServerInvariance, PTL DEF Spec, NoLateOpen
=============================================================================
