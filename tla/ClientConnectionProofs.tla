----------------------- MODULE ClientConnectionProofs -----------------------
(***************************************************************************)
(* Theorems about ConnectionManager, for every limit on attempts and any   *)
(* number of calls of reconnectFn, and about ClientConnection, whose       *)
(* sockets and timers are shown to drive the manager only through its      *)
(* methods.                                                                *)
(***************************************************************************)
EXTENDS ClientConnection, TLAPS

-----------------------------------------------------------------------------
(* Methods of the manager                                                  *)

\* NeverStuck, of a manager m while the promises in F are unsettled
Coherent(m, F) ==
    /\ m \in Managers
    /\ m.started /\ m.state = "reconnecting" => m.backoffTimer \/ m.reconnectPromise \in F
    /\ ~(m.backoffTimer /\ m.reconnectPromise # None)
    /\ m.backoffTimer \/ m.reconnectPromise # None => m.started /\ m.state = "reconnecting"

LEMMA CoherentMeans ==
  Coherent(cm, inFlight) <=> cm \in Managers /\ NeverStuck
BY DEF Coherent, NeverStuck

LEMMA ManagerFields ==
  ASSUME NEW m \in Managers
  PROVE  /\ m.state \in States /\ m.started \in BOOLEAN
         /\ m.reconnectAttempts \in 0..MaxAttempts /\ m.backoffTimer \in BOOLEAN
         /\ m.reconnectPromise \in Attempts \cup {None}
         /\ m.heartbeat \in BOOLEAN /\ m.pinging \in BOOLEAN /\ m.pongTimeout \in BOOLEAN
BY DEF Managers

LEMMA NoAttempts == 0 \in 0..MaxAttempts
BY ManagerAssumption

\* A manager that is told of a connection, while no promise matters any more
LEMMA MarkConnectedCoheres ==
  ASSUME NEW m \in Managers, NEW F
  PROVE  Coherent(MarkConnected(m), F)
<1> DEFINE q == MarkConnected(m)
<1>1. q \in Managers
  BY NoAttempts DEF MarkConnected, Managers, States
<1>2. q.reconnectPromise = None /\ q.backoffTimer = FALSE /\ q.state = "connected"
  BY DEF MarkConnected, Managers
<1> HIDE DEF q
<1>3. Coherent(q, F)
  BY <1>1, <1>2 DEF Coherent
<1> QED
  BY <1>3 DEF q

\* Arming the backoff timer, when no attempt is current
LEMMA ScheduleCoheres ==
  ASSUME NEW m \in Managers, NEW F, m.reconnectPromise = None, ~m.backoffTimer,
         m.state = "reconnecting"
  PROVE  /\ Coherent(ScheduleReconnect(m), F)
         /\ ScheduleReconnect(m).reconnectPromise = None
<1> DEFINE q == ScheduleReconnect(m)
<1>1. MaxAttempts \in Nat /\ m.reconnectAttempts \in 0..MaxAttempts
  BY ManagerAssumption, ManagerFields
<1>2. CASE ~m.started
  BY <1>2 DEF ScheduleReconnect, Coherent
<1>3. CASE m.started /\ m.reconnectAttempts >= MaxAttempts
  BY <1>3 DEF ScheduleReconnect, Coherent, Managers, States
<1>4. CASE m.started /\ ~(m.reconnectAttempts >= MaxAttempts)
  <2>1. m.reconnectAttempts + 1 \in 0..MaxAttempts
    BY <1>1, <1>4
  <2> QED
    BY <1>4, <2>1 DEF ScheduleReconnect, Coherent, Managers
<1> QED
  BY <1>2, <1>3, <1>4

LEMMA StartReconnectingCoheres ==
  ASSUME NEW m \in Managers, NEW F, m.reconnectPromise = None, ~m.backoffTimer
  PROVE  /\ Coherent(StartReconnecting(m), F)
         /\ StartReconnecting(m).reconnectPromise = None
<1> DEFINE q == [m EXCEPT !.pinging = FALSE, !.pongTimeout = FALSE, !.state = "reconnecting"]
<1>1. q \in Managers /\ q.reconnectPromise = None /\ ~q.backoffTimer
      /\ q.state = "reconnecting"
  BY DEF Managers, States
<1>2. StartReconnecting(m) = ScheduleReconnect(q)
  BY DEF StartReconnecting
<1> HIDE DEF q
<1> QED
  BY <1>1, <1>2, ScheduleCoheres

\* An error or a close leaves the current attempt alone.
LEMMA HandleErrorCoheres ==
  ASSUME NEW m, NEW F, Coherent(m, F), NEW retryable \in BOOLEAN
  PROVE  /\ Coherent(HandleError(m, retryable), F)
         /\ HandleError(m, retryable).reconnectPromise = m.reconnectPromise
<1>1. CASE m.state = "reconnecting"
  BY <1>1 DEF HandleError
<1>2. CASE m.state # "reconnecting"
  <2>1. m \in Managers /\ m.reconnectPromise = None /\ ~m.backoffTimer
    BY <1>2 DEF Coherent
  <2>2. CASE retryable
    BY <1>2, <2>1, <2>2, StartReconnectingCoheres DEF HandleError
  <2>3. CASE ~retryable
    BY <1>2, <2>1, <2>3 DEF HandleError, Coherent, Managers, States
  <2> QED
    BY <2>2, <2>3
<1> QED
  BY <1>1, <1>2

LEMMA ForceReconnectCoheres ==
  ASSUME NEW m \in Managers, NEW F
  PROVE  Coherent(ForceReconnect(m), F)
<1> DEFINE q == [m EXCEPT !.reconnectAttempts = 0, !.backoffTimer = FALSE,
                          !.reconnectPromise = None]
<1>1. q \in Managers /\ q.reconnectPromise = None /\ ~q.backoffTimer
  BY NoAttempts DEF Managers
<1>2. ForceReconnect(m) = StartReconnecting(q)
  BY DEF ForceReconnect
<1> HIDE DEF q
<1> QED
  BY <1>1, <1>2, StartReconnectingCoheres

\* The methods that settle or watch nothing
LEMMA CallsCohere ==
  ASSUME NEW m, NEW F, Coherent(m, F)
  PROVE  /\ Coherent(Start(m), F) /\ Coherent(Stop(m), F)
         /\ Coherent(MarkConnected(m), F) /\ Coherent(RecordHeartbeat(m), F)
         /\ Coherent(ReceivePong(m), F)
<1>1. m \in Managers
  BY DEF Coherent
<1>2. Coherent(Start(m), F)
  BY <1>1 DEF Start, Coherent, Managers, States
<1>3. Coherent(Stop(m), F)
  BY <1>1 DEF Stop, Coherent, Managers, States
<1>4. Coherent(MarkConnected(m), F)
  BY <1>1, MarkConnectedCoheres
<1>5. Coherent(RecordHeartbeat(m), F)
  BY <1>1 DEF RecordHeartbeat, Coherent, Managers
<1>6. Coherent(ReceivePong(m), F)
  BY <1>1 DEF ReceivePong, Coherent, Managers
<1> QED
  BY <1>2, <1>3, <1>4, <1>5, <1>6

LEMMA WatchesCohere ==
  ASSUME NEW m, NEW F, Coherent(m, F), NEW sent \in BOOLEAN
  PROVE  Coherent(BecameVisible(m, sent), F) /\ Coherent(PongTimedOut(m), F)
<1> DEFINE q == [m EXCEPT !.pinging = FALSE, !.pongTimeout = FALSE]
<1>1. m \in Managers
  BY DEF Coherent
<1>2. q \in Managers
  BY <1>1 DEF Managers
<1>3. Coherent(ForceReconnect(q), F)
  BY <1>2, ForceReconnectCoheres
<1>4. Coherent([m EXCEPT !.pinging = TRUE, !.pongTimeout = TRUE], F)
      /\ Coherent([m EXCEPT !.pongTimeout = FALSE], F)
  BY <1>1 DEF Coherent, Managers
<1> QED
  BY <1>3, <1>4 DEF BecameVisible, PongTimedOut

\* A promise settles: the current attempt's or a superseded one.
LEMMA SettledCoheres ==
  ASSUME NEW m, NEW F, Coherent(m, F), NEW a \in Attempts,
         NEW ok \in BOOLEAN, NEW retryable \in BOOLEAN
  PROVE  Coherent(Settled(m, a, ok, retryable), F \ {a})
<1>1. m \in Managers /\ None \notin Attempts
  BY ManagerAssumption DEF Coherent
<1>2. CASE m.reconnectPromise # a
  BY <1>2 DEF Settled, Coherent
<1>3. CASE m.reconnectPromise = a /\ ok
  BY <1>1, <1>3, MarkConnectedCoheres DEF Settled
<1>4. CASE m.reconnectPromise = a /\ ~ok
  <2> DEFINE n == [m EXCEPT !.reconnectPromise = None]
  <2>1. n \in Managers /\ n.reconnectPromise = None /\ ~n.backoffTimer
        /\ n.state = "reconnecting"
    BY <1>1, <1>4 DEF Coherent, Managers
  <2>2. Coherent([n EXCEPT !.state = "disconnected"], F \ {a})
    BY <2>1 DEF Coherent, Managers, States
  <2>3. Coherent(ScheduleReconnect(n), F \ {a})
    BY <2>1, ScheduleCoheres
  <2>4. Settled(m, a, ok, retryable)
          = IF retryable THEN ScheduleReconnect(n) ELSE [n EXCEPT !.state = "disconnected"]
    BY <1>4 DEF Settled, AttemptFailed
  <2> QED
    BY <2>2, <2>3, <2>4
<1> QED
  BY <1>2, <1>3, <1>4

-----------------------------------------------------------------------------
(* The manager                                                             *)

ManagerInv == Coherent(cm, inFlight) /\ inFlight \subseteq Attempts

LEMMA ManagerInvInit == ManagerInit => ManagerInv
BY ManagerAssumption DEF ManagerInit, ManagerInv, Coherent, NewManager, Managers, States

LEMMA ManagerInvStep == ManagerInv /\ [ManagerNext]_managerVars => ManagerInv'
<1> SUFFICES ASSUME ManagerInv, [ManagerNext]_managerVars PROVE ManagerInv'
  OBVIOUS
<1>1. cm \in Managers
  BY DEF ManagerInv, Coherent
<1>2. CASE Calls
  <2>1. Coherent(cm', inFlight)
    BY <1>1, <1>2, CallsCohere, HandleErrorCoheres, ForceReconnectCoheres
    DEF Calls, ManagerInv
  <2> QED
    BY <1>2, <2>1 DEF Calls, ManagerInv
<1>3. CASE Watches
  <2>1. Coherent(cm', inFlight)
    BY <1>1, <1>3, WatchesCohere, ForceReconnectCoheres DEF Watches, ManagerInv
  <2> QED
    BY <1>3, <2>1 DEF Watches, ManagerInv
<1>4. CASE PongTimeoutFires
  <2>1. Coherent(cm', inFlight)
    BY <1>4, WatchesCohere DEF PongTimeoutFires, ManagerInv
  <2> QED
    BY <1>4, <2>1 DEF PongTimeoutFires, ManagerInv
<1>5. ASSUME NEW a \in Attempts, BackoffFires(a) PROVE ManagerInv'
  <2> DEFINE m == [cm EXCEPT !.backoffTimer = FALSE]
  <2>1. m \in Managers /\ m.reconnectPromise = None /\ m.started
        /\ m.state = "reconnecting" /\ ~m.backoffTimer
    BY <1>1, <1>5 DEF BackoffFires, ManagerInv, Coherent, Managers
  <2>2. inFlight' = inFlight \cup {a} /\ cm' = [m EXCEPT !.reconnectPromise = a]
    BY <1>5, <2>1 DEF BackoffFires, CallsReconnect
  <2> HIDE DEF m
  <2>3. Coherent(cm', inFlight')
    BY <2>1, <2>2 DEF Coherent, Managers
  <2> QED
    BY <2>2, <2>3 DEF ManagerInv
<1>6. ASSUME NEW a \in Attempts, Settles(a) PROVE ManagerInv'
  <2>1. Coherent(cm', inFlight \ {a})
    <3>1. CASE \E ok, retryable \in BOOLEAN : cm' = Settled(cm, a, ok, retryable)
      BY <3>1, SettledCoheres DEF ManagerInv
    <3>2. CASE \E retryable \in BOOLEAN :
                  cm' = Settled(HandleError(cm, TRUE), a, FALSE, retryable)
      <4>1. Coherent(HandleError(cm, TRUE), inFlight)
        BY HandleErrorCoheres DEF ManagerInv
      <4>2. PICK retryable \in BOOLEAN :
                   cm' = Settled(HandleError(cm, TRUE), a, FALSE, retryable)
        BY <3>2
      <4>3. Coherent(Settled(HandleError(cm, TRUE), a, FALSE, retryable), inFlight \ {a})
        BY <4>1, SettledCoheres
      <4> QED
        BY <4>2, <4>3
    <3> QED
      BY <1>6, <3>1, <3>2 DEF Settles
  <2> QED
    BY <1>6, <2>1 DEF Settles, ManagerInv
<1>7. CASE UNCHANGED managerVars
  BY <1>7 DEF managerVars, ManagerInv
<1> QED
  BY <1>2, <1>3, <1>4, <1>5, <1>6, <1>7 DEF ManagerNext

LEMMA ManagerInvariance == ManagerSpec => []ManagerInv
BY ManagerInvInit, ManagerInvStep, PTL DEF ManagerSpec

\* Every field of the manager stays in its set, for consumers that call any method
\* at any time; the counter of attempts never passes its limit.
THEOREM ManagerTypeCorrect == ManagerSpec => []ManagerTypeOK
<1>1. ManagerInv => ManagerTypeOK
  BY DEF ManagerInv, Coherent, ManagerTypeOK
<1> QED
  BY ManagerInvariance, <1>1, PTL

\* A manager that is reconnecting has its timer armed or an attempt under way,
\* never both, for consumers that call any method at any time
\* (ConnectionManager.ts).
THEOREM ManagerNeverStuck == ManagerSpec => []NeverStuck
<1>1. ManagerInv => NeverStuck
  BY CoherentMeans DEF ManagerInv
<1> QED
  BY ManagerInvariance, <1>1, PTL

-----------------------------------------------------------------------------
(* The bus and its sockets use the manager                                 *)

\* Whoever waits for a promise waits for a socket that is opening, and the socket
\* in use is one that is open and listened to.
SocketInv ==
    /\ inFlight \subseteq Opening /\ Opening \subseteq attached
    /\ ws # None => ws \in attached /\ ws \in Sockets /\ sock[ws] = "open"
    /\ DOMAIN sock = Sockets

ClientInv == ManagerInv /\ SocketInv

LEMMA ClientInvInit == ClientInit => ManagerInit /\ ClientInv
<1> SUFFICES ASSUME ClientInit PROVE ManagerInit /\ ClientInv
  OBVIOUS
<1>1. ManagerInit /\ inFlight = {} /\ ws = None
      /\ sock = [w \in Sockets |-> "unused"]
  BY DEF ClientInit, ManagerInit
<1>2. Opening = {} /\ DOMAIN sock = Sockets
  BY <1>1 DEF Opening
<1> QED
  BY <1>1, <1>2, ManagerInvInit DEF ClientInv, SocketInv

\* A second report of the end of a connection changes nothing.
LEMMA HandleErrorOnce ==
  ASSUME NEW m \in Managers, NEW retryable \in BOOLEAN
  PROVE  HandleError(HandleError(m, retryable), retryable) = HandleError(m, retryable)
<1>1. CASE m.state = "reconnecting" \/ ~retryable
  BY <1>1 DEF HandleError, Managers
<1>2. CASE m.state # "reconnecting" /\ retryable
  <2> DEFINE q == [m EXCEPT !.pinging = FALSE, !.pongTimeout = FALSE,
                            !.state = "reconnecting"]
             r == ScheduleReconnect(q)
  <2>1. HandleError(m, retryable) = r
    BY <1>2 DEF HandleError, StartReconnecting
  <2>2. CASE r.state = "reconnecting"
    BY <2>1, <2>2 DEF HandleError
  <2>3. CASE r.state # "reconnecting"
    <3>1. q \in Managers /\ q.state = "reconnecting" /\ q.pinging = FALSE
          /\ q.pongTimeout = FALSE
      BY DEF Managers, States
    <3> HIDE DEF q
    <3>2. /\ q.started /\ q.reconnectAttempts >= MaxAttempts
          /\ r = [q EXCEPT !.state = "disconnected"]
      BY <2>3, <3>1 DEF ScheduleReconnect, Managers
    <3>3. [r EXCEPT !.pinging = FALSE, !.pongTimeout = FALSE, !.state = "reconnecting"] = q
      BY <3>1, <3>2 DEF Managers
    <3>4. StartReconnecting(r) = r
      BY <3>3 DEF StartReconnecting
    <3> HIDE DEF r
    <3> QED
      BY <1>2, <2>1, <2>3, <3>4 DEF HandleError
  <2> QED
    BY <2>2, <2>3
<1> QED
  BY <1>1, <1>2

\* A promise that is not in flight is not the current one.
LEMMA CurrentInFlight ==
  ASSUME ManagerInv, NEW w \in Attempts, w \notin inFlight
  PROVE  cm.reconnectPromise # w
BY ManagerAssumption DEF ManagerInv, Coherent

\* What an action of the client does to the manager
Driven == [ManagerNext]_managerVars

LEMMA BusDrives ==
  ASSUME ClientInv,
         \/ BusConnect \/ BusDisconnect \/ Heartbeat \/ PageVisible \/ Pong \/ NoPong \/ Stale
         \/ \E w \in Sockets, s \in Subscriptions : SubscriptionOpens(w, s)
  PROVE  Driven
<1> USE DEF Driven, ManagerNext
<1>1. CASE BusConnect \/ BusDisconnect \/ Heartbeat \/ Pong
  BY <1>1 DEF BusConnect, BusDisconnect, Heartbeat, Pong, Calls
<1>2. CASE PageVisible \/ Stale
  <2>1. WsOpen \in BOOLEAN
    BY DEF WsOpen
  <2> QED
    BY <1>2, <2>1 DEF PageVisible, Stale, Watches
<1>3. CASE NoPong
  BY <1>3 DEF NoPong
<1>4. ASSUME NEW w \in Sockets, NEW s \in Subscriptions, SubscriptionOpens(w, s)
      PROVE  Driven
  BY <1>4 DEF SubscriptionOpens, Calls, managerVars
<1> QED
  BY <1>1, <1>2, <1>3, <1>4

LEMMA SocketDrives ==
  ASSUME ClientInv, NEW w \in Sockets,
         \/ SocketOpens(w) \/ SocketTimesOut(w) \/ SocketVanishes(w) \/ Reconnects(w)
         \/ \E retryable \in BOOLEAN : SocketCloses(w, retryable)
  PROVE  Driven
<1> USE DEF Driven, ManagerNext, Sockets
<1>1. cm \in Managers
  BY DEF ClientInv, ManagerInv, Coherent
<1>2. CASE SocketOpens(w)
  <2>1. cm' = Settled(cm, w, TRUE, TRUE) /\ inFlight' = inFlight \ {w}
    BY <1>2 DEF SocketOpens
  <2>2. CASE w \in inFlight
    BY <2>1, <2>2 DEF Settles
  <2>3. CASE w \notin inFlight
    BY <2>1, <2>3, CurrentInFlight DEF Settled, managerVars, ClientInv
  <2> QED
    BY <2>2, <2>3
<1>3. CASE SocketTimesOut(w)
  <2>1. PICK hit : cm' = Rejected(w, hit) /\ inFlight' = inFlight \ {w}
    BY <1>3 DEF SocketTimesOut
  <2>2. CASE w \in inFlight
    BY <2>1, <2>2 DEF Settles, Rejected
  <2>3. CASE w \notin inFlight
    <3>1. HandleError(cm, TRUE).reconnectPromise = cm.reconnectPromise
      BY HandleErrorCoheres DEF ClientInv, ManagerInv
    <3>2. cm.reconnectPromise # w
      BY <2>3, CurrentInFlight DEF ClientInv
    <3>3. cm' = cm \/ cm' = HandleError(cm, TRUE)
      BY <2>1, <3>1, <3>2 DEF Rejected, Settled
    <3> QED
      BY <2>1, <2>3, <3>3 DEF Calls, managerVars
  <2> QED
    BY <2>2, <2>3
<1>4. CASE SocketVanishes(w)
  BY <1>4 DEF SocketVanishes
<1>5. CASE Reconnects(w)
  <2>1. w \notin inFlight
    BY <1>5 DEF Reconnects, NewSocket, ClientInv, SocketInv, Opening
  <2> QED
    BY <1>5, <2>1 DEF Reconnects, BackoffFires
<1>6. ASSUME NEW retryable \in BOOLEAN, SocketCloses(w, retryable) PROVE Driven
  <2>1. inFlight' = inFlight /\ (cm' = cm \/ cm' = NotifiedClosed(cm, retryable))
    BY <1>6 DEF SocketCloses
  <2>2. cm' = cm \/ cm' = HandleError(cm, retryable)
    BY <1>1, <2>1, HandleErrorOnce DEF NotifiedClosed
  <2> QED
    BY <2>1, <2>2 DEF Calls, managerVars
<1> QED
  BY <1>2, <1>3, <1>4, <1>5, <1>6

\* Subscribing to the activity stream opens at most one socket, a new one.
LEMMA SubscribesKeepsSockets ==
  ASSUME SocketInv, NEW A, SubscribesActivity(A), ws' = ws, inFlight' = inFlight
  PROVE  SocketInv'
<1>1. CASE UNCHANGED <<sock, attached>>
  BY <1>1 DEF SocketInv, Opening
<1>2. ASSUME NEW w \in Sockets, OpensSocket(w) PROVE SocketInv'
  <2>1. sock[w] = "unused" /\ sock' = [sock EXCEPT ![w] = "connecting"]
        /\ attached' = attached \cup {w}
    BY <1>2 DEF OpensSocket, NewSocket
  <2> QED
    BY <2>1 DEF SocketInv, Opening
<1> QED
  BY <1>1, <1>2 DEF SubscribesActivity

LEMMA BusKeepsSockets ==
  ASSUME SocketInv,
         \/ BusConnect \/ BusDisconnect \/ Heartbeat \/ PageVisible \/ Pong \/ NoPong \/ Stale
         \/ \E w \in Sockets, s \in Subscriptions : SubscriptionOpens(w, s)
  PROVE  SocketInv'
<1>1. CASE BusConnect
  <2>1. ws' = ws /\ inFlight' = inFlight
    BY <1>1 DEF BusConnect
  <2>2. CASE SubscribesActivity(answers)
    BY <2>1, <2>2, SubscribesKeepsSockets
  <2>3. CASE UNCHANGED <<sock, attached>>
    BY <2>1, <2>3 DEF SocketInv, Opening
  <2> QED
    BY <1>1, <2>2, <2>3 DEF BusConnect
<1>2. CASE BusDisconnect \/ Heartbeat \/ PageVisible \/ Pong \/ NoPong \/ Stale
  <2>1. UNCHANGED <<ws, sock, attached, inFlight>>
    BY <1>2 DEF BusDisconnect, Heartbeat, PageVisible, Pong, NoPong, PongTimeoutFires,
                Stale, socketVars
  <2> QED
    BY <2>1 DEF SocketInv, Opening
<1>3. ASSUME NEW w \in Sockets, NEW s \in Subscriptions, SubscriptionOpens(w, s)
      PROVE  SocketInv'
  <2> DEFINE left == answers \ {<<w, s>>}
  <2>1. ws' = ws /\ inFlight' = inFlight
    BY <1>3 DEF SubscriptionOpens
  <2>2. SubscribesActivity(left) \/ UNCHANGED <<sock, attached>>
    BY <1>3 DEF SubscriptionOpens
  <2>3. CASE SubscribesActivity(left)
    BY <2>1, <2>3, SubscribesKeepsSockets
  <2>4. CASE UNCHANGED <<sock, attached>>
    BY <2>1, <2>4 DEF SocketInv, Opening
  <2> QED
    BY <2>2, <2>3, <2>4
<1> QED
  BY <1>1, <1>2, <1>3

LEMMA SocketKeepsSockets ==
  ASSUME SocketInv, NEW w \in Sockets,
         \/ SocketOpens(w) \/ SocketTimesOut(w) \/ SocketVanishes(w) \/ Reconnects(w)
         \/ \E retryable \in BOOLEAN : SocketCloses(w, retryable)
  PROVE  SocketInv'
<1> USE DEF SocketInv, Opening
<1>1. CASE SocketOpens(w)
  <2>1. w \in attached'
    BY <1>1 DEF SocketOpens
  <2> QED
    BY <1>1, <2>1 DEF SocketOpens
<1>2. CASE SocketTimesOut(w)
  BY <1>2 DEF SocketTimesOut
<1>3. CASE SocketVanishes(w)
  BY <1>3 DEF SocketVanishes, managerVars, socketVars
<1>4. CASE Reconnects(w)
  <2>1. /\ sock[w] = "unused" /\ inFlight' = inFlight \cup {w} /\ ws' = None
        /\ sock' = [v \in Sockets |-> IF v = w THEN "connecting"
                                      ELSE IF v = ws THEN "unused" ELSE sock[v]]
    BY <1>4 DEF Reconnects, NewSocket
  <2>2. attached' = (attached \ {ws}) \cup {w}
    BY <1>4 DEF Reconnects
  <2>3. ws \notin Opening /\ DOMAIN sock' = Sockets
    BY <2>1, ManagerAssumption DEF Sockets
  <2>4. Opening' \subseteq Opening \cup {w} /\ Opening \cup {w} \subseteq Opening'
    BY <2>1, <2>3
  <2> QED
    BY <2>1, <2>2, <2>3, <2>4
<1>5. ASSUME NEW retryable \in BOOLEAN, SocketCloses(w, retryable) PROVE SocketInv'
  BY <1>5 DEF SocketCloses
<1> QED
  BY <1>1, <1>2, <1>3, <1>4, <1>5

LEMMA ClientInvStep == ClientInv /\ [ClientNext]_clientVars => ClientInv' /\ Driven
<1> SUFFICES ASSUME ClientInv, [ClientNext]_clientVars PROVE SocketInv' /\ Driven
  BY ManagerInvStep DEF ClientInv, Driven
<1>1. CASE ClientNext
  BY <1>1, BusDrives, SocketDrives, BusKeepsSockets, SocketKeepsSockets
  DEF ClientNext, ClientInv
<1>2. CASE UNCHANGED clientVars
  BY <1>2 DEF clientVars, managerVars, socketVars, ClientInv, SocketInv, Opening, Driven
<1> QED
  BY <1>1, <1>2

LEMMA ClientInvariance == ClientSpec => []ClientInv
<1>1. ClientInv /\ [ClientNext]_clientVars => ClientInv'
  BY ClientInvStep
<1> QED
  BY ClientInvInit, <1>1, PTL DEF ClientSpec

\* The bus and its sockets, with every order of opens, timeouts, refusals, late
\* closes and reconnects, are consumers that the manager is made for: each of
\* their steps is one of its methods, starts an attempt when none is current, or
\* settles one once.
THEOREM ClientDrivesManager == ClientSpec => ImplementsManager
<1>1. ClientInv /\ [ClientNext]_clientVars => [ManagerNext]_managerVars
  BY ClientInvStep DEF Driven
<1> QED
  BY ClientInvInit, ClientInvariance, <1>1, PTL DEF ClientSpec, ManagerSpec, ImplementsManager

\* Hence a client that says it is reconnecting has its timer armed or an attempt
\* under way, for any number of sockets, subscriptions and attempts.
THEOREM ClientNeverStuck == ClientSpec => []NeverStuck
BY ClientDrivesManager, ManagerNeverStuck DEF ImplementsManager
-----------------------------------------------------------------------------
(* The bus hears                                                           *)

\* The message of the bus's subscription was sent where an end will be heard of.
SentAndHeard == sentOn \in Sockets /\ Hears(sentOn, wsSubscription)

\* A subscription of the bus is waiting for a connect() that has not settled or
\* was sent on a socket that is open, and a bus whose manager is connected has a
\* subscription.
BusInv ==
    /\ subscriptions \subseteq Subscriptions /\ wsSubscription \in subscriptions \cup {None}
    /\ waits \in [Subscriptions -> Opening \cup {None}]
    /\ connectionPromise \in Opening \cup {None}
    /\ wsSubscription # None => waits[wsSubscription] # None \/ SentAndHeard
    /\ busStarted /\ cm.state = "connected" => wsSubscription # None

HearingInv == ClientInv /\ BusInv

\* An error, a close or a forced reconnect leaves no manager "connected".
LEMMA EndsConnection ==
  ASSUME NEW m \in Managers, NEW retryable \in BOOLEAN
  PROVE  /\ HandleError(m, retryable).state # "connected"
         /\ ForceReconnect(m).state # "connected"
         /\ HandleError(m, retryable) \in Managers
<1> DEFINE q == [m EXCEPT !.pinging = FALSE, !.pongTimeout = FALSE, !.state = "reconnecting"]
           f == [m EXCEPT !.reconnectAttempts = 0, !.backoffTimer = FALSE,
                          !.reconnectPromise = None]
           g == [f EXCEPT !.pinging = FALSE, !.pongTimeout = FALSE, !.state = "reconnecting"]
<1>1. ASSUME NEW n \in Managers, n.state = "reconnecting"
      PROVE  ScheduleReconnect(n) \in Managers /\ ScheduleReconnect(n).state # "connected"
  <2>1. n.reconnectAttempts \in 0..MaxAttempts /\ MaxAttempts \in Nat
    BY ManagerFields, ManagerAssumption
  <2>2. n.reconnectAttempts >= MaxAttempts \/ n.reconnectAttempts + 1 \in 0..MaxAttempts
    BY <2>1
  <2> QED
    BY <1>1, <2>2 DEF ScheduleReconnect, Managers, States
<1>2. q \in Managers /\ q.state = "reconnecting"
  BY DEF Managers, States
<1>3. g \in Managers /\ g.state = "reconnecting"
  BY NoAttempts DEF Managers, States
<1>4. StartReconnecting(m) = ScheduleReconnect(q) /\ ForceReconnect(m) = ScheduleReconnect(g)
  BY DEF StartReconnecting, ForceReconnect
<1> HIDE DEF q, f, g
<1>5. [m EXCEPT !.state = "disconnected"] \in Managers
      /\ [m EXCEPT !.state = "disconnected"].state # "connected"
  BY DEF Managers, States
<1> QED
  BY <1>1, <1>2, <1>3, <1>4, <1>5 DEF HandleError

\* The failure of an attempt makes no manager "connected".
LEMMA FailureConnectsNobody ==
  ASSUME NEW m \in Managers, NEW a
  PROVE  Settled(m, a, FALSE, TRUE).state = "connected" => m.state = "connected"
BY DEF Settled, AttemptFailed, ScheduleReconnect, Managers

\* After subscribing the bus waits, or has sent its message on the open socket.
LEMMA SubscribesHears ==
  ASSUME SocketInv, BusInv, NEW A, SubscribesActivity(A), UNCHANGED <<ws, vanished>>
  PROVE  /\ wsSubscription' \in Subscriptions /\ wsSubscription' \in subscriptions'
         /\ subscriptions' \subseteq Subscriptions
         /\ waits' \in [Subscriptions -> Opening' \cup {None}]
         /\ connectionPromise' \in Opening' \cup {None}
         /\ waits'[wsSubscription'] # None \/ SentAndHeard'
<1>1. FreshSub \in Subscriptions
  BY DEF SubscribesActivity, FreshSub, FreshSubs
<1>2. wsSubscription' = FreshSub /\ subscriptions' = subscriptions \cup {FreshSub}
  BY DEF SubscribesActivity
<1>3. None \notin Sockets
  BY ManagerAssumption DEF Sockets
<1>4. CASE WsOpen
  <2>1. /\ UNCHANGED <<waits, sock, attached, connectionPromise>> /\ sentOn' = ws
        /\ SendsSubscribe(ws, {FreshSub}, A)
    BY <1>4 DEF SubscribesActivity
  <2>2. ws \in Sockets /\ ws \in attached /\ sock[ws] = "open"
    BY <1>3, <1>4 DEF WsOpen, SocketInv
  <2>3. <<ws, FreshSub>> \in serverSubs' \/ ws \in vanished
    BY <2>1 DEF SendsSubscribe
  <2>4. SentAndHeard'
    BY <1>2, <2>1, <2>2, <2>3 DEF SentAndHeard, Hears
  <2>5. Opening' = Opening
    BY <2>1 DEF Opening
  <2> QED
    BY <1>1, <1>2, <2>1, <2>4, <2>5 DEF BusInv
<1>5. CASE ~WsOpen /\ connectionPromise # None
  <2>1. /\ waits' = [waits EXCEPT ![FreshSub] = connectionPromise]
        /\ UNCHANGED <<sock, attached, connectionPromise>>
    BY <1>5 DEF SubscribesActivity
  <2>2. Opening' = Opening
    BY <2>1 DEF Opening
  <2> QED
    BY <1>1, <1>2, <1>3, <1>5, <2>1, <2>2 DEF BusInv
<1>6. CASE ~WsOpen /\ connectionPromise = None
  <2>1. PICK w \in Sockets : OpensSocket(w) /\ waits' = [waits EXCEPT ![FreshSub] = w]
    BY <1>6 DEF SubscribesActivity
  <2>2. sock' = [sock EXCEPT ![w] = "connecting"] /\ connectionPromise' = w
    BY <2>1 DEF OpensSocket
  <2>3. Opening \subseteq Opening' /\ w \in Opening'
    BY <2>2 DEF Opening, SocketInv
  <2> QED
    BY <1>1, <1>2, <1>3, <2>1, <2>2, <2>3 DEF BusInv
<1> QED
  BY <1>4, <1>5, <1>6

LEMMA BusHears ==
  ASSUME HearingInv,
         \/ BusConnect \/ BusDisconnect \/ Heartbeat \/ PageVisible \/ Pong \/ NoPong \/ Stale
         \/ \E w \in Sockets, s \in Subscriptions : SubscriptionOpens(w, s)
  PROVE  BusInv'
<1>1. cm \in Managers /\ BusInv /\ SocketInv
  BY DEF HearingInv, ClientInv, ManagerInv, Coherent
<1>2. CASE BusConnect
  <2>1. UNCHANGED <<ws, vanished>>
    BY <1>2 DEF BusConnect
  <2>2. CASE wsSubscription = None
    <3>1. SubscribesActivity(answers)
      BY <1>2, <2>2 DEF BusConnect
    <3> QED
      BY <1>1, <2>1, <3>1, SubscribesHears, ClientAssumption DEF BusInv
  <2>3. CASE wsSubscription # None
    <3>1. UNCHANGED <<wsSubscription, subscriptions, waits, sentOn, sock, attached,
                      connectionPromise, serverSubs>>
      BY <1>2, <2>3 DEF BusConnect
    <3> QED
      BY <1>1, <2>1, <2>3, <3>1 DEF BusInv, SentAndHeard, Hears, Opening
  <2> QED
    BY <2>2, <2>3
<1>3. CASE BusDisconnect
  <2>1. /\ subscriptions' \subseteq subscriptions /\ wsSubscription' = None /\ ~busStarted'
        /\ UNCHANGED <<waits, sock, connectionPromise>>
    BY <1>3 DEF BusDisconnect, socketVars
  <2> QED
    BY <1>1, <2>1 DEF BusInv, Opening
<1>4. CASE Heartbeat \/ PageVisible \/ Pong \/ NoPong \/ Stale
  <2>1. UNCHANGED <<socketVars, busVars, farVars>>
    BY <1>4 DEF Heartbeat, PageVisible, Pong, NoPong, Stale
  <2>2. cm'.state = "connected" => cm.state = "connected"
    <3> DEFINE q == [cm EXCEPT !.pinging = FALSE, !.pongTimeout = FALSE]
    <3>1. q \in Managers
      BY <1>1 DEF Managers
    <3>2. ForceReconnect(q).state # "connected" /\ ForceReconnect(cm).state # "connected"
      BY <1>1, <3>1, EndsConnection
    <3>3. [cm EXCEPT !.pongTimeout = FALSE].state = cm.state
          /\ q.state = cm.state /\ [cm EXCEPT !.heartbeat = TRUE].state = cm.state
      BY <1>1 DEF Managers
    <3> HIDE DEF q
    <3>4. CASE Heartbeat \/ Pong
      BY <3>3, <3>4 DEF Heartbeat, Pong, RecordHeartbeat, ReceivePong, q
    <3>5. CASE PageVisible \/ Stale
      BY <3>2, <3>5 DEF PageVisible, Stale, BecameVisible, q
    <3>6. CASE NoPong
      BY <3>2, <3>3, <3>6 DEF NoPong, PongTimeoutFires, PongTimedOut, q
    <3> QED
      BY <1>4, <3>4, <3>5, <3>6
  <2> QED
    BY <1>1, <2>1, <2>2
    DEF BusInv, SentAndHeard, Hears, Opening, socketVars, busVars, farVars
<1>5. ASSUME NEW w \in Sockets, NEW s \in Subscriptions, SubscriptionOpens(w, s)
      PROVE  BusInv'
  <2> DEFINE left == answers \{<<w, s>>}
  <2>1. UNCHANGED <<ws, vanished, busStarted>>
    BY <1>5 DEF SubscriptionOpens
  <2>2. CASE Resubscribes(cm')
    <3>1. SubscribesActivity(left)
      BY <1>5, <2>2 DEF SubscriptionOpens
    <3> QED
      BY <1>1, <2>1, <3>1, SubscribesHears, ClientAssumption DEF BusInv
  <2>3. CASE ~Resubscribes(cm')
    <3>1. UNCHANGED <<wsSubscription, subscriptions, waits, sentOn, sock, attached,
                      connectionPromise, serverSubs>>
      BY <1>5, <2>3 DEF SubscriptionOpens
    <3> QED
      BY <1>1, <2>1, <2>3, <3>1 DEF BusInv, SentAndHeard, Hears, Opening, Resubscribes
  <2> QED
    BY <2>2, <2>3
<1> QED
  BY <1>2, <1>3, <1>4, <1>5

LEMMA SocketOpensHeard ==
  ASSUME HearingInv, NEW w \in Sockets, SocketOpens(w)
  PROVE  BusInv'
<1> DEFINE sent == {s \in Subscriptions : waits[s] = w}
<1>1. BusInv /\ SocketInv
  BY DEF HearingInv, ClientInv
<1>2. /\ connectionPromise' = None /\ UNCHANGED <<attached, vanished, busStarted>>
      /\ waits' = [s \in Subscriptions |-> IF waits[s] = w THEN None ELSE waits[s]]
      /\ sock[w] = "connecting" /\ sock' = [sock EXCEPT ![w] = "open"]
  BY DEF SocketOpens
<1>3. Opening' = Opening \ {w} /\ w \in attached /\ sock'[w] = "open"
  BY <1>1, <1>2 DEF Opening, SocketInv
<1>4. waits' \in [Subscriptions -> Opening' \cup {None}]
  BY <1>1, <1>2, <1>3 DEF BusInv
<1>5. CASE Resubscribes(cm')
  <2>1. /\ FreshSub \in Subscriptions /\ sentOn' = w
        /\ wsSubscription' = FreshSub /\ subscriptions' = subscriptions \cup {FreshSub}
        /\ SendsSubscribe(w, sent \cup {FreshSub}, answers)
    BY <1>5 DEF SocketOpens, FreshSub, FreshSubs
  <2>2. <<w, FreshSub>> \in serverSubs' \/ w \in vanished
    BY <2>1 DEF SendsSubscribe
  <2>3. SentAndHeard'
    BY <1>2, <1>3, <2>1, <2>2 DEF SentAndHeard, Hears
  <2> QED
    BY <1>1, <1>2, <1>4, <2>1, <2>3, ClientAssumption DEF BusInv
<1>6. CASE ~Resubscribes(cm')
  <2>1. /\ UNCHANGED <<wsSubscription, subscriptions>>
        /\ SendsSubscribe(w, sent, answers)
        /\ sentOn' = IF wsSubscription \in sent THEN w ELSE sentOn
    BY <1>6 DEF SocketOpens
  <2>2. serverSubs \subseteq serverSubs'
        /\ \A s \in sent : <<w, s>> \in serverSubs' \/ w \in vanished
    BY <2>1 DEF SendsSubscribe
  <2>3. CASE wsSubscription \in sent
    <3>1. SentAndHeard'
      BY <1>2, <1>3, <2>1, <2>2, <2>3 DEF SentAndHeard, Hears
    <3> QED
      BY <1>1, <1>2, <1>4, <1>6, <2>1, <3>1 DEF BusInv, Resubscribes
  <2>4. CASE wsSubscription \notin sent
    <3>1. SentAndHeard => SentAndHeard'
      BY <1>1, <1>2, <2>1, <2>2, <2>4 DEF SentAndHeard, Hears, SocketInv
    <3>2. wsSubscription # None => waits'[wsSubscription] = waits[wsSubscription]
      BY <1>1, <1>2, <2>4 DEF BusInv
    <3> QED
      BY <1>1, <1>2, <1>4, <1>6, <2>1, <3>1, <3>2 DEF BusInv, Resubscribes
  <2> QED
    BY <2>3, <2>4
<1> QED
  BY <1>5, <1>6

LEMMA SocketsHeard ==
  ASSUME HearingInv, NEW w \in Sockets,
         \/ SocketTimesOut(w) \/ SocketVanishes(w) \/ Reconnects(w)
         \/ \E retryable \in BOOLEAN : SocketCloses(w, retryable)
  PROVE  BusInv'
<1>1. cm \in Managers /\ BusInv /\ SocketInv
  BY DEF HearingInv, ClientInv, ManagerInv, Coherent
<1>2. CASE SocketTimesOut(w)
  <2> DEFINE hit == {s \in Subscriptions : waits[s] = w}
  <2>1. /\ UNCHANGED <<busStarted, serverSubs, vanished>> /\ connectionPromise' = None
        /\ waits' = [s \in Subscriptions |-> IF s \in hit THEN None ELSE waits[s]]
        /\ subscriptions' = subscriptions \ hit
        /\ cm' = Rejected(w, hit)
        /\ IF hit = {} THEN UNCHANGED <<wsSubscription, sentOn>>
                       ELSE wsSubscription' = None /\ sentOn' = None
        /\ sock[w] # "open" /\ attached \ {w} \subseteq attached'
        /\ sock'[w] \in {"unused", "aborted"}
        /\ \A v \in Sockets \ {w} : sock'[v] = sock[v]
    BY <1>1, <1>2 DEF SocketTimesOut, SocketInv, farVars
  <2>2. Opening' = Opening \ {w}
    BY <2>1 DEF Opening
  <2>3. waits' \in [Subscriptions -> Opening' \cup {None}]
    BY <1>1, <2>1, <2>2 DEF BusInv
  <2>4. CASE hit = {}
    <3>1. cm'.state = "connected" => cm.state = "connected"
      BY <1>1, <2>1, <2>4, FailureConnectsNobody DEF Rejected
    <3>2. UNCHANGED <<wsSubscription, subscriptions>>
          /\ \A s \in Subscriptions : waits'[s] = waits[s]
      BY <2>1, <2>4
    <3>3. SentAndHeard => SentAndHeard'
      BY <2>1, <2>4 DEF SentAndHeard, Hears
    <3> QED
      BY <1>1, <2>1, <2>3, <3>1, <3>2, <3>3 DEF BusInv
  <2>5. CASE hit # {}
    <3>1. cm'.state # "connected"
      BY <1>1, <2>1, <2>5, EndsConnection, FailureConnectsNobody DEF Rejected
    <3> QED
      BY <1>1, <2>1, <2>3, <2>5, <3>1 DEF BusInv
  <2> QED
    BY <2>4, <2>5
<1>3. CASE SocketVanishes(w)
  <2>1. UNCHANGED <<cm, sock, attached, connectionPromise, busVars, serverSubs>>
        /\ vanished \subseteq vanished'
    BY <1>3 DEF SocketVanishes, managerVars, socketVars
  <2> QED
    BY <1>1, <2>1 DEF BusInv, SentAndHeard, Hears, Opening, busVars
<1>4. CASE Reconnects(w)
  <2>1. cm.state = "reconnecting"
    BY <1>4 DEF Reconnects, HearingInv, ClientInv, ManagerInv, Coherent
  <2>2. cm'.state # "connected"
    BY <1>1, <1>4, <2>1 DEF Reconnects, Managers
  <2>3. /\ subscriptions' = {} /\ wsSubscription' = None /\ connectionPromise' = w
        /\ waits' = waits
        /\ sock' = [v \in Sockets |-> IF v = w THEN "connecting"
                                      ELSE IF v = ws THEN "unused" ELSE sock[v]]
    BY <1>4 DEF Reconnects, DropsSubscriptions
  <2>4. Opening \subseteq Opening' /\ w \in Opening'
    BY <1>1, <2>3, ManagerAssumption DEF Opening, SocketInv, Sockets
  <2> QED
    BY <1>1, <2>2, <2>3, <2>4 DEF BusInv
<1>5. ASSUME NEW retryable \in BOOLEAN, SocketCloses(w, retryable) PROVE BusInv'
  <2>1. /\ UNCHANGED <<connectionPromise, waits, busStarted>>
        /\ sock' = [sock EXCEPT ![w] = IF @ = "connecting" THEN "refused" ELSE "unused"]
        /\ sock[w] \in {"connecting", "open", "aborted"}
    BY <1>5 DEF SocketCloses
  <2>2. Opening' = Opening
    BY <1>1, <2>1 DEF Opening, SocketInv
  <2>3. CASE w \in attached
    <3>1. cm' = NotifiedClosed(cm, retryable) /\ subscriptions' = {} /\ wsSubscription' = None
      BY <1>5, <2>3 DEF SocketCloses, DropsSubscriptions
    <3>2. CASE subscriptions = {}
      BY <1>1, <2>1, <2>2, <3>1, <3>2 DEF BusInv, NotifiedClosed
    <3>3. CASE subscriptions # {}
      <4>1. cm'.state # "connected"
        BY <1>1, <3>1, <3>3, EndsConnection DEF NotifiedClosed
      <4> QED
        BY <1>1, <2>1, <2>2, <3>1, <4>1 DEF BusInv
    <3> QED
      BY <3>2, <3>3
  <2>4. CASE w \notin attached
    <3>1. UNCHANGED <<cm, subscriptions, wsSubscription, sentOn>>
      BY <1>5, <2>4 DEF SocketCloses
    <3>2. /\ \A v \in attached : v \in attached' /\ (v \in Sockets => sock'[v] = sock[v])
          /\ \A v \in attached, s \in Subscriptions :
                <<v, s>> \in serverSubs => <<v, s>> \in serverSubs'
          /\ \A v \in attached : v \in vanished => v \in vanished'
      BY <1>1, <1>5, <2>1, <2>4 DEF SocketCloses, ServerDrops, SocketInv
    <3>3. wsSubscription # None /\ SentAndHeard => SentAndHeard'
      BY <1>1, <3>1, <3>2 DEF SentAndHeard, Hears, BusInv
    <3> QED
      BY <1>1, <2>1, <2>2, <3>1, <3>3 DEF BusInv
  <2> QED
    BY <2>3, <2>4
<1> QED
  BY <1>2, <1>3, <1>4, <1>5

LEMMA HearingInvStep == HearingInv /\ [ClientNext]_clientVars => HearingInv'
<1> SUFFICES ASSUME HearingInv, [ClientNext]_clientVars PROVE BusInv'
  BY ClientInvStep DEF HearingInv
<1>1. CASE ClientNext
  BY <1>1, BusHears, SocketOpensHeard, SocketsHeard DEF ClientNext
<1>2. CASE UNCHANGED clientVars
  BY <1>2 DEF clientVars, managerVars, socketVars, busVars, farVars, HearingInv, BusInv,
              SentAndHeard, Hears, Opening
<1> QED
  BY <1>1, <1>2

LEMMA HearingInvInit == ClientInit => HearingInv
<1>1. ClientInit => BusInv
  BY DEF ClientInit, BusInv, ManagerInit, NewManager
<1> QED
  BY <1>1, ClientInvInit DEF HearingInv

\* Whatever the order of opens, timeouts, refusals, late closes, reconnects and
\* calls of the page, a bus whose manager says "connected" has a subscription whose
\* own message waits for a connect() that has not settled or was sent on a socket
\* that is open and listened to and has it at the server, or is dead unnoticed
\* (activityBus.ts, RelayProtocol.ts), for any number of sockets and attempts.
THEOREM ClientNeverDeaf == ClientSpec => []NeverDeaf
<1>1. HearingInv => NeverDeaf
  <2>1. None \notin Sockets
    BY ManagerAssumption DEF Sockets
  <2> QED
    BY <2>1, ClientAssumption DEF HearingInv, BusInv, NeverDeaf, SentAndHeard
<1> QED
  BY HearingInvInit, HearingInvStep, <1>1, PTL DEF ClientSpec
=============================================================================
