-------------------------- MODULE ClientConnection --------------------------
(***************************************************************************)
(* The local web client's connection stack: ActivityBus (lib/activityBus.  *)
(* ts) subscribes to the activity stream through RelayProtocol over        *)
(* WebSocketConnection, and leaves reconnecting to ConnectionManager       *)
(* (packages/client/src/lib/connection).                                   *)
(*                                                                         *)
(* A WebSocket event runs its handler and the promise continuations it     *)
(* releases before the next event, so it is one action.  A call of         *)
(* reconnectFn opens a socket of its own: its promise is named by it.      *)
(*                                                                         *)
(* Abstracted: requests, uploads and the streams of sessions, which go the *)
(* way of the activity stream; the server answers a subscription to the    *)
(* activity stream, which it never refuses, and handles an unsubscribe as  *)
(* soon as it is sent.                                                     *)
(***************************************************************************)
EXTENDS ConnectionManager

CONSTANT Subscriptions  \* ids of subscriptions

ASSUME ClientAssumption == None \notin Subscriptions

Sockets == Attempts

VARIABLES
    \* WebSocketConnection
    ws,                 \* this.ws
    connectionPromise,  \* the socket whose connect() is under way
    sock,               \* where each socket is in its life
    attached,           \* sockets whose handlers are attached
    \* RelayProtocol and ActivityBus
    subscriptions,      \* this.subscriptions: those with handlers
    wsSubscription,
    waits,              \* the connect() a subscribe message waits for
    sentOn,             \* history: the socket that the subscribe message of
                        \* wsSubscription was sent on, None while it waits
    busStarted,         \* _connectionManagerStarted
    connected,          \* _connected
    \* the server and the network
    serverSubs,         \* <<socket, subscription>> the server has
    answers,            \* those whose "connected" event is on its way
    vanished            \* sockets that are dead and nobody noticed

socketVars == <<ws, connectionPromise, sock, attached>>
busVars    == <<subscriptions, wsSubscription, waits, sentOn, busStarted, connected>>
farVars    == <<serverSubs, answers, vanished>>
clientVars == <<managerVars, socketVars, busVars, farVars>>

ClientInit ==
    /\ ManagerInit
    /\ ws = None /\ connectionPromise = None
    /\ sock = [w \in Sockets |-> "unused"] /\ attached = {}
    /\ subscriptions = {} /\ wsSubscription = None
    /\ waits = [s \in Subscriptions |-> None] /\ sentOn = None
    /\ busStarted = FALSE /\ connected = FALSE
    /\ serverSubs = {} /\ answers = {} /\ vanished = {}

Live(w) == sock[w] = "open" /\ w \notin vanished

\* this.ws can be sent on.
WsOpen == \E w \in Sockets : w = ws /\ sock[w] = "open"

-----------------------------------------------------------------------------
(* Steps the handlers share                                                *)

\* Subscription ids and sockets that nobody uses any more; which of them stands
\* for the new one makes no difference.
FreshSubs ==
    {s \in Subscriptions \ subscriptions :
        waits[s] = None /\ \A w \in Sockets : <<w, s>> \notin serverSubs}

FreshSub == CHOOSE s \in FreshSubs : TRUE

NewSocket(w) == sock[w] = "unused" /\ w = CHOOSE v \in Sockets : sock[v] = "unused"

\* A new socket is opened by ensureConnected.
OpensSocket(w) ==
    /\ NewSocket(w)
    /\ sock' = [sock EXCEPT ![w] = "connecting"]
    /\ attached' = attached \cup {w}
    /\ connectionPromise' = w

\* Subscribe messages of S are sent on w, while the answers in A are under way.
SendsSubscribe(w, S, A) ==
    LET got == IF w \in vanished THEN {} ELSE {<<w, s>> : s \in S} IN
    serverSubs' = serverSubs \cup got /\ answers' = A \cup got

\* subscribeActivity: the subscription waits for the connection, which is opened
\* if there is none.
SubscribesActivity(A) ==
    /\ FreshSubs # {}
    /\ wsSubscription' = FreshSub
    /\ subscriptions' = subscriptions \cup {FreshSub}
    /\ IF WsOpen
       THEN /\ SendsSubscribe(ws, {FreshSub}, A)
            /\ sentOn' = ws
            /\ UNCHANGED <<waits, sock, attached, connectionPromise>>
       ELSE /\ serverSubs' = serverSubs /\ answers' = A /\ sentOn' = None
            /\ IF connectionPromise # None
               THEN /\ waits' = [waits EXCEPT ![FreshSub] = connectionPromise]
                    /\ UNCHANGED <<sock, attached, connectionPromise>>
               ELSE \E w \in Sockets :
                       OpensSocket(w) /\ waits' = [waits EXCEPT ![FreshSub] = w]

\* broken: the subscriptions of a connection outlive it
KeepsSubscriptions == UNCHANGED <<subscriptions, wsSubscription, sentOn, connected>>

\* notifySubscriptionsClosed as the bus sees it
DropsSubscriptions ==
    /\ subscriptions' = {} /\ wsSubscription' = None /\ sentOn' = None
    /\ connected' = (connected /\ subscriptions = {})

\* notifySubscriptionsClosed as the manager sees it: onError, then onClose
NotifiedClosed(m, retryable) ==
    IF subscriptions = {} THEN m ELSE HandleError(HandleError(m, retryable), retryable)

\* The server forgets what it had on socket w.
ServerDrops(w) ==
    /\ serverSubs' = {p \in serverSubs : p[1] # w}
    /\ answers' = {p \in answers : p[1] # w}

-----------------------------------------------------------------------------
(* ActivityBus                                                             *)

\* connect(): the manager is started and the activity stream subscribed to.
BusConnect ==
    /\ ~busStarted
    /\ busStarted' = TRUE
    /\ cm' = Start(cm)
    /\ IF wsSubscription = None
       THEN SubscribesActivity(answers)
       ELSE UNCHANGED <<wsSubscription, subscriptions, waits, sentOn, sock, attached,
                        connectionPromise, serverSubs, answers>>
    /\ UNCHANGED <<inFlight, ws, connected, vanished>>

\* disconnect(): the subscription is closed and the manager stopped; the socket
\* stays as it is.
BusDisconnect ==
    /\ busStarted
    /\ busStarted' = FALSE /\ connected' = FALSE
    /\ wsSubscription' = None /\ subscriptions' = subscriptions \ {wsSubscription}
    /\ sentOn' = None
    /\ cm' = Stop(cm)
    /\ IF WsOpen
       THEN /\ serverSubs' = serverSubs \ {<<ws, wsSubscription>>}
            /\ answers' = answers \ {<<ws, wsSubscription>>}
       ELSE UNCHANGED <<serverSubs, answers>>
    /\ UNCHANGED <<inFlight, socketVars, waits, vanished>>

\* The manager changes to m: the bus subscribes anew when it becomes connected.
Resubscribes(m) ==
    busStarted /\ cm.state # "connected" /\ m.state = "connected" /\ wsSubscription = None

\* The "connected" event of a subscription: onOpen, if it has handlers.
SubscriptionOpens(w, s) ==
    LET left == answers \ {<<w, s>>}
        m    == IF s \in subscriptions THEN MarkConnected(cm) ELSE cm
    IN
    /\ <<w, s>> \in answers /\ Live(w) /\ w \in attached
    /\ cm' = m
    /\ connected' = (connected \/ s \in subscriptions)
    /\ IF Resubscribes(m)
       THEN SubscribesActivity(left)
       ELSE /\ answers' = left
            /\ UNCHANGED <<wsSubscription, subscriptions, waits, sentOn, sock,
                           attached, connectionPromise, serverSubs>>
    /\ UNCHANGED <<inFlight, ws, busStarted, vanished>>

Heartbeat ==
    /\ \E w \in attached, s \in subscriptions :
          Live(w) /\ <<w, s>> \in serverSubs \ answers
    /\ ~cm.heartbeat /\ cm' = RecordHeartbeat(cm)
    /\ UNCHANGED <<inFlight, socketVars, busVars, farVars>>

-----------------------------------------------------------------------------
(* Sockets                                                                 *)

\* onopen of w, and the continuations of those that wait for it: subscribe
\* messages are sent, and the attempt succeeds if it is the current one; the bus
\* then subscribes anew if it has no subscription.
SocketOpens(w) ==
    LET m    == Settled(cm, w, TRUE, TRUE)
        sent == {s \in Subscriptions : waits[s] = w}
    IN
    /\ sock[w] = "connecting"
    /\ sock' = [sock EXCEPT ![w] = "open"]
    /\ ws' = w
    /\ connectionPromise' = None
    /\ waits' = [s \in Subscriptions |-> IF waits[s] = w THEN None ELSE waits[s]]
    /\ cm' = m /\ inFlight' = inFlight \ {w}
    /\ IF Resubscribes(m)
       THEN /\ FreshSubs # {}
            /\ wsSubscription' = FreshSub /\ subscriptions' = subscriptions \cup {FreshSub}
            /\ sentOn' = w
            /\ SendsSubscribe(w, sent \cup {FreshSub}, answers)
       ELSE /\ sentOn' = IF wsSubscription \in sent THEN w ELSE sentOn
            /\ SendsSubscribe(w, sent, answers)
            /\ UNCHANGED <<wsSubscription, subscriptions>>
    /\ UNCHANGED <<attached, busStarted, connected, vanished>>

\* broken: a late rejection counts as a failed attempt of its own
RejectedAnyway(w, hit) == AttemptFailed(cm, TRUE)

\* The rejection of connect() as the manager sees it: the subscriptions that
\* waited report it before reconnectFn's promise settles.
Rejected(w, hit) ==
    Settled(IF hit = {} THEN cm ELSE HandleError(cm, TRUE), w, FALSE, TRUE)

\* The timeout of connect(), also when the connection was refused long ago: the
\* promise is rejected, and so is everybody who waits for it.
SocketTimesOut(w) ==
    LET hit == {s \in Subscriptions : waits[s] = w} IN
    /\ sock[w] \in {"connecting", "refused"}
    /\ sock' = [sock EXCEPT ![w] = IF @ = "refused" THEN "unused" ELSE "aborted"]
    /\ attached' = IF sock[w] = "refused" THEN attached \ {w} ELSE attached
    /\ connectionPromise' = None
    /\ waits' = [s \in Subscriptions |-> IF s \in hit THEN None ELSE waits[s]]
    /\ subscriptions' = subscriptions \ hit
    /\ cm' = Rejected(w, hit)
    /\ inFlight' = inFlight \ {w}
    /\ IF hit = {} THEN UNCHANGED <<wsSubscription, sentOn>>
                   ELSE wsSubscription' = None /\ sentOn' = None
    /\ connected' = (connected /\ hit = {})
    /\ UNCHANGED <<ws, busStarted, farVars>>

\* onclose of w: whichever socket it is, the connection has none from now on
\* and every subscription is told.
SocketCloses(w, retryable) ==
    /\ sock[w] \in {"connecting", "open", "aborted"}
    /\ sock[w] # "open" => retryable
    /\ sock' = [sock EXCEPT ![w] = IF @ = "connecting" THEN "refused" ELSE "unused"]
    /\ attached' = IF sock[w] = "connecting" THEN attached ELSE attached \ {w}
    /\ vanished' = vanished \ {w}
    /\ IF w \in attached
       THEN /\ ws' = None
            /\ cm' = NotifiedClosed(cm, retryable)
            /\ DropsSubscriptions
       ELSE UNCHANGED <<ws, cm, subscriptions, wsSubscription, sentOn, connected>>
    /\ ServerDrops(w)
    /\ UNCHANGED <<inFlight, connectionPromise, waits, busStarted>>

\* The network of w is gone, and no packet says so.
SocketVanishes(w) ==
    /\ sock[w] = "open" /\ w \notin vanished
    /\ vanished' = vanished \cup {w}
    /\ UNCHANGED <<managerVars, socketVars, busVars, serverSubs, answers>>

-----------------------------------------------------------------------------
(* Timers and the page                                                     *)

\* The backoff timer fires, and reconnect() tears down the connection it knows
\* and opens another one.
Reconnects(w) ==
    LET m == [cm EXCEPT !.backoffTimer = FALSE] IN
    /\ cm.backoffTimer /\ CallsReconnect(m)
    /\ NewSocket(w)
    /\ cm' = [m EXCEPT !.reconnectPromise = w]
    /\ inFlight' = inFlight \cup {w}
    /\ DropsSubscriptions
    /\ sock' = [v \in Sockets |-> IF v = w THEN "connecting"
                                  ELSE IF v = ws THEN "unused" ELSE sock[v]]
    /\ attached' = (attached \ {ws}) \cup {w}
    /\ ws' = None /\ connectionPromise' = w
    /\ ServerDrops(ws) /\ vanished' = vanished \ {ws}
    /\ UNCHANGED <<waits, busStarted>>

\* handleBecameVisible: a ping can be sent on an open socket only.
PageVisible ==
    /\ cm.started
    /\ cm' = BecameVisible(cm, WsOpen)
    /\ cm' # cm
    /\ UNCHANGED <<inFlight, socketVars, busVars, farVars>>

Pong ==
    /\ cm.pinging /\ \E w \in attached : Live(w)
    /\ cm' = ReceivePong(cm)
    /\ UNCHANGED <<inFlight, socketVars, busVars, farVars>>

NoPong == PongTimeoutFires /\ UNCHANGED <<socketVars, busVars, farVars>>

\* checkStale: no event for long, which a slow server causes as well
Stale ==
    /\ cm.started /\ cm.state = "connected" /\ cm.heartbeat
    /\ cm' = ForceReconnect(cm)
    /\ UNCHANGED <<inFlight, socketVars, busVars, farVars>>

-----------------------------------------------------------------------------

ClientNext ==
    \/ BusConnect \/ BusDisconnect \/ Heartbeat \/ PageVisible \/ Pong \/ NoPong \/ Stale
    \/ \E w \in Sockets, s \in Subscriptions : SubscriptionOpens(w, s)
    \/ \E w \in Sockets :
          \/ SocketOpens(w) \/ SocketTimesOut(w) \/ SocketVanishes(w) \/ Reconnects(w)
          \/ \E retryable \in BOOLEAN : SocketCloses(w, retryable)

ClientSpec == ClientInit /\ [][ClientNext]_clientVars

\* The server sends the bus's events on a socket that is alive.
Streaming ==
    \E w \in attached : Live(w) /\ <<w, wsSubscription>> \in serverSubs

\* Timers fire, sockets that connect open or time out, those that were aborted
\* close, and a network that lets sockets open does not break every one of them
\* before the server's first answer.
ClientFairness ==
    /\ \A w \in Sockets :
          /\ WF_clientVars(SocketOpens(w) \/ SocketTimesOut(w))
          /\ WF_clientVars(sock[w] = "aborted" /\ SocketCloses(w, TRUE))
          /\ WF_clientVars(Reconnects(w))
    /\ SF_clientVars(\E w \in Sockets, s \in Subscriptions :
                        s = wsSubscription /\ SubscriptionOpens(w, s))
    /\ WF_clientVars(NoPong)
    /\ WF_clientVars(~Streaming /\ Stale)

FairClientSpec == ClientSpec /\ ClientFairness

-----------------------------------------------------------------------------
(* Properties                                                              *)

\* Types: every variable stays in its set.
ClientTypeOK ==
    /\ ManagerTypeOK
    /\ ws \in Sockets \cup {None} /\ connectionPromise \in Sockets \cup {None}
    /\ sock \in [Sockets -> {"unused", "connecting", "open", "refused", "aborted"}]
    /\ attached \subseteq Sockets /\ vanished \subseteq Sockets
    /\ subscriptions \subseteq Subscriptions /\ wsSubscription \in subscriptions \cup {None}
    /\ waits \in [Subscriptions -> Sockets \cup {None}]
    /\ sentOn \in Sockets \cup {None}
    /\ busStarted \in BOOLEAN /\ connected \in BOOLEAN
    /\ serverSubs \subseteq Sockets \X Subscriptions /\ answers \subseteq serverSubs

\* Whatever sockets, timers and the page do, the bus and its sockets use the
\* manager only as its methods allow: an attempt is started only when none is
\* current, each settles once, and nothing else moves the manager's fields.
ImplementsManager == ManagerSpec

\* Sockets whose connect() has not settled
Opening == {w \in Sockets : sock[w] \in {"connecting", "refused"}}

\* The subscribe message of s went out on w, which is still open and whose close
\* event will be heard; the server has the subscription, or w is dead unnoticed.
Hears(w, s) ==
    /\ w \in attached /\ sock[w] = "open"
    /\ <<w, s>> \in serverSubs \/ w \in vanished

\* The bus is never deaf: while the manager says "connected", the bus has a
\* subscription, and its very subscribe message waits for a connect() that has
\* yet to settle or was sent on a socket that is still open and listened to,
\* although another socket may have become the connection's meanwhile.
NeverDeaf ==
    busStarted /\ cm.state = "connected" =>
        /\ wsSubscription # None
        /\ waits[wsSubscription] \in Opening \/ (sentOn # None /\ Hears(sentOn, wsSubscription))

\* No more sockets for a reconnect: a bound of the instance.
OutOfSockets == cm.backoffTimer /\ \A w \in Sockets : sock[w] # "unused"

\* A socket that dies before the first heartbeat is noticed by nobody.
DiedUnheard == ~cm.heartbeat /\ \E w \in vanished : sock[w] = "open"

\* A bus that stays started gets its stream, after any refused, slow, broken or
\* dead connection, unless the manager has given up or the instance has no
\* socket left.
StreamComes ==
    busStarted ~> \/ connected /\ Streaming
                  \/ ~busStarted \/ cm.state = "disconnected" \/ OutOfSockets \/ DiedUnheard
=============================================================================
