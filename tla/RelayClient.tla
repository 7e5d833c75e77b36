---------------------------- MODULE RelayClient ----------------------------
(***************************************************************************)
(* The relay client of a server: it keeps one WebSocket waiting at the     *)
(* relay, hands it off when a phone claims it, and opens the next one      *)
(* (packages/server/src/services/RelayClientService.ts).                   *)
(*                                                                         *)
(* Every handler is synchronous, so one event is one action.  Handlers     *)
(* stay attached to a socket that the client has closed or replaced, until *)
(* it is handed off: its late messages and its close event still arrive.   *)
(*                                                                         *)
(* What the relay sends, and when sockets open and close, is left open     *)
(* here; RemoteAccess composes the client with the relay.                  *)
(*                                                                         *)
(* Abstracted: the backoff delay; a relay URL that does not parse; a       *)
(* rejection for another reason than the username, which no relay sends.   *)
(***************************************************************************)
EXTENDS FiniteSets

CONSTANTS
    Sockets,    \* the WebSockets the client opens, each once
    Usernames,
    None        \* no socket, no username

VARIABLES
    enabled,
    config,         \* config.username, None before the first start
    status,
    connectingWs,
    waitingWs,
    reconnectTimer,
    pinged,         \* the socket of pingInterval
    pongTimeout,    \* the pong timeout runs
    ws,             \* where each socket is in its life, as the client sees it
    asked,          \* the username each socket asked for
    answer,         \* what the relay answered on it
    handed          \* sockets handed to onRelayConnection

slotVars  == <<connectingWs, waitingWs>>
keepVars  == <<pinged, pongTimeout>>
vars      == <<enabled, config, status, slotVars, reconnectTimer, keepVars, ws,
               asked, answer, handed>>

\* "closing": close() was called; messages still arrive
Lives    == {"unused", "connecting", "open", "closing", "closed"}
Statuses == {"disconnected", "connecting", "registering", "waiting", "rejected"}
Replies  == {"registered", "rejected", "data"}
Answers  == {"none", "registered", "rejected"}

Init ==
    /\ enabled = FALSE /\ config = None /\ status = "disconnected"
    /\ connectingWs = None /\ waitingWs = None
    /\ reconnectTimer = FALSE
    /\ pinged = None /\ pongTimeout = FALSE
    /\ ws = [s \in Sockets |-> "unused"]
    /\ asked = [s \in Sockets |-> None] /\ answer = [s \in Sockets |-> "none"]
    /\ handed = {}

-----------------------------------------------------------------------------
(* Steps the handlers share                                                *)

\* The sockets once close() was called on those of S.
Closed(S) ==
    [s \in Sockets |-> IF s \in S /\ ws[s] \in {"connecting", "open"} THEN "closing"
                       ELSE ws[s]]

\* connect(), with the sockets as in w and the client enabled as in e.  Which
\* unused socket stands for the new one makes no difference.
Connect(e, w) ==
    LET s == CHOOSE t \in Sockets : w[t] = "unused" IN
    IF e
    THEN /\ \E t \in Sockets : w[t] = "unused"
         /\ ws' = [w EXCEPT ![s] = "connecting"]
         /\ connectingWs' = s
         /\ status' = "connecting"
    ELSE ws' = w /\ UNCHANGED <<connectingWs, status>>

\* broken: gives up
ScheduleNothing == UNCHANGED <<reconnectTimer, status>>

ScheduleReconnect ==
    IF enabled
    THEN reconnectTimer' = TRUE /\ status' = "disconnected"
    ELSE UNCHANGED <<reconnectTimer, status>>

\* broken: keeps the interval
KeepRunning == UNCHANGED pinged /\ pongTimeout' = FALSE

StopKeepalive == pinged' = None /\ pongTimeout' = FALSE

\* close() of the waiting socket, and a new start
HandleKeepaliveTimeout ==
    /\ StopKeepalive
    /\ ws' = Closed({waitingWs})
    /\ waitingWs' = None
    /\ ScheduleReconnect
    /\ UNCHANGED <<enabled, config, connectingWs, asked, answer, handed>>

-----------------------------------------------------------------------------
(* Commands                                                                *)

\* start(), updateUsername(), updateRelayUrl()
Start(u) ==
    /\ enabled' = TRUE /\ config' = u
    /\ reconnectTimer' = FALSE
    /\ StopKeepalive
    /\ waitingWs' = None
    /\ Connect(TRUE, Closed({connectingWs, waitingWs}))
    /\ UNCHANGED <<asked, answer, handed>>

Stop ==
    /\ enabled' = FALSE
    /\ reconnectTimer' = FALSE
    /\ StopKeepalive
    /\ ws' = Closed({connectingWs, waitingWs})
    /\ connectingWs' = None /\ waitingWs' = None
    /\ status' = "disconnected"
    /\ UNCHANGED <<config, asked, answer, handed>>

-----------------------------------------------------------------------------
(* Events of a socket                                                      *)

\* broken: registers the first socket only
HandleOpenOnce(s) ==
    /\ ws[s] = "connecting"
    /\ ws' = [ws EXCEPT ![s] = "open"]
    /\ asked' = IF \A t \in Sockets : asked[t] = None THEN [asked EXCEPT ![s] = config]
                ELSE asked
    /\ status' = "registering"
    /\ UNCHANGED <<enabled, config, slotVars, reconnectTimer, keepVars, answer, handed>>

\* handleOpen: server_register is sent for the username of the moment.
HandleOpen(s) ==
    /\ ws[s] = "connecting"
    /\ ws' = [ws EXCEPT ![s] = "open"]
    /\ asked' = [asked EXCEPT ![s] = config]
    /\ status' = "registering"
    /\ UNCHANGED <<enabled, config, slotVars, reconnectTimer, keepVars, answer, handed>>

Receives(s) == ws[s] \in {"open", "closing"} /\ s \notin handed

\* The relay answers a registration once.
Answered(s, reply) ==
    /\ Receives(s) /\ answer[s] = "none"
    /\ answer' = [answer EXCEPT ![s] = reply]

\* server_registered: whatever socket it comes on is the waiting one now.
HandleRegistered(s) ==
    /\ Answered(s, "registered")
    /\ connectingWs' = None /\ waitingWs' = s
    /\ pinged' = s /\ pongTimeout' = FALSE
    /\ status' = "waiting"
    /\ UNCHANGED <<enabled, config, reconnectTimer, ws, asked, handed>>

\* server_rejected: the username is taken, and the client is disabled.
HandleRejection(s) ==
    /\ Answered(s, "rejected")
    /\ ws' = Closed({s})
    /\ enabled' = FALSE
    /\ status' = "rejected"
    /\ UNCHANGED <<config, slotVars, reconnectTimer, keepVars, asked, handed>>

\* The first data of a phone, which the relay forwards on registered sockets
\* only, claims the socket; a new one is opened.
HandleClaimed(s) ==
    /\ Receives(s) /\ answer[s] = "registered"
    /\ StopKeepalive
    /\ waitingWs' = None
    /\ handed' = handed \cup {s}
    /\ Connect(enabled, ws)
    /\ UNCHANGED <<enabled, config, reconnectTimer, asked, answer>>

HandleMessage(s, reply) ==
    \/ reply = "registered" /\ HandleRegistered(s)
    \/ reply = "rejected" /\ HandleRejection(s)
    \/ reply = "data" /\ HandleClaimed(s)

HandleClose(s) ==
    /\ ws[s] \in {"connecting", "open", "closing"}
    /\ ws' = [ws EXCEPT ![s] = "closed"]
    /\ \/ /\ s = connectingWs /\ s \notin handed
          /\ connectingWs' = None
          /\ ScheduleReconnect
          /\ UNCHANGED <<waitingWs, keepVars>>
       \/ /\ s = waitingWs /\ s # connectingWs /\ s \notin handed
          /\ StopKeepalive
          /\ waitingWs' = None
          /\ ScheduleReconnect
          /\ UNCHANGED connectingWs
       \/ /\ s \notin {connectingWs, waitingWs} \/ s \in handed
          /\ UNCHANGED <<slotVars, keepVars, reconnectTimer, status>>
    /\ UNCHANGED <<enabled, config, asked, answer, handed>>

-----------------------------------------------------------------------------
(* Timers                                                                  *)

ReconnectTimerFires ==
    /\ reconnectTimer
    /\ reconnectTimer' = FALSE
    /\ Connect(enabled, ws)
    /\ UNCHANGED <<enabled, config, waitingWs, keepVars, asked, answer, handed>>

\* A tick of pingInterval
SendPing ==
    /\ pinged # None
    /\ pongTimeout' = TRUE
    /\ UNCHANGED <<enabled, config, status, slotVars, reconnectTimer, pinged, ws,
                   asked, answer, handed>>

\* A tick that finds the clock has drifted: the computer was asleep.
ClockDrifted == pinged # None /\ HandleKeepaliveTimeout

HandlePong(s) ==
    /\ Receives(s) /\ s = waitingWs /\ pongTimeout
    /\ pongTimeout' = FALSE
    /\ UNCHANGED <<enabled, config, status, slotVars, reconnectTimer, pinged, ws,
                   asked, answer, handed>>

PongTimeoutFires == pongTimeout /\ HandleKeepaliveTimeout

-----------------------------------------------------------------------------

Next ==
    \/ \E u \in Usernames : Start(u)
    \/ Stop
    \/ \E s \in Sockets : HandleOpen(s) \/ HandleClose(s) \/ HandlePong(s)
    \/ \E s \in Sockets, reply \in Replies : HandleMessage(s, reply)
    \/ ReconnectTimerFires \/ SendPing \/ ClockDrifted \/ PongTimeoutFires

Spec == Init /\ [][Next]_vars

-----------------------------------------------------------------------------
(* Invariants                                                              *)

\* Types: every variable stays in its set.
TypeOK ==
    /\ enabled \in BOOLEAN /\ reconnectTimer \in BOOLEAN /\ pongTimeout \in BOOLEAN
    /\ config \in Usernames \cup {None} /\ status \in Statuses
    /\ connectingWs \in Sockets \cup {None} /\ waitingWs \in Sockets \cup {None}
    /\ pinged \in Sockets \cup {None}
    /\ ws \in [Sockets -> Lives]
    /\ asked \in [Sockets -> Usernames \cup {None}] /\ answer \in [Sockets -> Answers]
    /\ handed \subseteq Sockets

\* A socket the client relies on: the connecting or the waiting one
Slots == {connectingWs, waitingWs} \ {None}

\* An enabled client is never stranded: a timer is armed, or a socket it watches
\* is alive and not handed off, whatever order opening, registration, claim,
\* timeout and late closes of older sockets come in.
NeverStranded ==
    /\ enabled => reconnectTimer \/ Slots # {}
    /\ \A s \in Slots : ws[s] \in {"connecting", "open", "closing"} /\ s \notin handed

\* The keepalive watches the waiting socket and nothing else: a dead waiting
\* socket is noticed, and no timeout hits a socket that was claimed.
WaitingIsWatched == pinged = waitingWs /\ (pongTimeout => pinged # None)
============================================================================
