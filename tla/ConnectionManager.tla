-------------------------- MODULE ConnectionManager --------------------------
(***************************************************************************)
(* The connection state machine of the web client                          *)
(* (packages/client/src/lib/connection/ConnectionManager.ts): consumers    *)
(* report errors and closes, and it decides when to call reconnectFn, with *)
(* a backoff timer, a limit of attempts, a check for staleness and a ping  *)
(* when the page becomes visible.                                          *)
(*                                                                         *)
(* Every method is synchronous: it maps the manager's fields to new ones.  *)
(* A promise that reconnectFn returned settles later, also when the        *)
(* manager has moved on.  In this module consumers call any method at any  *)
(* time; ClientConnection composes the manager with real consumers.        *)
(*                                                                         *)
(* Abstracted: delays and clocks (a timer that is armed may fire); ids of  *)
(* pings, because a pong for another than the pending ping is ignored;     *)
(* listeners, which ClientConnection models.                               *)
(***************************************************************************)
EXTENDS Naturals

CONSTANTS
    Attempts,       \* calls of reconnectFn, each a promise of its own
    MaxAttempts,    \* config.maxAttempts
    None            \* no promise

ASSUME ManagerAssumption == MaxAttempts \in Nat /\ None \notin Attempts

VARIABLES
    cm,         \* the fields of the manager
    inFlight    \* promises of reconnectFn that have not settled

managerVars == <<cm, inFlight>>

States == {"connected", "reconnecting", "disconnected"}

Managers ==
    [state : States, started : BOOLEAN, reconnectAttempts : 0..MaxAttempts,
     backoffTimer : BOOLEAN, reconnectPromise : Attempts \cup {None},
     heartbeat : BOOLEAN,       \* _hasReceivedHeartbeat
     pinging : BOOLEAN,         \* _pendingPingId is set
     pongTimeout : BOOLEAN]

NewManager ==
    [state |-> "disconnected", started |-> FALSE, reconnectAttempts |-> 0,
     backoffTimer |-> FALSE, reconnectPromise |-> None, heartbeat |-> FALSE,
     pinging |-> FALSE, pongTimeout |-> FALSE]

ManagerInit == cm = NewManager /\ inFlight = {}

-----------------------------------------------------------------------------
(* Methods: the manager after a call.  Broken variants stand before the    *)
(* definition they replace in the project's mutation runs.                 *)

Start(m) == IF m.started THEN m ELSE [m EXCEPT !.started = TRUE, !.state = "connected"]

Stop(m) ==
    [m EXCEPT !.started = FALSE, !.backoffTimer = FALSE, !.pongTimeout = FALSE,
              !.reconnectPromise = None, !.heartbeat = FALSE, !.state = "disconnected"]

RecordHeartbeat(m) == [m EXCEPT !.heartbeat = TRUE]

MarkConnected(m) ==
    [m EXCEPT !.reconnectAttempts = 0, !.reconnectPromise = None,
              !.backoffTimer = FALSE, !.state = "connected"]

ReceivePong(m) ==
    IF m.pinging THEN [m EXCEPT !.pinging = FALSE, !.pongTimeout = FALSE] ELSE m

ScheduleReconnect(m) ==
    IF ~m.started THEN m
    ELSE IF m.reconnectAttempts >= MaxAttempts THEN [m EXCEPT !.state = "disconnected"]
    ELSE [m EXCEPT !.reconnectAttempts = @ + 1, !.backoffTimer = TRUE]

StartReconnecting(m) ==
    ScheduleReconnect([m EXCEPT !.pinging = FALSE, !.pongTimeout = FALSE,
                                !.state = "reconnecting"])

\* handleError and handleClose, with an error that may be retried or not
HandleError(m, retryable) ==
    IF m.state = "reconnecting" THEN m
    ELSE IF retryable THEN StartReconnecting(m)
    ELSE [m EXCEPT !.state = "disconnected"]

ForceReconnect(m) ==
    StartReconnecting([m EXCEPT !.reconnectAttempts = 0, !.backoffTimer = FALSE,
                                !.reconnectPromise = None])

\* The page becomes visible; the ping can be sent or not.
BecameVisible(m, sent) ==
    IF m.state # "connected" THEN m
    ELSE IF sent THEN [m EXCEPT !.pinging = TRUE, !.pongTimeout = TRUE]
    ELSE ForceReconnect([m EXCEPT !.pinging = FALSE, !.pongTimeout = FALSE])

PongTimedOut(m) ==
    IF m.pinging THEN ForceReconnect([m EXCEPT !.pinging = FALSE, !.pongTimeout = FALSE])
    ELSE [m EXCEPT !.pongTimeout = FALSE]

\* executeReconnect is about to call reconnectFn.
CallsReconnect(m) == m.started /\ m.reconnectPromise = None

\* broken: schedules no further attempt
AttemptForgotten(m, retryable) == [m EXCEPT !.reconnectPromise = None]

\* The promise of the current attempt fails.
AttemptFailed(m, retryable) ==
    LET n == [m EXCEPT !.reconnectPromise = None] IN
    IF retryable THEN ScheduleReconnect(n) ELSE [n EXCEPT !.state = "disconnected"]

\* broken: any promise is taken for the current one
SettledUnchecked(m, a, ok, retryable) ==
    IF ok THEN MarkConnected(m) ELSE AttemptFailed(m, retryable)

\* The promise of attempt a settles.
Settled(m, a, ok, retryable) ==
    IF m.reconnectPromise # a THEN m
    ELSE IF ok THEN MarkConnected(m) ELSE AttemptFailed(m, retryable)

-----------------------------------------------------------------------------
(* The manager with consumers that may call anything                       *)

Calls ==
    /\ \/ cm' = Start(cm) \/ cm' = Stop(cm) \/ cm' = MarkConnected(cm)
       \/ cm' = RecordHeartbeat(cm) \/ cm' = ReceivePong(cm)
       \/ \E retryable \in BOOLEAN : cm' = HandleError(cm, retryable)
       \/ cm' = ForceReconnect(cm)
    /\ UNCHANGED inFlight

\* The visibility listener and the stale check run between start and stop.
Watches ==
    /\ cm.started
    /\ \/ \E sent \in BOOLEAN : cm' = BecameVisible(cm, sent)
       \/ cm.state = "connected" /\ cm.heartbeat /\ cm' = ForceReconnect(cm)
    /\ UNCHANGED inFlight

PongTimeoutFires == cm.pongTimeout /\ cm' = PongTimedOut(cm) /\ UNCHANGED inFlight

BackoffFires(a) ==
    LET m == [cm EXCEPT !.backoffTimer = FALSE] IN
    /\ cm.backoffTimer
    /\ IF CallsReconnect(m)
       THEN /\ a \notin inFlight
            /\ inFlight' = inFlight \cup {a}
            /\ cm' = [m EXCEPT !.reconnectPromise = a]
       ELSE cm' = m /\ UNCHANGED inFlight

\* The consumer that waited for the same connect reports its failure first.
Settles(a) ==
    /\ a \in inFlight
    /\ inFlight' = inFlight \ {a}
    /\ \/ \E ok, retryable \in BOOLEAN : cm' = Settled(cm, a, ok, retryable)
       \/ \E retryable \in BOOLEAN :
             cm' = Settled(HandleError(cm, TRUE), a, FALSE, retryable)

ManagerNext ==
    \/ Calls \/ Watches \/ PongTimeoutFires
    \/ \E a \in Attempts : BackoffFires(a) \/ Settles(a)

ManagerSpec == ManagerInit /\ [][ManagerNext]_managerVars

-----------------------------------------------------------------------------
(* Invariants                                                              *)

\* Types: every field stays in its set.
ManagerTypeOK == cm \in Managers /\ inFlight \subseteq Attempts

\* A manager that says it is reconnecting is: its backoff timer is armed or the
\* promise of its attempt is unsettled, and never both, whatever consumers,
\* pings and the outcomes of superseded attempts do meanwhile.  When it is not
\* reconnecting, nothing of a reconnect is left that could disturb it.
NeverStuck ==
    /\ cm.started /\ cm.state = "reconnecting" =>
          cm.backoffTimer \/ cm.reconnectPromise \in inFlight
    /\ ~(cm.backoffTimer /\ cm.reconnectPromise # None)
    /\ cm.backoffTimer \/ cm.reconnectPromise # None =>
          cm.started /\ cm.state = "reconnecting"
=============================================================================
