------------------------------ MODULE Process ------------------------------
(***************************************************************************)
(* One agent process as the server sees it                                 *)
(* (packages/server/src/supervisor/Process.ts) together with the message   *)
(* queue that feeds its SDK (packages/server/src/sdk/messageQueue.ts), the *)
(* session routes that call it and, as environment, the agent SDK.         *)
(*                                                                         *)
(* Every action is one uninterrupted run of the event loop: a handler up   *)
(* to its next await.  A route that looks the process up, awaits the       *)
(* request body and only then acts on the process is two actions.          *)
(*                                                                         *)
(* Abstracted: message contents, timestamps, the two history buckets and   *)
(* the streaming-text buffer (they only feed replay), logging.  SDK        *)
(* messages that neither end a turn nor open an approval change nothing    *)
(* that is modelled here.                                                  *)
(***************************************************************************)
EXTENDS Integers, Sequences, FiniteSets, Queues

CONSTANTS
    Messages,      \* user messages, each sent once
    Requests,      \* tool approval requests, each made once
    NoRequest,     \* the state carries no request
    Steers,        \* the provider offers steerFn (Codex app-server)
    LivenessCheck  \* the provider offers isProcessAlive (local Claude CLI)

ASSUME NoRequestAssumption == NoRequest \notin Requests
ASSUME OptionsAssumption == Steers \in BOOLEAN /\ LivenessCheck \in BOOLEAN

VARIABLES
    \* Process.ts
    state,          \* _state.type
    shown,          \* _state.request.id of a waiting-input state
    isHeld,         \* _isHeld
    loop,           \* where processMessages() is suspended
    iteratorDone,
    transportFailed,
    exitResolved,   \* _exitPromise has resolved
    idleTimer,      \* idleTimer is armed
    aborting,       \* progress of abort(): "no", "waiting" for the exit, "done"
    pendingToolApprovals,      \* keys of the map
    pendingToolApprovalQueue,  \* their order
    firstPending,   \* requests whose closure captured isFirstPending = true
    outcome,        \* what the promise of each request resolved to
    deferredQueue,
    steering,       \* messages whose steerFn promise is still open
    \* messageQueue.ts
    queue,
    waiting,        \* the generator waits inside next()
    received,       \* messages the generator has yielded, in order
    \* routes and Supervisor
    fate,           \* progress of each message's HTTP request
    inputRoute,     \* an input response has passed its state check
    tracked,        \* the Supervisor still lists the process
    \* agent SDK (external)
    cli,            \* the agent: "running", "ended", "crashed" or "errored"
    killed,         \* abortFn was called
    finished,       \* turns the agent has finished
    results         \* result messages the iterator has not handed out yet

approvalVars == <<pendingToolApprovals, pendingToolApprovalQueue, firstPending, outcome>>
inputVars    == <<queue, waiting, received, steering>>
messageVars  == <<inputVars, deferredQueue, fate>>
loopVars     == <<loop, iteratorDone, transportFailed, exitResolved>>
statusVars   == <<state, shown, isHeld, idleTimer>>
routeVars    == <<inputRoute, tracked, aborting>>
sdkVars      == <<cli, killed, finished, results>>
vars == <<approvalVars, messageVars, loopVars, statusVars, routeVars, sdkVars>>

States   == {"in-turn", "idle", "waiting-input", "hold", "terminated"}
Outcomes == {"none", "pending", "allow", "deny"}
Fates    == {"unsent", "routed", "refused", "accepted", "cancelled"}

\* A session is created empty, or with its first message already queued.
Init ==
    /\ state = "in-turn" /\ shown = NoRequest
    /\ isHeld = FALSE /\ idleTimer = FALSE
    /\ loop = "next" /\ iteratorDone = FALSE
    /\ transportFailed = FALSE /\ exitResolved = FALSE
    /\ pendingToolApprovals = {} /\ pendingToolApprovalQueue = <<>>
    /\ firstPending = {} /\ outcome = [r \in Requests |-> "none"]
    /\ deferredQueue = <<>> /\ steering = {} /\ received = <<>> /\ waiting = FALSE
    /\ \/ queue = <<>> /\ fate = [m \in Messages |-> "unsent"]
       \/ \E m \in Messages :
             /\ queue = <<m>>
             /\ fate = [[n \in Messages |-> "unsent"] EXCEPT ![m] = "accepted"]
    /\ inputRoute = FALSE /\ tracked = TRUE /\ aborting = "no"
    /\ cli = "running" /\ killed = FALSE /\ finished = 0 /\ results = 0

-----------------------------------------------------------------------------
(* Shared steps of the handlers                                            *)

SetState(s, r) == state' = s /\ shown' = r

\* Broken variants of a definition stand before it; the project's mutation
\* runs put them in its place to show that the properties can fail.

\* MessageQueue.push
Push(m) ==
    \/ /\ waiting
       /\ waiting' = FALSE
       /\ received' = Append(received, m)
       /\ UNCHANGED queue
    \/ /\ ~waiting
       /\ queue' = Append(queue, m)
       /\ UNCHANGED <<waiting, received>>

RefusesMessages == state = "terminated" \/ transportFailed

\* Process.queueMessage, on the variables of the message path only
QueueMessage(m) ==
    IF RefusesMessages THEN UNCHANGED inputVars
    ELSE IF state = "in-turn" /\ Steers
    THEN steering' = steering \cup {m} /\ UNCHANGED <<queue, waiting, received>>
    ELSE Push(m) /\ UNCHANGED steering

\* The transition queueMessage makes on an idle process
WakesUp == state = "idle" /\ ~RefusesMessages

\* broken: takes a deferred message and forgets to queue it
TransitionDroppingDeferred ==
    /\ deferredQueue' = IF deferredQueue = <<>> THEN <<>> ELSE Tail(deferredQueue)
    /\ SetState("idle", NoRequest)
    /\ idleTimer' = TRUE
    /\ UNCHANGED inputVars

TransitionToIdle ==
    \/ /\ deferredQueue # <<>>
       /\ deferredQueue' = Tail(deferredQueue)
       /\ QueueMessage(Head(deferredQueue))
       /\ idleTimer' = FALSE
       /\ IF WakesUp THEN SetState("in-turn", NoRequest)
                     ELSE UNCHANGED <<state, shown>>
    \/ /\ deferredQueue = <<>>
       /\ SetState("idle", NoRequest)
       /\ idleTimer' = TRUE
       /\ UNCHANGED <<inputVars, deferredQueue>>

\* emitNextPendingApproval, for the queue that is left
EmitNextPendingApproval(left) ==
    IF left # <<>> THEN SetState("waiting-input", Head(left))
                   ELSE SetState("in-turn", NoRequest)

\* broken: leaves the request in the queue
SettleApprovalInMapOnly(r, answer) ==
    /\ pendingToolApprovals' = pendingToolApprovals \ {r}
    /\ outcome' = [outcome EXCEPT ![r] = answer]
    /\ UNCHANGED <<pendingToolApprovalQueue, firstPending>>

\* A pending approval leaves the map and the queue with an answer.
SettleApproval(r, answer) ==
    /\ pendingToolApprovals' = pendingToolApprovals \ {r}
    /\ pendingToolApprovalQueue' = Filter(pendingToolApprovalQueue, r)
    /\ outcome' = [outcome EXCEPT ![r] = answer]
    /\ UNCHANGED firstPending

\* broken: denies every request ever made
DenyAll ==
    /\ outcome' = [r \in Requests |-> IF outcome[r] # "none" THEN "deny" ELSE "none"]
    /\ pendingToolApprovals' = {}
    /\ pendingToolApprovalQueue' = <<>>
    /\ UNCHANGED firstPending

\* Every pending approval is denied and forgotten.
DenyPending ==
    /\ outcome' = [r \in Requests |->
                     IF r \in pendingToolApprovals THEN "deny" ELSE outcome[r]]
    /\ pendingToolApprovals' = {}
    /\ pendingToolApprovalQueue' = <<>>
    /\ UNCHANGED firstPending

\* markTerminated, on a process that is not terminated yet
MarkTerminated ==
    /\ SetState("terminated", NoRequest)
    /\ idleTimer' = FALSE
    /\ iteratorDone' = TRUE
    /\ isHeld' = FALSE
    /\ DenyPending
    /\ exitResolved' = TRUE
    /\ tracked' = FALSE              \* "complete" reaches the Supervisor

-----------------------------------------------------------------------------
(* Session routes: messages                                                *)

\* POST /messages finds the process and starts to read the request body.
RouteMessage(m) ==
    /\ tracked /\ fate[m] = "unsent"
    /\ fate' = [fate EXCEPT ![m] = "routed"]
    /\ UNCHANGED <<approvalVars, inputVars, deferredQueue, loopVars, statusVars,
                   routeVars, sdkVars>>

\* The body has arrived: the process terminated, or left the Supervisor and
\* the message is not deferred.
RouteRefuse(m) ==
    /\ fate[m] = "routed"
    /\ RefusesMessages \/ ~tracked
    /\ fate' = [fate EXCEPT ![m] = "refused"]
    /\ UNCHANGED <<approvalVars, inputVars, deferredQueue, loopVars, statusVars,
                   routeVars, sdkVars>>

\* The body has arrived: Supervisor.queueMessageToSession.
RouteQueueMessage(m) ==
    /\ fate[m] = "routed" /\ tracked /\ ~RefusesMessages
    /\ fate' = [fate EXCEPT ![m] = "accepted"]
    /\ QueueMessage(m)
    /\ IF WakesUp
       THEN SetState("in-turn", NoRequest) /\ idleTimer' = FALSE
       ELSE UNCHANGED <<state, shown, idleTimer>>
    /\ UNCHANGED <<approvalVars, deferredQueue, loopVars, isHeld, routeVars, sdkVars>>

\* The body has arrived with deferred = true.  Only isTerminated is checked:
\* not whether the agent is in-turn, nor whether the process is still tracked.
RouteDeferMessage(m) ==
    /\ fate[m] = "routed" /\ state # "terminated"
    /\ fate' = [fate EXCEPT ![m] = "accepted"]
    /\ deferredQueue' = Append(deferredQueue, m)
    /\ UNCHANGED <<approvalVars, inputVars, loopVars, statusVars, routeVars, sdkVars>>

CancelDeferredMessage(m) ==
    /\ tracked /\ m \in ElementsOf(deferredQueue)
    /\ deferredQueue' = Filter(deferredQueue, m)
    /\ fate' = [fate EXCEPT ![m] = "cancelled"]
    /\ UNCHANGED <<approvalVars, inputVars, loopVars, statusVars, routeVars, sdkVars>>

\* steerFn's promise settles; when it could not steer, the message is queued,
\* whatever has become of the process since.
SteerSettles(m, steered) ==
    /\ m \in steering
    /\ steering' = steering \ {m}
    /\ IF steered
       THEN /\ cli = "running"
            /\ received' = Append(received, m)
            /\ UNCHANGED <<queue, waiting>>
       ELSE Push(m)
    /\ UNCHANGED <<approvalVars, deferredQueue, fate, loopVars, statusVars,
                   routeVars, sdkVars>>

-----------------------------------------------------------------------------
(* Session routes: hold, input, and the Supervisor's abort and terminate   *)

Hold ==
    /\ tracked /\ ~isHeld
    /\ isHeld' = TRUE
    /\ idleTimer' = FALSE
    /\ SetState("hold", NoRequest)
    /\ UNCHANGED <<approvalVars, messageVars, loopVars, routeVars, sdkVars>>

Unhold ==
    /\ tracked /\ isHeld
    /\ isHeld' = FALSE
    /\ loop' = IF loop = "held" THEN "resuming" ELSE loop
    /\ \/ /\ iteratorDone /\ TransitionToIdle
       \/ /\ ~iteratorDone /\ SetState("in-turn", NoRequest)
          /\ UNCHANGED <<idleTimer, inputVars, deferredQueue>>
    /\ UNCHANGED <<approvalVars, fate, iteratorDone, transportFailed, exitResolved,
                   routeVars, sdkVars>>

\* POST /input checks the state, then awaits the body.
RouteInput ==
    /\ tracked /\ state = "waiting-input" /\ ~inputRoute
    /\ inputRoute' = TRUE
    /\ UNCHANGED <<approvalVars, messageVars, loopVars, statusVars, tracked,
                   aborting, sdkVars>>

\* A client answers a request it can know: the one the state shows, the one
\* getPendingInputRequest returns, or one that was settled meanwhile.
Answerable(r) ==
    /\ outcome[r] # "none"
    /\ \/ r = shown
       \/ r \notin pendingToolApprovals
       \/ pendingToolApprovalQueue # <<>> /\ r = Head(pendingToolApprovalQueue)

RespondPending(r, answer) ==
    /\ inputRoute /\ Answerable(r) /\ r \in pendingToolApprovals
    /\ inputRoute' = FALSE
    /\ SettleApproval(r, answer)
    /\ EmitNextPendingApproval(Filter(pendingToolApprovalQueue, r))
    /\ UNCHANGED <<messageVars, loopVars, isHeld, idleTimer, tracked, aborting, sdkVars>>

\* Denying with feedback on Codex also queues the feedback as a message
\* before the next approval is shown.
RespondWithFeedback(r, m) ==
    /\ Steers
    /\ inputRoute /\ Answerable(r) /\ r \in pendingToolApprovals
    /\ fate[m] = "unsent"
    /\ inputRoute' = FALSE
    /\ SettleApproval(r, "deny")
    /\ QueueMessage(m)
    /\ fate' = [fate EXCEPT ![m] = IF RefusesMessages THEN "refused" ELSE "accepted"]
    /\ idleTimer' = (idleTimer /\ ~WakesUp)
    /\ EmitNextPendingApproval(Filter(pendingToolApprovalQueue, r))
    /\ UNCHANGED <<deferredQueue, loopVars, isHeld, tracked, aborting, sdkVars>>

\* No pending approval has this id: only a request still shown is cleared.
RespondSettled(r) ==
    /\ inputRoute /\ Answerable(r) /\ r \notin pendingToolApprovals
    /\ inputRoute' = FALSE
    /\ IF state = "waiting-input" /\ shown = r
       THEN SetState("in-turn", NoRequest)
       ELSE UNCHANGED <<state, shown>>
    /\ UNCHANGED <<approvalVars, messageVars, loopVars, isHeld, idleTimer, tracked,
                   aborting, sdkVars>>

\* The Supervisor's stale check: terminate() a silent in-turn process.
Terminate ==
    /\ tracked /\ state = "in-turn" /\ ~isHeld
    /\ LivenessCheck => cli # "running"
    /\ killed' = TRUE
    /\ MarkTerminated
    /\ loop' = IF loop = "held" THEN "resuming" ELSE loop
    /\ UNCHANGED <<messageVars, transportFailed, inputRoute, aborting,
                   cli, finished, results>>

\* abort(): up to the await of the exit promise or of the 5 s timeout
Abort ==
    /\ tracked /\ aborting = "no"
    /\ aborting' = "waiting"
    /\ idleTimer' = FALSE
    /\ killed' = TRUE
    /\ UNCHANGED <<approvalVars, messageVars, loopVars, state, shown, isHeld,
                   inputRoute, tracked, cli, finished, results>>

\* abort() resumes, on the exit or on its timeout, which may elapse at any
\* time; its caller unregisters the process.
AbortReturns ==
    /\ aborting = "waiting"
    /\ aborting' = "done"
    /\ tracked' = FALSE
    /\ UNCHANGED <<approvalVars, messageVars, loopVars, statusVars, inputRoute, sdkVars>>

\* The idle timer emits "complete": the Supervisor unregisters the process.
IdleTimerFires ==
    /\ idleTimer
    /\ idleTimer' = FALSE
    /\ tracked' = FALSE
    /\ UNCHANGED <<approvalVars, messageVars, loopVars, state, shown, isHeld,
                   inputRoute, aborting, sdkVars>>

-----------------------------------------------------------------------------
(* The agent SDK                                                           *)

InTurn == cli = "running" /\ Len(received) > finished

\* MessageQueue.next, called by the SDK for its next input
SdkNext ==
    /\ cli = "running" /\ ~waiting
    /\ \/ /\ queue # <<>>
          /\ queue' = Tail(queue)
          /\ received' = Append(received, Head(queue))
          /\ UNCHANGED waiting
       \/ /\ queue = <<>>
          /\ waiting' = TRUE
          /\ UNCHANGED <<queue, received>>
    /\ UNCHANGED <<approvalVars, steering, deferredQueue, fate, loopVars, statusVars,
                   routeVars, sdkVars>>

\* broken: shows every request at once
HandleToolApprovalUnguarded(r) ==
    /\ InTurn /\ ~killed /\ outcome[r] = "none"
    /\ pendingToolApprovals' = pendingToolApprovals \cup {r}
    /\ pendingToolApprovalQueue' = Append(pendingToolApprovalQueue, r)
    /\ outcome' = [outcome EXCEPT ![r] = "pending"]
    /\ firstPending' = firstPending \cup {r}
    /\ SetState("waiting-input", r)
    /\ UNCHANGED <<messageVars, loopVars, isHeld, idleTimer, routeVars, sdkVars>>

\* canUseTool -> handleToolApproval, for a tool the permission mode asks about
HandleToolApproval(r) ==
    /\ InTurn /\ ~killed /\ outcome[r] = "none"
    /\ pendingToolApprovals' = pendingToolApprovals \cup {r}
    /\ pendingToolApprovalQueue' = Append(pendingToolApprovalQueue, r)
    /\ outcome' = [outcome EXCEPT ![r] = "pending"]
    /\ IF pendingToolApprovals = {}
       THEN /\ firstPending' = firstPending \cup {r}
            /\ SetState("waiting-input", r)
       ELSE UNCHANGED <<firstPending, state, shown>>
    /\ UNCHANGED <<messageVars, loopVars, isHeld, idleTimer, routeVars, sdkVars>>

\* broken: the next request is never shown
OnAbortSilently(r) ==
    /\ r \in pendingToolApprovals
    /\ SettleApproval(r, "deny")
    /\ UNCHANGED <<state, shown>>
    /\ UNCHANGED <<messageVars, loopVars, isHeld, idleTimer, routeVars, sdkVars>>

\* The signal of a pending request is aborted (onAbort).
OnAbort(r) ==
    /\ r \in pendingToolApprovals
    /\ SettleApproval(r, "deny")
    /\ IF r \in firstPending
       THEN EmitNextPendingApproval(Filter(pendingToolApprovalQueue, r))
       ELSE UNCHANGED <<state, shown>>
    /\ UNCHANGED <<messageVars, loopVars, isHeld, idleTimer, routeVars, sdkVars>>

\* The agent ends a turn: none of its tool calls waits for an answer.
SdkResult ==
    /\ InTurn /\ pendingToolApprovals = {}
    /\ finished' = finished + 1
    /\ results' = results + 1
    /\ UNCHANGED <<approvalVars, messageVars, loopVars, statusVars, routeVars, cli, killed>>

\* The agent exits: cleanly, with a transport error, or with another error.
SdkExit(how) ==
    /\ cli = "running"
    /\ cli' = how
    /\ UNCHANGED <<approvalVars, messageVars, loopVars, statusVars, routeVars, killed,
                   finished, results>>

-----------------------------------------------------------------------------
(* processMessages()                                                       *)

HandOutResult == results > 0 /\ results' = results - 1

\* iterator.next() yields a result message; then the loop's two checks.
LoopResult ==
    /\ loop = "next" /\ HandOutResult
    /\ TransitionToIdle
    /\ loop' = IF iteratorDone THEN "exited" ELSE IF isHeld THEN "held" ELSE "next"
    /\ exitResolved' = (exitResolved \/ iteratorDone)
    /\ UNCHANGED <<approvalVars, fate, isHeld, iteratorDone, transportFailed, routeVars,
                   cli, killed, finished>>

\* broken: an error that is not fatal leaves the loop suspended
NormalEndOnly == {"ended"}

\* The ends of the iterator that are not the loss of the agent process
QuietEnds == {"ended", "errored"}

\* iterator.next() reports the end, or throws an error that is not fatal.
LoopEnds ==
    /\ loop = "next" /\ results = 0 /\ cli \in QuietEnds
    /\ loop' = "exited"
    /\ exitResolved' = TRUE
    /\ iteratorDone' = (iteratorDone \/ cli = "ended")
    /\ \/ /\ state # "waiting-input" /\ TransitionToIdle
       \/ /\ state = "waiting-input"
          /\ UNCHANGED <<state, shown, idleTimer, inputVars, deferredQueue>>
    /\ UNCHANGED <<approvalVars, fate, isHeld, transportFailed, routeVars, sdkVars>>

\* iterator.next() throws an error that says the agent process is gone.
LoopFails ==
    /\ loop = "next" /\ results = 0 /\ cli = "crashed"
    /\ loop' = "exited"
    /\ transportFailed' = TRUE
    /\ \/ /\ state # "terminated" /\ MarkTerminated
       \/ /\ state = "terminated"
          /\ exitResolved' = TRUE
          /\ UNCHANGED <<statusVars, approvalVars, tracked, iteratorDone>>
    /\ UNCHANGED <<messageVars, inputRoute, aborting, sdkVars>>

\* The loop wakes up from waitUntilResumed().
LoopResumes ==
    /\ loop = "resuming"
    /\ IF iteratorDone \/ state = "terminated"
       THEN loop' = "exited" /\ exitResolved' = TRUE
       ELSE loop' = "next" /\ UNCHANGED exitResolved
    /\ UNCHANGED <<approvalVars, messageVars, iteratorDone, transportFailed, statusVars,
                   routeVars, sdkVars>>

-----------------------------------------------------------------------------

Routes ==
    \/ \E m \in Messages :
          \/ RouteMessage(m) \/ RouteRefuse(m) \/ RouteQueueMessage(m)
          \/ RouteDeferMessage(m) \/ CancelDeferredMessage(m)
          \/ \E steered \in BOOLEAN : SteerSettles(m, steered)
    \/ Hold \/ Unhold \/ RouteInput
    \/ \E r \in Requests :
          \/ \E answer \in {"allow", "deny"} : RespondPending(r, answer)
          \/ \E m \in Messages : RespondWithFeedback(r, m)
          \/ RespondSettled(r)
    \/ Terminate \/ Abort \/ AbortReturns \/ IdleTimerFires

Sdk ==
    \/ SdkNext \/ SdkResult
    \/ \E r \in Requests : HandleToolApproval(r) \/ OnAbort(r)
    \/ \E how \in {"ended", "crashed", "errored"} : SdkExit(how)

Loop == LoopResult \/ LoopEnds \/ LoopFails \/ LoopResumes

Next == Routes \/ Sdk \/ Loop

Spec == Init /\ [][Next]_vars

\* The event loop runs the message loop when it is ready.  A killed agent exits.
Fairness ==
    /\ WF_vars(Loop)
    /\ WF_vars(killed /\ \E how \in {"ended", "crashed", "errored"} : SdkExit(how))

FairSpec == Spec /\ Fairness
-----------------------------------------------------------------------------
(* Invariants                                                              *)

StatusTypes ==
    /\ state \in States /\ shown \in Requests \cup {NoRequest}
    /\ isHeld \in BOOLEAN /\ idleTimer \in BOOLEAN

LoopTypes ==
    /\ loop \in {"next", "held", "resuming", "exited"}
    /\ iteratorDone \in BOOLEAN /\ transportFailed \in BOOLEAN
    /\ exitResolved \in BOOLEAN

ApprovalTypes ==
    /\ pendingToolApprovals \subseteq Requests
    /\ pendingToolApprovalQueue \in Seq(Requests)
    /\ firstPending \subseteq Requests
    /\ outcome \in [Requests -> Outcomes]

InputTypes ==
    /\ queue \in Seq(Messages) /\ received \in Seq(Messages)
    /\ waiting \in BOOLEAN /\ steering \subseteq Messages

MessageTypes ==
    /\ InputTypes
    /\ deferredQueue \in Seq(Messages)
    /\ fate \in [Messages -> Fates]

RouteTypes ==
    /\ inputRoute \in BOOLEAN /\ tracked \in BOOLEAN
    /\ aborting \in {"no", "waiting", "done"}

SdkTypes ==
    /\ cli \in {"running", "ended", "crashed", "errored"} /\ killed \in BOOLEAN
    /\ finished \in Nat /\ results \in Nat

\* Types: every variable of the process, of its queue and of the routes that
\* call it stays in its set; the SDK's result counter never goes below zero.
TypeOK ==
    /\ StatusTypes /\ LoopTypes /\ ApprovalTypes
    /\ MessageTypes /\ RouteTypes /\ SdkTypes

\* The map and the queue of pending approvals hold the same requests, none
\* twice, and a request waits for an answer exactly while it is among them:
\* no canUseTool promise of the SDK is forgotten by respondToInput, onAbort
\* or markTerminated.
ApprovalsConsistent ==
    /\ ElementsOf(pendingToolApprovalQueue) = pendingToolApprovals
    /\ \A i, j \in 1..Len(pendingToolApprovalQueue) :
          pendingToolApprovalQueue[i] = pendingToolApprovalQueue[j] => i = j
    /\ \A r \in Requests : outcome[r] = "pending" <=> r \in pendingToolApprovals

\* A request the user is asked about and that no longer waits for an answer is
\* one the agent itself gave up, after others were asked before it (the abort
\* handler remembers whether it was first when it arrived): an answer, a
\* termination or the abort of a first request never leaves its request shown.
ShownIsPending ==
    shown # NoRequest =>
        \/ shown \in pendingToolApprovals
        \/ shown \notin firstPending /\ outcome[shown] = "deny"

\* The generator of the message queue waits only while the queue is empty, so
\* a message handed to the waiting generator overtakes no queued message.
WaitingMeansEmpty == waiting => queue = <<>>

\* A message is in one place at a time: never in two queues, never yielded
\* twice, never still queued for steering after it was delivered.
NoDuplicateDelivery ==
    LET line == deferredQueue \o queue \o received IN
    /\ \A i, j \in 1..Len(line) : line[i] = line[j] => i = j
    /\ steering \cap ElementsOf(line) = {}

AcceptedNotLost ==
    \A m \in Messages :
        fate[m] = "accepted" =>
            \/ m \in steering
            \/ m \in ElementsOf(deferredQueue \o queue \o received)
            \/ iteratorDone

\* A message the server accepted is in exactly one place: it stays deferred,
\* steering or queued until the SDK receives it, once, or the user cancels it, as
\* long as the process lives.
MessagesKept == NoDuplicateDelivery /\ AcceptedNotLost

-----------------------------------------------------------------------------
(* Action properties                                                       *)

\* The promise of an approval is resolved once: a late abort, answer or
\* termination does not change an answer already given.
SettledOnce ==
    [][\A r \in Requests :
          outcome[r] \in {"allow", "deny"} => outcome'[r] = outcome[r]]_vars

\* Approvals come up first in, first out: a step that changes the request
\* shown to the user to another one shows the head of the queue.
HeadIsShown ==
    [][shown' # shown /\ shown' # NoRequest
          => /\ pendingToolApprovalQueue' # <<>>
             /\ shown' = Head(pendingToolApprovalQueue')]_vars

\* Terminating the process answers every pending approval with a denial and
\* leaves none behind.
TerminationDenies ==
    [][state # "terminated" /\ state' = "terminated"
          => /\ pendingToolApprovals' = {}
             /\ \A r \in pendingToolApprovals : outcome'[r] = "deny"]_vars

-----------------------------------------------------------------------------
(* Liveness, under FairSpec                                                *)

\* After the agent is killed the message loop comes to its end, unless it is
\* parked by a hold.
LoopEndsAfterKill == killed ~> loop \in {"exited", "held"}

==============================================================================
