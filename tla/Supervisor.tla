----------------------------- MODULE Supervisor -----------------------------
(***************************************************************************)
(* The worker pool of the server                                           *)
(* (packages/server/src/supervisor/Supervisor.ts and WorkerQueue.ts): API  *)
(* calls that start, resume and message sessions, the limit on workers,    *)
(* preemption of idle workers, the queue of requests that found no worker, *)
(* the mapping of sessions to processes and the ownership events clients   *)
(* see.                                                                    *)
(*                                                                         *)
(* A call starts at most one process, so a process is named after the call *)
(* that started it.  Every action is one uninterrupted run of the event    *)
(* loop; the stage of a call says where its handler is suspended.  What    *)
(* one such run does to the pool is composed from operators that map a     *)
(* pool to a pool.                                                         *)
(*                                                                         *)
(* Abstracted: the process itself (module Process) to the few states the   *)
(* Supervisor looks at ("waiting-input" stands for the state hold too);    *)
(* time, so any idle worker may have been idle long enough to be           *)
(* preempted, or none; permission modes, model settings, deferred          *)
(* messages, events other than ownership, the list of terminated ones.     *)
(***************************************************************************)
EXTENDS Integers, Sequences, FiniteSets, Queues

CONSTANTS
    Calls,         \* API calls; also the processes they start
    Sessions,      \* session ids
    None,          \* no process, no session
    MaxWorkers,    \* maxWorkers; 0 = unlimited
    MaxQueueSize   \* maxQueueSize; 0 = unlimited

ASSUME NoneAssumption == None \notin Calls \cup Sessions
ASSUME CallsAssumption == IsFiniteSet(Calls)
ASSUME LimitAssumption == MaxWorkers \in Nat /\ MaxQueueSize \in Nat

VARIABLES
    pool,       \* what one run of the Supervisor changes, as a record:
                \*   workers           keys of the map processes
                \*   sessionToProcess
                \*   owner             last ownership event of each session
                \*   queue             WorkerQueue.queue
                \*   dequeued          calls that a loop of processQueue is starting
                \*   killed            processes whose abortFn was called
                \*   idleTimer         processes whose idle timer is armed
                \*   stage, answer     of each call: progress, HTTP response
                \*   awaits            the process a suspended call waits for
    api,        \* the method each call invoked
    target,     \* the session a call resumes or messages
    sessionId,  \* Process._sessionId
    status,     \* Process.state.type
    exited,     \* processes whose agent has exited
    listening,  \* processes the Supervisor's listener is subscribed to
    held,       \* Process._isHeld
    stopping,   \* processes an abortProcess call waits for
    \* history, for the properties
    contested,  \* ids a process took while another worker went by them
    late        \* ids reported by a process that had left the pool

turnVars    == <<status, held>>
processVars == <<sessionId, turnVars, exited, listening>>
historyVars == <<contested, late>>
callVars    == <<api, target, stopping, historyVars>>
vars        == <<pool, processVars, callVars>>

Stages   == {"unsent", "resume:toggle", "resume:abort", "queue:toggle", "queue:abort",
             "preempt", "queued", "starting", "naming", "cancelled", "done"}
Statuses == {"none", "in-turn", "waiting-input", "idle", "terminated"}
Answers  == Calls \cup {"none", "queued", "full", "refused", "failed"}
Apis     == {"none", "startSession", "resumeSession", "queueMessageToSession"}

Init ==
    /\ pool = [workers |-> {}, sessionToProcess |-> [s \in Sessions |-> None],
               owner |-> [s \in Sessions |-> None], queue |-> <<>>,
               dequeued |-> {}, killed |-> {}, idleTimer |-> {},
               stage |-> [c \in Calls |-> "unsent"],
               answer |-> [c \in Calls |-> "none"],
               awaits |-> [c \in Calls |-> None]]
    /\ api = [c \in Calls |-> "none"] /\ target = [c \in Calls |-> None]
    /\ sessionId = [c \in Calls |-> None] /\ status = [c \in Calls |-> "none"]
    /\ exited = {} /\ listening = {} /\ held = {} /\ stopping = {}
    /\ contested = {} /\ late = {}

-----------------------------------------------------------------------------
(* From pool to pool                                                       *)

AtCapacity(p) == MaxWorkers > 0 /\ Cardinality(p.workers) >= MaxWorkers

\* Broken variants of a definition stand before it; the project's mutation
\* runs put them in its place to show that the properties can fail.

\* broken: looks at the head of the queue and leaves it there
DequeuePeeking(p) ==
    [p EXCEPT !.dequeued = @ \cup {Head(p.queue)},
              !.stage[Head(p.queue)] = "starting"]

\* dequeue, then startSessionInternal up to its first await
Dequeue(p) ==
    [p EXCEPT !.queue = Tail(@),
              !.dequeued = @ \cup {Head(p.queue)},
              !.stage[Head(p.queue)] = "starting"]

\* broken: leaves the last request in the queue
ProcessQueueLate(p) ==
    IF Len(p.queue) < 2 \/ AtCapacity(p) THEN p ELSE Dequeue(p)

\* processQueue up to its first await
ProcessQueue(p) ==
    IF p.queue = <<>> \/ AtCapacity(p) THEN p ELSE Dequeue(p)

\* unregisterProcess; w need not be registered any more
Unregister(p, w) ==
    ProcessQueue(
        [p EXCEPT !.workers = @ \ {w},
                  !.sessionToProcess =
                      [s \in Sessions |-> IF @[s] = w THEN None ELSE @[s]],
                  !.owner[sessionId[w]] = None])

\* broken: trusts the listener to unregister the process
AbortReturnedToListener(p, w) ==
    IF w \in listening /\ status[w] # "terminated" THEN Unregister(p, w) ELSE p

\* abort() has returned to a caller that then unregisters the process: the
\* listener, still subscribed unless an earlier abort() returned, has
\* unregistered it already on "complete".
AbortReturned(p, w) ==
    IF w \in listening /\ status[w] # "terminated"
    THEN Unregister(Unregister(p, w), w)
    ELSE Unregister(p, w)

\* The call's handler aborts process w and waits for it.
AbortFor(p, c, w, stage) ==
    [p EXCEPT !.killed = @ \cup {w}, !.idleTimer = @ \ {w},
              !.awaits[c] = w, !.stage[c] = stage]

Answered(p, c, answer) ==
    [p EXCEPT !.stage[c] = "done", !.answer[c] = answer, !.awaits[c] = None]

\* queueMessageToSession reports a request that had to be queued as an error.
QueuedAnswer(c) == IF api[c] = "queueMessageToSession" THEN "refused" ELSE "queued"

\* WorkerQueue.enqueue
Enqueue(p, c) ==
    IF MaxQueueSize > 0 /\ Len(p.queue) >= MaxQueueSize
    THEN Answered(p, c, IF api[c] = "queueMessageToSession" THEN "refused" ELSE "full")
    ELSE [p EXCEPT !.queue = Append(@, c), !.stage[c] = "queued",
                   !.answer[c] = QueuedAnswer(c), !.awaits[c] = None]

\* findPreemptableWorker: idle workers, killed ones included
Preemptable(p) == {w \in p.workers : status[w] = "idle"}

\* The call goes on to activeProvider.startSession.
Starts(p, c) == [p EXCEPT !.stage[c] = "starting", !.awaits[c] = None]

\* The outcomes of the capacity check: start now, preempt, or queue when no
\* worker has been idle for long enough.
Admit(p, c) ==
    IF ~AtCapacity(p) THEN {Starts(p, c)}
    ELSE {AbortFor(p, c, w, "preempt") : w \in Preemptable(p)} \cup {Enqueue(p, c)}

FindBySessionId(p, s) == {i \in 1..Len(p.queue) : target[p.queue[i]] = s}

\* broken: no consolidation of requests for the same session
AdmitResumeTwice(p, c, s) == Admit(p, c)

\* resumeSession once no process of the session can take the message
AdmitResume(p, c, s) ==
    IF FindBySessionId(p, s) # {}
    THEN {Answered(p, c, QueuedAnswer(c))}
    ELSE Admit(p, c)

-----------------------------------------------------------------------------
(* API calls                                                               *)

\* queueMessage on a process that is not terminated: the call is answered with
\* the process, which wakes up if it was idle.
SendTo(p, c, w) ==
    /\ status' = [status EXCEPT ![w] = IF @ = "idle" THEN "in-turn" ELSE @]
    /\ pool' = Answered([p EXCEPT !.idleTimer = IF status[w] = "idle" THEN @ \ {w} ELSE @],
                        c, w)

\* A client can name a session it has seen, or one from before this server
\* ran; not the temporary id of a session that is still being started.
Nameable(s) == \A c \in Calls : pool.stage[c] = "naming" => sessionId[c] # s

Invoke(c, method, s) ==
    /\ pool.stage[c] = "unsent"
    /\ api' = [api EXCEPT ![c] = method]
    /\ target' = [target EXCEPT ![c] = s]
    /\ UNCHANGED <<sessionId, exited, listening, held, stopping, historyVars>>

\* startSession and createSession up to their first await
StartSession(c) ==
    /\ Invoke(c, "startSession", None)
    /\ pool' \in Admit(pool, c)
    /\ UNCHANGED status

\* resumeSession on pool p: no process, a terminated one, or one that gets the
\* message at once, after a change of its thinking mode, or after a restart
ResumeFrom(p, c, s) ==
    LET w == p.sessionToProcess[s] IN
    \/ /\ w \notin p.workers
       /\ pool' \in AdmitResume(p, c, s)
       /\ UNCHANGED status
    \/ /\ w \in p.workers /\ status[w] = "terminated"
       /\ pool' \in AdmitResume(Unregister(p, w), c, s)
       /\ UNCHANGED status
    \/ /\ w \in p.workers /\ status[w] # "terminated"
       /\ \/ SendTo(p, c, w)
          \/ /\ pool' = [p EXCEPT !.stage[c] = "resume:toggle", !.awaits[c] = w]
             /\ UNCHANGED status
          \/ pool' = AbortFor(p, c, w, "resume:abort") /\ UNCHANGED status

ResumeSession(c, s) ==
    /\ Nameable(s) /\ Invoke(c, "resumeSession", s)
    /\ ResumeFrom(pool, c, s)

\* resumeSession goes on after setMaxThinkingTokens.
ResumeToggled(c) ==
    LET w == pool.awaits[c] IN
    /\ pool.stage[c] = "resume:toggle"
    /\ IF status[w] # "terminated"
       THEN SendTo(pool, c, w)
       ELSE pool' \in AdmitResume(pool, c, target[c]) /\ UNCHANGED status
    /\ UNCHANGED <<sessionId, exited, listening, held, callVars>>

\* resumeSession goes on after the abort of a restart: unless the process has
\* terminated, the message goes to the very process that was aborted.
ResumeAborted(c) ==
    LET w == pool.awaits[c]
        p == AbortReturned(pool, w) IN
    /\ pool.stage[c] = "resume:abort"
    /\ listening' = listening \ {w}
    /\ IF status[w] # "terminated"
       THEN SendTo(p, c, w)
       ELSE pool' \in AdmitResume(p, c, target[c]) /\ UNCHANGED status
    /\ UNCHANGED <<sessionId, exited, held, callVars>>

QueueMessageToSession(c, s) ==
    LET w == pool.sessionToProcess[s] IN
    /\ Nameable(s) /\ Invoke(c, "queueMessageToSession", s)
    /\ IF w \notin pool.workers \/ status[w] = "terminated"
       THEN pool' = Answered(pool, c, "refused") /\ UNCHANGED status
       ELSE \/ SendTo(pool, c, w)
            \/ /\ pool' = [pool EXCEPT !.stage[c] = "queue:toggle", !.awaits[c] = w]
               /\ UNCHANGED status
            \/ pool' = AbortFor(pool, c, w, "queue:abort") /\ UNCHANGED status

\* queueMessageToSession goes on after setMaxThinkingTokens.
QueueMessageToggled(c) ==
    LET w == pool.awaits[c] IN
    /\ pool.stage[c] = "queue:toggle"
    /\ IF status[w] # "terminated"
       THEN SendTo(pool, c, w)
       ELSE pool' = Answered(pool, c, "refused") /\ UNCHANGED status
    /\ UNCHANGED <<sessionId, exited, listening, held, callVars>>

\* queueMessageToSession goes on after its abort: it calls resumeSession.
QueueMessageAborted(c) ==
    LET w == pool.awaits[c] IN
    /\ pool.stage[c] = "queue:abort"
    /\ listening' = listening \ {w}
    /\ ResumeFrom(AbortReturned(pool, w), c, target[c])
    /\ UNCHANGED <<sessionId, exited, held, callVars>>

\* preemptWorker has returned: the call starts its session.
Preempted(c) ==
    LET w == pool.awaits[c] IN
    /\ pool.stage[c] = "preempt"
    /\ listening' = listening \ {w}
    /\ pool' = Starts(AbortReturned(pool, w), c)
    /\ UNCHANGED <<sessionId, turnVars, exited, callVars>>

\* abortProcess, up to the await of abort()
AbortProcess(w) ==
    /\ w \in pool.workers /\ w \notin stopping
    /\ stopping' = stopping \cup {w}
    /\ pool' = [pool EXCEPT !.killed = @ \cup {w}, !.idleTimer = @ \ {w}]
    /\ UNCHANGED <<processVars, api, target, historyVars>>

AbortProcessReturns(w) ==
    /\ w \in stopping
    /\ stopping' = stopping \ {w}
    /\ pool' = AbortReturned(pool, w)
    /\ listening' = listening \ {w}
    /\ UNCHANGED <<sessionId, turnVars, exited, api, target, historyVars>>

\* broken: the request stays in the queue
CancelKeepingRequest(p, c) == p.queue

\* The queue without the request of call c
Splice(p, c) == Filter(p.queue, c)

\* cancelQueuedRequest
CancelQueuedRequest(c) ==
    /\ pool.stage[c] = "queued"
    /\ pool' = [pool EXCEPT !.queue = Splice(pool, c), !.stage[c] = "cancelled"]
    /\ UNCHANGED <<processVars, callVars>>

-----------------------------------------------------------------------------
(* Starting a session                                                      *)

\* An id nothing here has met
Unused(s) ==
    /\ pool.sessionToProcess[s] = None /\ pool.owner[s] = None
    /\ s \notin contested \cup late
    /\ \A c \in Calls : sessionId[c] # s /\ target[c] # s

\* History: process w takes the id s, which another worker may go by.
Takes(w, s) ==
    contested' = IF \E v \in pool.workers \ {w} : sessionId[v] = s
                 THEN contested \cup {s} ELSE contested

\* The process of call c enters the pool p under session s; processQueue goes
\* on if it started the process.
Registered(p, c, s) ==
    LET q == [p EXCEPT !.workers = @ \cup {c},
                       !.sessionToProcess[s] = c, !.owner[s] = c,
                       !.stage[c] = "done",
                       !.answer[c] = IF c \in p.dequeued THEN @ ELSE c,
                       !.dequeued = @ \ {c}]
    IN IF c \in p.dequeued THEN ProcessQueue(q) ELSE q

\* activeProvider.startSession has returned.  A resumed session is registered
\* at once; a new one waits under a temporary id for its real id.
ProviderStarts(c, s) ==
    /\ pool.stage[c] = "starting"
    /\ IF target[c] = None
       THEN /\ Unused(s)
            /\ pool' = [pool EXCEPT !.stage[c] = "naming"]
            /\ UNCHANGED <<listening, contested>>
       ELSE /\ s = target[c]
            /\ pool' = Registered(pool, c, s)
            /\ listening' = listening \cup {c}
            /\ Takes(c, s)
    /\ sessionId' = [sessionId EXCEPT ![c] = s]
    /\ status' = [status EXCEPT ![c] = "in-turn"]
    /\ UNCHANGED <<exited, held, api, target, stopping, late>>

\* activeProvider.startSession has thrown; processQueue catches the error and
\* goes on, an API call fails.
ProviderFails(c) ==
    /\ pool.stage[c] = "starting"
    /\ pool' = IF c \in pool.dequeued
               THEN ProcessQueue([pool EXCEPT !.stage[c] = "done", !.dequeued = @ \ {c}])
               ELSE Answered(pool, c, "failed")
    /\ UNCHANGED <<processVars, callVars>>

\* waitForSessionId has returned: with the id, or on its timeout, which may
\* elapse at any time.  Nothing asks whether the process still runs.
NewSessionRegisters(c) ==
    /\ pool.stage[c] = "naming"
    /\ pool' = Registered(pool, c, sessionId[c])
    /\ listening' = listening \cup {c}
    /\ Takes(c, sessionId[c])
    /\ UNCHANGED <<sessionId, turnVars, exited, api, target, stopping, late>>

-----------------------------------------------------------------------------
(* Processes (see module Process), as far as the Supervisor can tell       *)

\* The Supervisor can still notice what becomes of the process.
Observed(w) ==
    \/ pool.stage[w] = "naming" \/ w \in listening \/ w \in stopping
    \/ \E c \in Calls : pool.awaits[c] = w

\* What an unobserved process does makes no difference and is left out.
Alive(w) == status[w] # "none" /\ w \notin exited /\ Observed(w)

\* broken: the new id is announced and not mapped
IdAnnounced(w, s) ==
    /\ pool' = [pool EXCEPT !.owner[s] = w]
    /\ Takes(w, s)
    /\ late' = IF w \in pool.workers THEN late ELSE late \cup {s}

\* The Supervisor's listener maps the new id too and announces its owner,
\* whether or not the process is still in the pool.
IdChanged(w, s) ==
    /\ pool' = [pool EXCEPT !.sessionToProcess[s] = w, !.owner[s] = w]
    /\ Takes(w, s)
    /\ late' = IF w \in pool.workers THEN late ELSE late \cup {s}

\* An init message of the SDK with another session id than the process has: a
\* new session gets its real id, and any may change it, at any time: to an id
\* the agent makes up, the one it resumed, or one it had before.
SessionIdReported(w, s) ==
    /\ Alive(w) /\ Nameable(s)
    /\ Unused(s) \/ s = target[w] \/ pool.sessionToProcess[s] = w
    /\ s # sessionId[w]
    /\ sessionId' = [sessionId EXCEPT ![w] = s]
    /\ IF w \in listening
       THEN IdChanged(w, s)
       ELSE UNCHANGED <<pool, historyVars>>
    /\ UNCHANGED <<turnVars, exited, listening, api, target, stopping>>

\* The pool p once the process is in state t, entered through setState
Enters(p, w, t) == IF t = "idle" THEN [p EXCEPT !.idleTimer = @ \cup {w}] ELSE p

\* A turn asks for input, goes on, or ends (during a hold, too).  A process
\* that is idle, its timer armed, asks for input while it works on a message
\* it received during the turn before.
TurnProceeds(w, t) ==
    /\ Alive(w)
    /\ \/ status[w] = "in-turn" /\ t \in {"waiting-input", "idle"}
       \/ status[w] = "waiting-input" /\ t \in {"in-turn", "idle"}
       \/ status[w] = "idle" /\ t = "waiting-input"
    /\ status' = [status EXCEPT ![w] = t]
    /\ pool' = Enters(pool, w, t)
    /\ UNCHANGED <<sessionId, exited, listening, held, callVars>>

\* setHold(true), on any process in the pool, a terminated one too
Hold(w) ==
    /\ w \in pool.workers /\ w \notin held
    /\ held' = held \cup {w}
    /\ status' = [status EXCEPT ![w] = "waiting-input"]
    /\ pool' = [pool EXCEPT !.idleTimer = @ \ {w}]
    /\ UNCHANGED <<sessionId, exited, listening, callVars>>

\* setHold(false): in-turn, or idle if the stream has ended
Unhold(w, t) ==
    /\ w \in pool.workers /\ w \in held
    /\ t = "in-turn" \/ (t = "idle" /\ w \in exited)
    /\ held' = held \ {w}
    /\ status' = [status EXCEPT ![w] = t]
    /\ pool' = Enters(pool, w, t)
    /\ UNCHANGED <<sessionId, exited, listening, callVars>>

\* The agent's stream ends: the process goes idle, a terminated one too, unless
\* it waits for input.
StreamEnds(w) ==
    /\ Alive(w)
    /\ exited' = exited \cup {w}
    /\ \/ /\ status[w] = "waiting-input"
          /\ UNCHANGED <<status, pool>>
       \/ /\ status[w] # "waiting-input" \/ w \in held
          /\ status' = [status EXCEPT ![w] = "idle"]
          /\ pool' = Enters(pool, w, "idle")
    /\ UNCHANGED <<sessionId, listening, held, callVars>>

\* "complete" reaches the Supervisor if it listens.
Completes(p, w) == IF w \in listening THEN Unregister(p, w) ELSE p

\* The agent process is lost.
Crashes(w) ==
    /\ Alive(w) /\ status[w] # "terminated"
    /\ exited' = exited \cup {w}
    /\ status' = [status EXCEPT ![w] = "terminated"]
    /\ pool' = Completes([pool EXCEPT !.idleTimer = @ \ {w}], w)
    /\ held' = held \ {w}
    /\ UNCHANGED <<sessionId, listening, callVars>>

\* One process of the sweep terminateStaleProcesses makes
TerminateStaleProcess(w) ==
    /\ w \in pool.workers /\ status[w] = "in-turn" /\ w \notin held
    /\ status' = [status EXCEPT ![w] = "terminated"]
    /\ pool' = Completes([pool EXCEPT !.killed = @ \cup {w}, !.idleTimer = @ \ {w}], w)
    /\ UNCHANGED <<sessionId, exited, listening, held, callVars>>

IdleTimerFires(w) ==
    /\ w \in pool.idleTimer
    /\ pool' = Completes([pool EXCEPT !.idleTimer = @ \ {w}], w)
    /\ UNCHANGED <<processVars, callVars>>

-----------------------------------------------------------------------------

\* A suspended handler goes on.
Continue(c) ==
    \/ ResumeToggled(c) \/ ResumeAborted(c)
    \/ QueueMessageToggled(c) \/ QueueMessageAborted(c)
    \/ Preempted(c)
    \/ \E s \in Sessions : ProviderStarts(c, s)
    \/ ProviderFails(c) \/ NewSessionRegisters(c)

Api ==
    \E c \in Calls :
        \/ StartSession(c)
        \/ \E s \in Sessions : ResumeSession(c, s) \/ QueueMessageToSession(c, s)
        \/ AbortProcess(c) \/ AbortProcessReturns(c) \/ CancelQueuedRequest(c)
        \/ Continue(c)

Agents ==
    \E w \in Calls :
        \/ \E s \in Sessions : SessionIdReported(w, s)
        \/ \E t \in {"in-turn", "waiting-input", "idle"} :
              TurnProceeds(w, t) \/ Unhold(w, t)
        \/ Hold(w)
        \/ StreamEnds(w) \/ Crashes(w) \/ TerminateStaleProcess(w) \/ IdleTimerFires(w)

Next == Api \/ Agents

Spec == Init /\ [][Next]_vars

\* abort(), setMaxThinkingTokens and waitForSessionId return (the first and
\* the last have timeouts), and a provider starts or fails.
Fairness ==
    \A c \in Calls : WF_vars(Continue(c)) /\ WF_vars(AbortProcessReturns(c))

FairSpec == Spec /\ Fairness

-----------------------------------------------------------------------------
(* Invariants                                                              *)

Pools ==
    [workers : SUBSET Calls,
     sessionToProcess : [Sessions -> Calls \cup {None}],
     owner : [Sessions -> Calls \cup {None}],
     queue : Seq(Calls),
     dequeued : SUBSET Calls, killed : SUBSET Calls, idleTimer : SUBSET Calls,
     stage : [Calls -> Stages], answer : [Calls -> Answers],
     awaits : [Calls -> Calls \cup {None}]]

AwaitingStages == {"resume:toggle", "resume:abort", "queue:toggle", "queue:abort", "preempt"}

\* Types: each field of the pool, the calls and the processes stay in their
\* sets, and a handler that waits for a process knows which one.
TypeOK ==
    /\ pool \in Pools
    /\ \A c \in Calls : pool.stage[c] \in AwaitingStages => pool.awaits[c] \in Calls
    /\ api \in [Calls -> Apis] /\ target \in [Calls -> Sessions \cup {None}]
    /\ sessionId \in [Calls -> Sessions \cup {None}]
    /\ status \in [Calls -> Statuses]
    /\ exited \subseteq Calls /\ held \subseteq Calls
    /\ listening \subseteq Calls /\ stopping \subseteq Calls
    /\ contested \subseteq Sessions /\ late \subseteq Sessions

Queued == ElementsOf(pool.queue)

\* A call waits in the queue once, and exactly while it is to be started: the
\* loops of processQueue that run side by side start no request twice and lose
\* none, and neither does cancel().
QueueExact ==
    /\ \A c \in Calls : pool.stage[c] = "queued" <=> c \in Queued
    /\ Distinct(pool.queue)

\* The queue is never forgotten: while a request waits, every worker is taken
\* or a loop of processQueue is starting a session and will look again.
QueueServed ==
    pool.queue # <<>> =>
        AtCapacity(pool) \/ pool.dequeued # {}

\* Two requests in the queue are never for the same session.
OneQueuedPerSession ==
    \A c, d \in Queued : target[c] # None /\ target[c] = target[d] => c = d

\* A session that leads to a process leads to a worker: unregisterProcess leaves
\* no mapping to a process it removed.  Only the report of a new id by a process
\* that has left the pool, and is still listened to, makes one again.
MappedToWorker ==
    \A s \in Sessions :
        LET w == pool.sessionToProcess[s] IN
        w # None => w \in pool.workers \/ s \in late

\* A worker can be reached under the id it goes by, unless another process took
\* that id while this one was in the pool (two overlapping resumes).
WorkerReachable ==
    \A w \in pool.workers :
        pool.sessionToProcess[sessionId[w]] = w \/ sessionId[w] \in contested

\* A session announced as run by a worker leads to that very worker, under its
\* present id and under the ids it had before.
OwnedIsMapped ==
    \A s \in Sessions :
        LET w == pool.owner[s] IN
        w \in pool.workers => pool.sessionToProcess[s] = w

\* The session map and the announced owners follow the pool, whichever of several
\* processes of a session ends or is aborted, and however often any changes its id.
SessionsFollowPool == MappedToWorker /\ WorkerReachable /\ OwnedIsMapped

\* The Supervisor listens to every process in the pool, so none completes unnoticed
\* once it is registered: abort(), which drops the listeners, never leaves its
\* process in.
WorkersListenedTo == pool.workers \subseteq listening

-----------------------------------------------------------------------------
(* Action properties                                                       *)

\* A queue request is either cancelled or started: a cancelled one stays
\* cancelled (docs/tasks/archive/saferestart.md, "Race between queue cancel and
\* start").
CancelledStays ==
    [][\A c \in Calls :
          pool.stage[c] = "cancelled" => pool'.stage[c] = "cancelled"]_vars

-----------------------------------------------------------------------------
(* Refinement                                                              *)

PhaseOf(stage) ==
    CASE stage = "queued" -> "waiting"
      [] stage = "cancelled" -> "cancelled"
      [] stage \in {"starting", "naming", "done"} -> "answered"
      [] OTHER -> "new"

Line == INSTANCE WorkQueue WITH
            line  <- pool.queue,
            phase <- [c \in Calls |-> PhaseOf(pool.stage[c])]

\* The pool keeps the promise of its queue: requests are started in the order in
\* which they were queued, each once, and a cancelled one never, whichever of the
\* loops of processQueue gets to them and whatever is cancelled or joins meanwhile
\* (saferestart.md, "Race between queue cancel and start").
ImplementsWorkQueue == Line!Spec

-----------------------------------------------------------------------------
(* Liveness, under FairSpec                                                *)

\* A worker somebody aborts leaves the pool and gives its place to the queue.
KilledLeaves == \A w \in Calls : w \in pool.killed ~> w \notin pool.workers

==============================================================================
