# A formal model of the agent server, its relay and its clients' connections

This directory holds TLA+ modules that model the core of the repository: the
life of an agent process in the server, the pool that starts and stops such
processes, the relay through which phones reach a server at home, the
connections between client, relay and server, and how a conversation is read from
its file and shown.  TLC checks the modules on small
instances (`MC*.tla`, `*.cfg`), and TLAPS proves the most important invariants
for every value of the constants (`*Proofs.tla`).  Paths below are relative to
`packages/` unless they start with `docs/`.

## The system

The repository is a TypeScript monorepo.  A server supervises AI coding agents
(Claude, Codex, Gemini, OpenCode) that run as child processes, and serves a
web client.  A phone reaches the server directly, or through a relay with an
encrypted channel.

| Part | State it keeps | Operations | Modelled |
|---|---|---|---|
| Agent process (`server/src/supervisor/Process.ts`, `sdk/messageQueue.ts`) | state type, pending approvals, message queue, deferred messages, hold, idle timer | queue, defer, steer, hold, answer an approval, abort, terminate; loop over the agent's messages | `Process` |
| Supervisor (`supervisor/Supervisor.ts`, `WorkerQueue.ts`) | processes, session map, queue of requests | start, resume, message, abort, preempt, cancel, sweep | `Supervisor`, `WorkQueue` |
| Relay (`relay/src`) | waiting servers, pairs, username registry | register, connect, forward, keepalive, close | `Relay` |
| Relay client (`server/src/services/RelayClientService.ts`) | connecting and waiting socket, backoff timer, keepalive | start, stop, registration, claim, reconnect | `RelayClient`, `RemoteAccess` |
| Client connection manager (`client/src/lib/connection/ConnectionManager.ts`) | connection state, attempts, timers | start, stop, close, error, force, visibility | `ConnectionManager` |
| Client connection stack (`client/src/lib/activityBus.ts`, `connection/RelayProtocol.ts`, `WebSocketConnection.ts`) | sockets, subscriptions | subscribe, reconnect, resubscribe | `ClientConnection` |
| Secure sessions (`connection/SecureConnection.ts`, `server/src/routes/ws-srp-handlers.ts`) | handshake state, keys, stored session | handshake, resumption, forced reconnect | `SecureConnection` |
| Server connections (`server/src/routes/ws-relay.ts`, `ws-relay-handlers.ts`, `uploads/manager.ts`) | message queue, subscriptions, uploads | request, subscribe, upload, cleanup | `ServerConnection` |
| External session tracker (`supervisor/ExternalSessionTracker.ts`, `watcher/BatchProcessor.ts`) | external sessions, aborted sessions, pending reads | file change, decay, abort, batch | `ExternalSessionTracker` |
| Session reading (`server/src/sessions/dag.ts`, `normalization.ts`, `reader.ts`), message merging (`client/src/lib/mergeMessages.ts`, `shared/src/dag.ts`) | pure functions over message lists | active branch, results beside it, incremental read, merge, reorder | `Conversation` |
| Session page (`client/src/hooks/useSession.ts`, `useSessionMessages.ts`, `useSessionWatchStream.ts`) and the watchers behind it (`server/src/watcher/FileWatcher.ts`, `FocusedSessionWatchManager.ts`) | messages shown, cursor, throttle; known size, debounce timer | load, fetch, notice, subscribe, catch up | `SessionView` |
| Index, metadata stores, push | caches and JSON files | see `PROJECT.json` | no |
| Device bridge, desktop and mobile shells, user interface | | | no |

`PROJECT.json` lists every component with its sources and status, and every
hazard with its line.

### How the parts interact

A session route looks a process up in the Supervisor and calls it.  The
Supervisor creates a process through a provider, subscribes to it and listens
for `complete` and `session-id-changed`; a process never calls the Supervisor
in any other way.  The agent SDK pulls messages from `MessageQueue` through a
generator, calls `handleToolApproval` and awaits the promise it returns, and
yields messages that the loop of the process reads.

The relay knows no more of the server than a WebSocket that registers a
username.  The server's relay client keeps one socket waiting there and hands it
to the server's connection handlers when the first data of a phone arrives.  A
phone runs the handshake of `SecureConnection` on its socket, and the server
answers in the order of the connection's message queue.  In the web client the
activity bus subscribes through `RelayProtocol` and leaves it to the connection
manager to decide when the transport reconnects.  The tracker hears of file
changes and aborts on the event bus and asks the Supervisor who owns a session.
A page that shows a session another program works on hears of changes twice, from
the watcher of the directory and from one of that file, fetches what follows the
last message it knows, and merges the answer.

Everything runs on event loops, so the interleavings are those between awaits: a
handler suspended in `await` resumes in a state that other handlers have
changed; and those of messages between the loops.

### What is hard here

* Handlers that look something up, await, and act on it: the routes that await
  a request body, `resumeSession` and `queueMessageToSession` that await an
  abort, a session start that awaits the agent's session id, the Codex handler
  that reads a file after asking who owns it.
* Approvals of parallel tool calls, answered by several clients, aborted by the
  agent, and denied by termination.
* Steering and deferral, which move a message between three queues while turns
  end and the agent exits.
* Loops of `processQueue` that run side by side, unawaited, over one queue.
* The gap between calling `close()` or `abort()` and the event that says it
  happened, with a timeout on the way.
* Sockets that were replaced and still deliver messages and close events.
* Attempts that were superseded and settle later.
* A cleanup that runs beside the queue of handlers it cleans up after.
* What a restart of the relay loses and keeps.
* An incremental fetch, in which the server sees a part of a branching conversation
  only and the client puts the parts together; a cursor that moves with renders, a
  throttle, and a watch that is subscribed anew, between a change and its fetch.

### What makes each part correct

*Process*: an approval is answered exactly once; no message the server accepted
is lost or delivered twice; a request that was answered is not shown any more, and
the first of those that wait is; a killed process ends its loop.
*Supervisor*: a queued request is started once and in order or cancelled, never
forgotten; every worker is listened to; sessions lead to living processes; an
aborted worker leaves.
*Relay*: its four maps agree and forget a closed socket; a connection talks to
one peer in its life; a username is served by its owner only; the late close of
a replaced connection does no harm; both ends of a pair end together.
*Relay client*: while enabled it has a timer or a live socket, its keepalive
watches the waiting socket, and it comes back to waiting.
*Connection manager and stack*: reconnecting means that something is under way;
connected means that the bus will hear of the end; the stream comes back.
*Secure sessions*: both ends have the same key; a valid session is not given up as
refused; the connect that calls wait for settles.
*Server connections*: a file reported complete is whole; an upload fails for a
cause; nothing is left behind.
*Tracker*: an aborted session is not taken for another program's; every change
is read.
*Session page*: a load brings every result of the active branch; a fetch keeps
parents before children and loses nothing; the latest message is shown in the end.

## Modules

Each action is one uninterrupted run of the event loop.  Names follow the
source.  `PROJECT.json` maps each definition to the lines it stands for.

| Module | Composes or implements |
|---|---|
| `Process`, `Supervisor`, `Relay`, `SecureConnection`, `ServerConnection`, `ExternalSessionTracker` | on their own, `Queues` for operations on queues |
| `WorkQueue` | abstract; implemented by `Supervisor` |
| `RelayClient` | the client at any relay; implemented by `RemoteAccess` |
| `RemoteAccess` | `RelayClient` with `Relay` |
| `ConnectionManager` | the manager with any consumer; implemented by `ClientConnection` |
| `ClientConnection` | `ConnectionManager` with bus, protocol and sockets |
| `Conversation` | pure operators on session files |
| `SessionView` | `Conversation` with the file, two watchers, the server and a page |

**Process.**  The variables of the first block are fields of `Process`, the
second those of `MessageQueue`, then what the routes and the Supervisor know,
and last the agent as environment.  `loop` says where `processMessages()` is
suspended: in `iterator.next()`, in a hold, or gone.  `outcome` is what the
promise of each approval resolved to, which the code keeps only in the closure.

| Actions | Code |
|---|---|
| `RouteMessage`, then `RouteQueueMessage`, `RouteDeferMessage` or `RouteRefuse` | `POST /messages` before and after its `await`, `queueMessage`, `deferMessage` |
| `SteerSettles` | the promise of `steerFn` |
| `RouteInput`, then `RespondPending`, `RespondWithFeedback`, `RespondSettled` | `POST /input`, `respondToInput` |
| `Hold`, `Unhold`, `Terminate`, `Abort`, `AbortReturns`, `IdleTimerFires` | the methods of those names |
| actions of the loop and of the SDK | `processMessages`, `handleToolApproval`, its abort handler, the generator |

**Supervisor.**  `pool` is a record of what one run of the Supervisor changes,
and operators map a pool to a pool, since handlers compose them:
`unregisterProcess` runs `processQueue`, `abort()` runs the listener, which
unregisters.  A call starts at most one process, so the call names it.  `stage`
says where the call's handler is suspended.  The process is reduced to what the
Supervisor looks at: its state, hold and idle timer, and the id it reports, again and
again, at each init message with another id (`SessionIdReported`).  It may complete
before the Supervisor registers it.  Its own behaviour is in `Process`, which begins
with a registered process.  Two histories mark what the code mixes up: an id that a
process took while another worker went by it (`contested`), and one that a process
reported after it had left the pool (`late`).

**WorkQueue.**  What the queue promises whatever the pool does: requests stand
in one line, join it at its end, leave it from its front or by being cancelled,
and never come back.  The mapping takes the line from `pool.queue` and the phase
of a call from its stage (`PhaseOf`).  Requests leave in groups because one run
of the Supervisor may take several.

**Relay.**  The maps of the relay's `ConnectionManager`, the rows of the
registry, the connection state of the WebSocket handler, and the life of each
socket: `connecting`, `open`, `joined` (its one protocol message was handled),
then `closing` (the relay called `close()`, and messages still arrive) or
`leaving` (the peer closed), then `closed`.  `heard` is a history of whose data
was forwarded to whom.

**RelayClient, RemoteAccess.**  `RelayClient` leaves it open what the relay
sends and when sockets open and close; every handler is one action, and sockets
that were closed or replaced keep their handlers until the hand-off.
`RemoteAccess` puts the relay on the other side: `inbox` holds what the relay
sent and has not arrived, a close by one side reaches the other later,
connections break, and peers vanish without a packet.

**ConnectionManager, ClientConnection.**  Every method of the manager is
synchronous and maps the record `cm` to a new one; `inFlight` are the promises
of `reconnectFn` that have not settled.  In `ConnectionManager` consumers call
any method at any time.  `ClientConnection` has the real consumer: a socket event
runs its handler and the promise continuations it releases; a call of
`reconnectFn` opens a socket, and its promise is named by it.  `sentOn` is a history:
the socket on which the subscribe message of the bus's present subscription went out.

**SecureConnection.**  The client's fields exist once for all its sockets, and
so they do in the model; the handlers of each socket read and write them.
Proofs tell which challenge they answer, and a key is a pair of nonce and
session.  The server's connection state exists per socket (`srv`).  `ForceReconnect`
has no guard, as in the code: it comes at any moment of any connect.  What a
handler awaits (`generateHello`, `processChallenge`, `verifyServer`) is a member of
`computing` until `HelloReady`, `ProofReady` or `ServerVerified` go on, with the
socket and the SRP session the connection has by then; `own` says whether that is
still the session the computation belongs to.  The client cannot tell why the
server says `srp_invalid`; the model can (`why`): the session is refused, the proof
came too late for its challenge (`ws-srp-handlers.ts:379`), or there was an error
(`:337`, `:439`).  `crossed` is a history: a connect was begun while another socket
that keeps its handlers was connecting or open, or while a handler still verified a
server.

**ServerConnection.**  The chain of promises that serialises the messages of a
connection is `messageQueue` and the handler that is `running`; the close event
and the steps of the cleanup come in between.  A chunk counts one, a file is the
sequence of its chunks.

**ExternalSessionTracker.**  The tables of the tracker, its batch processor, and
of the Supervisor the set of sessions with a process.  A file has a version that
every write advances.  Ownership events wait for a look at the projects
(`announcing`); `shown` is what a browser was told last.

**Conversation.**  A file is a sequence of lines, and a line is known by its
position.  Every operator takes the file and the set of lines that were read, so
that an incremental read, `getSession` with `afterMessageId`, is the same function
of fewer lines.  The two walks of `dag.ts` from a tip to its root differ in when
they fall back on the line before (`NextMeasured`, `NextCollected`).  What the code
walks or visits recursively is a recursive function here, and what it collects in
order is a list in closed form (`Ascending`, `AtPlaces`), so that both can be proved
about.

**SessionView.**  The program writes what Claude Code can write (`NextLines`): a
message continues any line that is no call, calls made together continue each
other, a result continues its call, a compaction begins anew.  An answer depends on
the file when it was read, so a request remembers how long that was.  `notices` are
the events of the two watchers on their way.  `Renders` runs the effects of a
render, which moves the cursor and, as the target is a new object each time,
subscribes the focused watch anew.  `InOrder` says whether requests wait for each
other, as on a WebSocket, or not, as over HTTP.  `FileSpec` is the program alone.

## Runs

Every bound is in the `.cfg` of the run.

| Run | Instance | Shows |
|---|---|---|
| `process` | 2 messages, 2 approvals, a provider that steers | approvals, delivery, order of approvals, no settled request stays shown but one that its agent gave up, the loop ends after a kill |
| `supervisor_queue` | 3 calls, 2 sessions, 1 worker, 2 queue places, at most 2 processes exit and 1 is killed and none is held (`FewEnds`) | the queue under every interleaving of its loops, and the refinement of `WorkQueue` |
| `supervisor_sessions` | 2 calls, 2 session ids, 1 worker, 1 process held, 1 exit, 1 kill, 1 late id, and no more than 2 holds, exits, contested and late ids in all (`FewTurns`) | session map, owners and listeners under ids that change any number of times; aborted workers leave |
| `relay` | 3 sockets, 1 username, 2 installations | the relay's tables, ownership and isolation; pairs end together, vanished servers are dropped |
| `remote_access` | 2 sockets of the server, 1 phone | the server is never stranded and comes back to waiting |
| `client_connection` | 2 sockets, 3 subscriptions, 2 attempts | the refinement of the manager, no deaf bus, the stream comes back |
| `secure_connection` | 2 sockets, a session of before and one per socket, up to the first state in which two connects go on side by side (`Uncrossed`) | keys agree, no valid session is given up as refused, the connect that calls wait for settles |
| `server_connection` | 2 uploads of up to 2 chunks, 1 subscription, 2 messages under way (`MaxQueue`), both policies | complete files are whole, failures have a cause, ends are answered, a secure connection leaves nothing behind |
| `external_sessions` | 1 Claude and 1 Codex session, 2 and 1 writes (`MCMaxWrites`), chunks of 1, 1 pending event (`MaxLooks`) | aborted sessions are not external, every change is read |
| `session_file` | every file of up to 5 lines, with equal and different timestamps, loaded at every length, then fetched once | loads are complete, merges keep order and messages |
| `session_view` | 3 messages, 3 requests under way, 2 events of each watcher (`MaxNotices`), 2 losses of the connection, requests in order | the latest message is shown, also by the focused watch alone |
| `parallel_results` | files of up to 5 lines | see "Where the code and its documentation disagree" |

The bounds are the smallest that let each interesting case happen: two
approvals so that one waits behind another, two messages so that one is queued
behind one that steers, three calls so that one runs, one is queued and a
third frees the place or cancels, two sessions so that two requests for one
session can meet in the queue behind a worker of the other, and an id be taken that
another process goes by or has left, three sockets at the
relay so that a server is paired or replaced while another connects, two sockets
of a client so that the late events of one meet the other, two uploads so that
they interleave, two chunks so that order matters, two writes so that one
comes while the other is being read, five lines so that two calls made together
get their results and the conversation forks or is compacted, and three requests so
that a load, a fetch and the fetch of a reconnect are under way together.  Every message, approval, call, socket and
session id is used once or freed by the code, which bounds the runs without a
counter.  The bounds beside that are `FewEnds` and `FewTurns`, state constraints of
the two runs of `Supervisor`, whose invariants and refinement are proved without
them; `Uncrossed`, which cuts off states of which no property of its run says
anything, and which cannot be left again;
`MaxAttempts`, which is the code's own; `MaxQueue`, `MaxWrites` and `MaxLooks`,
which limit what the environment sends or writes; and those of `SessionView`, of
which `MaxRequests` and `MaxNotices` make events wait.  Symmetry is used in
`supervisor_queue` only, which has no liveness property.

Deadlock is not checked: calls, messages and sockets are finite, so a behaviour
may come to its natural end.  That nobody waits for ever is what the liveness
properties show.

### Fairness

Weak fairness is assumed of what the code or its runtime promises: a timer that
was armed fires, a suspended handler goes on once its promise settles, an agent
that was killed ends its stream,
a WebSocket that is closing closes, relay and server handle what has arrived, a
read of a file or a write to disk ends, with or without success, a watched file is
looked at again (it is polled), a render runs its effects.  No fairness is
assumed of users, of clients, of phones or of an agent that works, nor of
failures.

Strong fairness is assumed once, in `ClientFairness`, of the server's first
answer to a subscription: a network that lets sockets open again and again does
not break each of them before that answer.  Without it no client could promise
that the stream comes back.

`ServerComesBack` and `StreamComes` name the ways out they allow.  An instance
may run out of sockets (`OutOfSockets`): every socket was opened, and the client
holds none, so a break of the first socket must still lead the second one back to
waiting.  `AnswerLost`: no timer of the relay
client watches a socket that is registering, so an answer lost with the network
is waited for without end.  `PhoneSilent`: a paired phone that never sends keeps
the server on its socket.  `DiedUnheard`: the staleness check of the manager needs
a first heartbeat.  `NewestShown` and `ChangeShown` hold of a page none of whose
requests failed (`failed`), since a failed fetch is not made up for, and
`NewestShown` assumes fairness of the directory watcher, which the focused watch
does without.  `ConnectSettles` assumes only that the timeout of each connect
(`SecureConnection.ts:737`) fires; neither server nor network owe anything.

### Mutants

Each property of a passing run has a mutant: a broken variant of one definition,
such as `DequeuePeeking` or `ActiveKeepingReplaced`, which stands in the module
before the definition it replaces.  With it in place the property fails.

## Where the code and its documentation disagree

One run expects a violation.  It checks a statement of a comment which the code does
not keep; `PROJECT.json` quotes it.

* `ResultsFetched` (`server/src/sessions/reader.ts:338`): lines the client has are
  dropped before results beside the active branch are looked for.  When two calls
  made together are shown before their results, the next fetch brings the last result
  only, and the other call stays without one until the page is loaded again.

The models show more behaviour of this kind, which no run states; the lines are
where it begins.

In the server's processes and pool (`server/src/supervisor`):

* `Process.ts:1248`: the abort of a request that became the first one later
  leaves it shown.  `ShownIsPending` allows for that and nothing else.
* `Process.ts:571`: releasing a hold sets the state to in-turn while approvals
  are pending.
* `Process.ts:1637`: a process whose idle timer was armed by the end of one turn
  is unregistered while it works on the next message.
* `Process.ts:1264`: a process that waits for an approval keeps an idle timer
  that was armed before.
* `Process.ts:1459`: a process that was terminated becomes idle again when its
  stream ends.
* `Process.ts:1658`: a process removed by the idle timer is not killed.
* `Process.ts:966`: a message deferred on an idle process waits for a later turn.
* `Process.ts:1633`: the end of the stream hands a deferred message to an agent
  that has exited.
* `Process.ts:1446`: the exit of a held agent is seen only after the hold.
* `Supervisor.ts:866`, `:1605`: the limit on workers is checked before several
  awaits and the process is registered after them, so concurrent starts exceed it.
  The properties of the queue hold nevertheless.
* `Supervisor.ts:771`: two overlapping resumes start two processes for one
  session.  The map follows the later; `SessionsFollowPool` says nothing of the
  other process under that id (`contested`).
* `Supervisor.ts:839`: a restart with changed settings sends the message to the
  process it has just killed.
* `Supervisor.ts:852`: a message reported as queued is dropped when the session
  is already queued.
* `Supervisor.ts:608`, `:1203`: a process that completes while its session id is
  awaited has no listener yet: it is registered afterwards and stays listed.
* `Supervisor.ts:1036`: a message reported as failed may wait in the queue.
* `Supervisor.ts:1328`: the late end of a replaced process announces that the
  session has no owner, and the end of a process is announced for its last id
  only.
* `Supervisor.ts:1225`: an id reported after a process was unregistered maps to
  that process (`late` in `SessionsFollowPool`).
* `ExternalSessionTracker.ts:451`: a Codex session that got a process, or was
  aborted, while its file was read is marked external; two such reads announce
  its creation twice (`:508`).
* `ExternalSessionTracker.ts:603`: a session that was external and is resumed by
  the server is announced as having no owner when its file changes.
* `ExternalSessionTracker.ts:638`: ownership events wait for a lookup each, so
  they may arrive in the wrong order.

At the relay:

* `relay/src/connections.ts:152`: a client is handed to a server whose pong timed
  out and whose close event has not come.
* `relay/src/registry.ts:129`: a server that stays connected without clients
  counts as unseen and loses its username at a later start.
* `server/src/services/RelayClientService.ts:278`: a registration answer that
  comes late makes a socket the waiting one that another has replaced.
* `server/src/services/RelayClientService.ts:304`: a rejection that comes late, for
  a username given up meanwhile, disables the client and is reported of its new
  username.

In the client and its connections:

* `client/src/lib/connection/ConnectionManager.ts:509`: a ping timeout that
  outlives a close which cannot be retried starts to reconnect a manager that has
  given up.
* `client/src/lib/connection/RelayProtocol.ts:522`: a subscription that is closed
  while it waits for the connection is sent all the same and stays at the server.
* `client/src/lib/connection/WebSocketConnection.ts:225`: "tears down the current
  connection", but one that is being set up goes on, so two sockets can be open.
* `client/src/lib/connection/SecureConnection.ts:1228`: a forced reconnect detaches
  and closes `this.ws`, which a socket that is still connecting is not yet.  Then two
  sockets share one handshake state, and a client whose session is valid is told that
  it is not, or has another key than the server.  Without `~crossed` both
  `SessionKept` and `KeysAgree` fail.
* `client/src/lib/connection/SecureConnection.ts:940`: a handler that verifies a
  server goes on after a forced reconnect and reports the connection as authenticated,
  with the key of the old socket.  Without the second part of `Crosses` `KeysAgree`
  fails.
* `client/src/lib/connection/SecureConnection.ts:737`: the timeout of a connect does
  nothing when the connection is authenticated, so the callers of a connect that was
  superseded wait for ever when its successor authenticates in time.  `ConnectSettles`
  is about the connect that is not superseded.
* `server/src/routes/ws-srp-handlers.ts:337`, `:379`, `:439`: an error of the server,
  and a proof that comes late, are answered as a session that is not valid is, and a
  client without a password gives up a session that is.  `SessionKept` is about a
  session given up as refused.
* `server/src/uploads/manager.ts:238`: an upload without a chunk always fails,
  since only the first chunk creates its file.
* `server/src/routes/ws-relay.ts:305`: on a connection without encryption, messages
  that wait in the queue are handled after the cleanup, and what they start stays.

In a session and the page that shows it:

* `server/src/sessions/dag.ts:134` says that the longest branch wins; the latest
  timestamp does (`:191`).
* `server/src/sessions/normalization.ts:132`: a result beside the active branch whose
  own branch also holds a completed call is answered twice.
* `client/src/hooks/useSessionMessages.ts:310`: over HTTP a first load that is answered
  after a fetch replaces what the fetch brought.
* `client/src/hooks/useSessionMessages.ts:469`: a fetch that fails is not repeated
  until the file changes again.
* `client/src/hooks/useSession.ts:586`: the focused watch is subscribed anew by every
  render and takes the file as it is then for known; a change between the read of a
  fetch and that moment is left to the directory watcher.

## Proofs

The theorems hold for every set of messages, approvals, calls, sessions, sockets,
usernames and installations, for every limit on workers, on the queue and on
attempts, and for session files of any length.  They assume what the modules state of their constants: `None` and
`NoRequest` are no members of the sets, calls are finitely many, limits and sizes
are natural numbers.  What the proofs need to know of the operations in `Queues`
stands at the head of `ProcessProofs` and `SupervisorProofs`.

`ProcessProofs`

* `TypeCorrect`.
* `ApprovalsAlwaysConsistent`: map, queue and promises of the approvals agree.
  The invariant is inductive once types are known; the proof rests on
  `FilterElements` and `AppendDistinct`.
* `ApprovalsSettleOnce` and `TerminationAlwaysDenies` are action properties; the
  first needs that invariant, since only requests of the map are ever answered,
  the second only the types.
* `WaitingAlwaysMeansEmpty`: inductive alone.
* `ShownAlwaysPending`: from `ApprovalsConsistent`; every way to settle a request but
  the abort by its agent sets what is shown.
* `MessagesAlwaysKept`: an accepted message is in one place.  The inductive
  invariant `KeptInv` says besides that the places hold accepted messages only, and
  that a process that refuses messages has ended its iterator, so that no message
  is accepted after the queue was given up.  Messages move between places by
  appending, taking the head, filtering and concatenating, one lemma each.
* `HeadAlwaysShown`: an action property, from `ApprovalsConsistent`: a request
  that is answered leaves the queue whole, so the next one shown is its head.

`SupervisorProofs`

* `PoolTypeCorrect`, `QueueAlwaysExact`, `QueueAlwaysServed`,
  `OneAlwaysQueuedPerSession`, `WorkersAlwaysListenedTo`, `CancelledAlwaysStays`.
* Handlers compose operators on pools, and so does the proof.  `Drained(p, q)`
  says that requests left the queue, `Handled(p, q, c)` that the handler of call
  `c` decided about `c`.  Every operator is shown to be of one kind, each kind to
  keep `PoolInv`, and each action to be a composition.  `PoolInv` adds to the
  checked invariants that a suspended handler knows the process it waits for.
  `QueueServed` needs that a pool that gains a worker stays at its limit, which
  is a fact about cardinalities (`CapacityGrows`).
* `SupervisorImplementsWorkQueue`: the refinement.  Both kinds also say what
  becomes of the line: its first `k` requests are answered (`Advanced`), and then
  the call joins behind the rest or is answered itself (`Joined`).  That is the form
  of a step of `WorkQueue`, and it is closed under composition (`QueueMovesTwice`,
  `CallMovesOn`), which rests on what is behind the first `j + k` elements of a
  sequence (`BehindTwice`).
* `SessionsAlwaysFollow`: the map of sessions and the announced owners, however often
  processes change their ids.  A step forgets some processes (`Forgets`), enters one
  (`Enrols`), or a process reports its id.  `MapInv` adds to the property that only
  processes whose start is done are listened to and announced (`ListenersDone`,
  `OwnersDone`), and that whoever is in the pool, or about to be, goes by an id
  (`WorkersNamed`).  `AbortReturned` unregisters a process twice, which `ForgetsTwice`
  composes.

`RelayProofs`

* `RelayTypeCorrect`, `RelayTablesAgree`, `RelayOwnerServes`,
  `RelayPairedUnwatched`, `RelayOnePartner`, `RelayOwnerKept`,
  `RelayWaitingLeavesForCause`, and the three parts of `RelayTablesAgree`.
* The invariants about the tables are inductive together with
  `FreshIsUnused`: a socket whose protocol message is still to come occurs in no
  table.  Without it a registration could take a socket that is already paired.
* `OnePartner` speaks of the past, and needs `HeardTogether`: sockets that
  exchanged data are in the same pair or in none, and are `Spent`, that is, they
  neither wait nor can they register again.  So no later pairing reaches them.

`RelayProofs`, the relay client

* `ClientNeverStranded`, `WaitingAlwaysWatched`: of a client with any sockets that
  do not contain its `None`, at any relay (`Client!Spec`).  The
  invariant adds that a socket nobody has opened has no past (`FreshIsClean`), and
  that the connecting slot holds no registered socket and the waiting slot one
  that is (`SlotsAnswered`), so that a claim takes no socket that is connecting.
* `RemoteImplementsClient`: the composition with the relay takes only steps of
  the client, so `ServerNeverStranded` and `ServerAlwaysWatches` follow without
  an invariant of the composition.

`ClientConnectionProofs`

* `ManagerTypeCorrect`, `ManagerNeverStuck`: of the manager with any consumers.
  Each method keeps `Coherent`, that is `NeverStuck` of the record it returns.
* `ClientDrivesManager`: the client's stack refines the manager.  The invariant
  needed is `ClientInv`: promises in flight belong to sockets that are opening and
  have their handlers, and the socket in use is open and listened to, so each
  promise settles once.
* `ClientNeverStuck` follows from the two.
* `ClientNeverDeaf`: from `ClientInv` and `BusInv`, which says that the bus of a
  connected manager has a subscription, and that one it has waits for a connection
  or was sent on a socket (`sentOn`) that is open and whose end will be heard of.

`ExternalSessionTrackerProofs`

* `AbortedNeverExternal` and `DecayAlwaysArmed`, inductive together.

`ServerConnectionProofs`

* `CompleteAlwaysWhole`, `FailsOnlyForCause` and `SecureAlwaysClosesClean`, of any
  number of uploads of any size and any bound on the queue.
* The inductive invariant follows an upload through its life: not started
  (`Unstarted`), under way with as many chunks on disk as the next message in the
  queue expects (`Underway`), failed (`Erred`), complete (`DoneInv`); after the
  close, a part of a file is one the cleanup or a cancellation will remove
  (`Doomed`).  `Waiting(u, n)` is its core: the messages of
  `u` in the queue are those the client sent from the `n`-th on, in that order.

`SessionViewProofs`

* `ResultsAlwaysLoaded`, `AlwaysMergedInOrder`, of every specification that writes the
  file: with a page (`Spec`), and the program alone (`WrittenAlwaysLoaded`).
* `FileOK` is the inductive invariant (`FileAlwaysOK`): a line continues an earlier
  one, and a result its call.  The code relies on both: it looks for the results of a
  call among the lines that continue it.  All else is about the operators of
  `Conversation`, for every file that is `FileOK`.
* These are recursive functions, and the induction theorems of the library cannot be
  instantiated by the installed provers.  So induction is proved of sets of numbers
  (`Least`, `Induction`), and a recursive definition is a map from functions to
  functions: one in which each place depends on places of lower rank has a solution
  (`Solution`), which is what the definition chooses.  `Iteration` is the case of
  walks.  Concatenation of lists of lists is treated in the same way (`Joins`,
  `FlattenJoins`, `Joined`).
* `ResultsLoaded`: a walk is a path of distinct lines, each continued by the next
  (`CollectedIsPath`), so each line of the branch has its block in the answer, and in
  the block the results that continue it (`BranchFacts`, `BlockFacts`).
* `MergeInOrder`: the blocks leave the answer in order (`AnswerFacts`), also of a
  part of the file, and so does what was shown followed by an answer of later lines
  (`JoinOrdered`).  Of such a list `FirstOnly` keeps each message once
  (`FirstOnlyFacts`), and `OrderByParentChain` puts what the roots lead to first, and
  then the rest (`ReachedFacts`, `OrderFacts`); neither loses a message.  A line
  later than all others is the active tip of any part that ends with it
  (`LatestIsTip`).

## Only model-checked

Liveness and what needs ENABLED are out of the prover's reach.  Checked by TLC alone:

* `LoopEndsAfterKill`, `KilledLeaves`, `PairEndsTogether`, `VanishedServerLeaves`,
  `ServerComesBack`, `StreamComes`, `ConnectSettles`, `EndAnswered`, `ChangesRead`,
  `NewestShown`, `ChangeShown`.
* `KeysAgree` and `SessionKept`, invariants of `SecureConnection`.

## Not modelled

* In `Process.ts`: the queue of the mock SDK, permission rules and modes,
  waiters for the session id, history and streaming buffers, interrupts and
  changes of model.
* In `Supervisor.ts`: the mock and real-SDK start paths (the provider path has
  the same awaits), the list of terminated processes, permission modes and model
  settings, events other than ownership, and the order in which idle workers are
  preempted (any may be).
* In the relay: telemetry, statistics, invalid usernames, peers that send more
  than one protocol message, and configurations in which the pong timeout
  exceeds the ping interval.
* In `SecureConnection.ts`: the way through the relay (`resumeOnExistingSocket`,
  `reconnectThroughRelay`), and sequence numbers, with the "Replay detected" that
  a decryption which overtakes an earlier one can cause (`:1050`).
* In the client stack: requests and their timeouts, the streams of sessions.  A
  request that is slow delays the pong of a connection, as
  `docs/project/relay-head-of-line-blocking.md` describes.
* In the server's connections: rate limits, sequence numbers, progress reports,
  sessions with a device, and the limit on the size of an upload
  (`uploads/manager.ts:128`, `:173`).
* In the tracker: `dispose()`, and what is announced of a summary that was read.
* Of sessions: orphan marks, the pagination of long sessions and older messages,
  subagents, streamed messages and their merge, forks, and the sessions of Codex,
  Gemini and OpenCode.
* The components marked `not_modelled` in `PROJECT.json`: I/O, parsing,
  formatting, third-party protocols and user interface, which have no protocol
  of their own, or pure functions of large inputs.

## Plan

1. Done: `Process`, `Supervisor`, `Relay`, `RelayClient` with `RemoteAccess`,
   `ConnectionManager` with `ClientConnection`, `SecureConnection`,
   `ServerConnection`, `ExternalSessionTracker`, `Conversation` with `SessionView`;
   the refinements of `WorkQueue`,
   `RelayClient` and `ConnectionManager`.
2. Done: proofs of all invariants and action properties the runs check, and of the
   three refinements.
3. The way of a secure session through the relay, composed with `RemoteAccess`.
4. Live subscriptions (`server/src/subscriptions.ts`): replay and live events, and
   their merge with persisted messages, with `Conversation`.
5. The session index and the save pattern of the metadata stores.
