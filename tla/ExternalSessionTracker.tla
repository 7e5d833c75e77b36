----------------------- MODULE ExternalSessionTracker -----------------------
(***************************************************************************)
(* Which sessions another program works on, and what browsers are told     *)
(* about it: ExternalSessionTracker (packages/server/src/supervisor/       *)
(* ExternalSessionTracker.ts) and the BatchProcessor it reads sessions     *)
(* with (packages/server/src/watcher/BatchProcessor.ts), next to the       *)
(* supervisor, of which this module keeps the map from sessions to         *)
(* processes and the ownership events (Supervisor.ts:1140-1344).           *)
(*                                                                         *)
(* A session file has a version, which every write of it advances; any     *)
(* program may write it, the server's own processes as well, before they   *)
(* are registered and after they are gone.  Claude's files are handled     *)
(* without an await, but their ownership events wait for a look at the     *)
(* projects; Codex's files have to be read first.                          *)
(*                                                                         *)
(* Abstracted: paths and projects (a look at them may find none), the      *)
(* order in which a batch is cut into chunks, what a summary says but for  *)
(* the version it was read from, clocks (a timer that is armed may fire).  *)
(***************************************************************************)
EXTENDS Naturals, FiniteSets, Sequences

CONSTANTS
    Claude, Codex,  \* sessions, by provider
    Concurrency,    \* of the batch processor
    MaxWrites,      \* bound on the writes to each session file
    MaxLooks        \* bound on the ownership events that wait for a look at the projects

ASSUME TrackerAssumption ==
    /\ Claude \cap Codex = {} /\ IsFiniteSet(Claude \cup Codex)
    /\ Concurrency \in Nat \ {0} /\ MaxLooks \in Nat
    /\ MaxWrites \in [Claude \cup Codex -> Nat]

Sessions == Claude \cup Codex
Versions == UNION {0..MaxWrites[s] : s \in Sessions}

VARIABLES
    \* the supervisor
    owned,          \* sessions with a process
    aborting,       \* those whose process is being aborted
    \* the tracker
    external,       \* externalSessions
    decay,          \* those whose decay timer is armed
    recentlyAborted,    \* sessions within the grace period
    createdSessions,
    stateCache,     \* version of sessionStateCache, 0 for none
    identifying,    \* Codex files whose first line is being read, by session
    creating,       \* those being read for a session-created event
    \* its batch processor
    pending, flushTimeout, processing,
    batch,          \* the rest of the batch
    chunk,          \* what is being read: the version each read began with
    \* files and events
    file,           \* the version of each session file
    seen,           \* the version of the last change that was queued for reading
    unreadable,     \* sessions whose last read brought nothing
    announcing,     \* ownership events that wait for a look at the projects
    shown           \* the owner a browser was told last

supervisorVars == <<owned, aborting>>
readVars       == <<identifying, creating>>
batchVars      == <<pending, flushTimeout, processing, batch, chunk>>
trackVars      == <<external, decay, recentlyAborted>>
cacheVars      == <<createdSessions, stateCache, unreadable>>
vars == <<supervisorVars, readVars, batchVars, trackVars, cacheVars,
          file, seen, announcing, shown>>

Init ==
    /\ owned = {} /\ aborting = {}
    /\ external = {} /\ decay = {} /\ recentlyAborted = {}
    /\ createdSessions = {} /\ stateCache = [s \in Sessions |-> 0]
    /\ identifying = [s \in Sessions |-> 0] /\ creating = [s \in Sessions |-> 0]
    /\ pending = {} /\ flushTimeout = FALSE /\ processing = FALSE
    /\ batch = {} /\ chunk = <<>>
    /\ file = [s \in Sessions |-> 0] /\ seen = [s \in Sessions |-> 0]
    /\ unreadable = {}
    /\ announcing = <<>> /\ shown = [s \in Sessions |-> "none"]

-----------------------------------------------------------------------------
(* Steps the handlers share.  Broken variants stand before the definition  *)
(* they replace in the project's mutation runs.                            *)

\* emitOwnershipChangeByInfo: an event about a Codex session is emitted at once.
Announces(s, owner) ==
    IF s \in Codex
    THEN shown' = [shown EXCEPT ![s] = owner] /\ UNCHANGED announcing
    ELSE /\ Len(announcing) < MaxLooks
         /\ announcing' = Append(announcing, [session |-> s, owner |-> owner])
         /\ UNCHANGED shown

RemoveExternal(s) ==
    /\ external' = external \ {s} /\ decay' = decay \ {s}
    /\ IF s \in external THEN Announces(s, "none") ELSE UNCHANGED <<announcing, shown>>

\* enqueue: the version now is at least the one the reading will find.
Enqueues(s) ==
    /\ pending' = pending \cup {s} /\ flushTimeout' = TRUE
    /\ seen' = [seen EXCEPT ![s] = file'[s]]
    /\ UNCHANGED <<processing, batch, chunk>>

\* The decay timer is set anew with every change.
TimerSet(s) == decay \cup {s}

MarkExternal(s) ==
    /\ external' = external \cup {s}
    /\ decay' = TimerSet(s)
    /\ Enqueues(s)
    /\ IF s \in external THEN UNCHANGED <<announcing, shown>> ELSE Announces(s, "external")

Unnoticed == UNCHANGED <<external, decay, batchVars, seen, announcing, shown>>

-----------------------------------------------------------------------------
(* The supervisor                                                          *)

\* registerProcess, or the mapping of a session id that became known late
Registers(s) ==
    /\ s \notin owned
    /\ owned' = owned \cup {s}
    /\ shown' = [shown EXCEPT ![s] = "self"]
    /\ UNCHANGED <<aborting, readVars, batchVars, trackVars, cacheVars, file, seen, announcing>>

\* broken: the tracker goes on with what it has
ForgetsAbort(s) ==
    /\ recentlyAborted' = recentlyAborted \cup {s}
    /\ UNCHANGED <<external, decay, announcing, shown>>

\* handleSessionAborted
MarkAborted(s) == recentlyAborted' = recentlyAborted \cup {s} /\ RemoveExternal(s)

\* abortProcess up to its await: the tracker hears of it before the process ends.
Aborts(s) ==
    /\ s \in owned \ aborting
    /\ aborting' = aborting \cup {s}
    /\ MarkAborted(s)
    /\ UNCHANGED <<owned, readVars, batchVars, cacheVars, file, seen>>

\* unregisterProcess, after an abort or when the process ends by itself
Unregisters(s) ==
    /\ s \in owned
    /\ owned' = owned \ {s} /\ aborting' = aborting \ {s}
    /\ shown' = [shown EXCEPT ![s] = "none"]
    /\ UNCHANGED <<readVars, batchVars, trackVars, cacheVars, file, seen, announcing>>

-----------------------------------------------------------------------------
(* File changes                                                            *)

Writes(s) == file[s] < MaxWrites[s] /\ file' = [file EXCEPT ![s] = @ + 1]

\* handleFileChange, for a session that has a process
OwnedFileChanges(s) ==
    /\ Writes(s) /\ s \in owned
    /\ RemoveExternal(s)
    /\ Enqueues(s)
    /\ UNCHANGED <<supervisorVars, recentlyAborted, cacheVars, readVars>>

\* A change within the grace period is taken for our own cleanup.
AbortedFileChanges(s) ==
    /\ Writes(s) /\ s \in recentlyAborted \ owned
    /\ Unnoticed
    /\ UNCHANGED <<supervisorVars, recentlyAborted, cacheVars, readVars>>

ClaudeFileChanges(s) ==
    /\ s \in Claude \ (owned \cup recentlyAborted)
    /\ Writes(s)
    /\ MarkExternal(s)
    /\ UNCHANGED <<supervisorVars, recentlyAborted, cacheVars, readVars>>

\* handleCodexFileChange up to its first await
CodexFileChanges(s) ==
    /\ s \in Codex \ (owned \cup recentlyAborted)
    /\ Writes(s)
    /\ identifying' = [identifying EXCEPT ![s] = @ + 1]
    /\ Unnoticed
    /\ UNCHANGED <<supervisorVars, recentlyAborted, cacheVars, creating>>

\* The first line was read, or could not be; ownership is not asked again.
CodexIdentified(s) ==
    /\ identifying[s] > 0
    /\ identifying' = [identifying EXCEPT ![s] = @ - 1]
    /\ UNCHANGED <<supervisorVars, recentlyAborted, cacheVars, file>>
    /\ \/ /\ MarkExternal(s)
          /\ creating' = IF s \in createdSessions THEN creating
                         ELSE [creating EXCEPT ![s] = @ + 1]
       \/ Unnoticed /\ UNCHANGED creating

\* ensureCodexSessionCreated after its awaits, if they brought what it needs
CodexCreated(s) ==
    /\ creating[s] > 0
    /\ creating' = [creating EXCEPT ![s] = @ - 1]
    /\ createdSessions' \in {createdSessions, createdSessions \cup {s}}
    /\ UNCHANGED <<supervisorVars, identifying, batchVars, trackVars, stateCache, unreadable,
                   file, seen, announcing, shown>>

-----------------------------------------------------------------------------
(* The batch processor                                                     *)

\* A chunk of B is read next.
TakesChunk(B) ==
    \E C \in SUBSET B :
        /\ Cardinality(C) = IF Cardinality(B) < Concurrency THEN Cardinality(B) ELSE Concurrency
        /\ chunk' = [s \in C |-> file[s]] /\ batch' = B \ C

\* The flush timer fires: nothing happens while a batch is processed.
Flushes ==
    /\ flushTimeout /\ flushTimeout' = FALSE
    /\ IF processing \/ pending = {}
       THEN UNCHANGED <<processing, pending, batch, chunk>>
       ELSE processing' = TRUE /\ pending' = {} /\ TakesChunk(pending)
    /\ UNCHANGED <<supervisorVars, readVars, trackVars, cacheVars, file, seen, announcing, shown>>

\* broken: what came during a batch waits for the next change
NoFurtherFlush == flushTimeout

\* At the end of a batch another flush is scheduled for what came meanwhile.
FurtherFlush == flushTimeout \/ pending # {}

\* A task is done; the last one of a chunk begins the next chunk or ends the batch.
TaskDone(s) ==
    IF DOMAIN chunk # {s}
    THEN /\ chunk' = [t \in DOMAIN chunk \ {s} |-> chunk[t]]
         /\ UNCHANGED <<batch, processing, flushTimeout>>
    ELSE IF batch # {} THEN TakesChunk(batch) /\ UNCHANGED <<processing, flushTimeout>>
    ELSE /\ chunk' = <<>> /\ processing' = FALSE
         /\ flushTimeout' = FurtherFlush /\ UNCHANGED batch

\* onResult with a summary that was read from version v
OnResult(s, v) ==
    /\ IF s \in owned THEN RemoveExternal(s) ELSE UNCHANGED <<external, decay, announcing, shown>>
    /\ createdSessions' = createdSessions \cup {s}
    /\ stateCache' = [stateCache EXCEPT ![s] = v]
    /\ unreadable' = unreadable \ {s}

TaskSucceeds(s) ==
    /\ s \in DOMAIN chunk
    /\ \E v \in chunk[s]..file[s] : OnResult(s, v)
    /\ TaskDone(s)
    /\ UNCHANGED <<supervisorVars, readVars, recentlyAborted, pending, file, seen>>

\* No summary, no project, or an error: the change is lost until the next one.
TaskFails(s) ==
    /\ s \in DOMAIN chunk
    /\ unreadable' = unreadable \cup {s}
    /\ TaskDone(s)
    /\ UNCHANGED <<supervisorVars, readVars, trackVars, createdSessions, stateCache,
                   pending, file, seen, announcing, shown>>

-----------------------------------------------------------------------------
(* Timers and events                                                       *)

Decays(s) ==
    /\ s \in decay
    /\ RemoveExternal(s)
    /\ UNCHANGED <<supervisorVars, readVars, batchVars, recentlyAborted, cacheVars, file, seen>>

GraceEnds(s) ==
    /\ s \in recentlyAborted
    /\ recentlyAborted' = recentlyAborted \ {s}
    /\ UNCHANGED <<supervisorVars, readVars, batchVars, external, decay, cacheVars,
                   file, seen, announcing, shown>>

\* The projects were looked at: the event is emitted, or dropped for want of a
\* project.  Looks that wait together are answered in the order they were made.
EventEmitted ==
    /\ announcing # <<>>
    /\ announcing' = Tail(announcing)
    /\ \/ shown' = [shown EXCEPT ![Head(announcing).session] = Head(announcing).owner]
       \/ UNCHANGED shown
    /\ UNCHANGED <<supervisorVars, readVars, batchVars, trackVars, cacheVars, file, seen>>

-----------------------------------------------------------------------------

Next ==
    \/ Flushes \/ EventEmitted
    \/ \E s \in Sessions :
          \/ Registers(s) \/ Aborts(s) \/ Unregisters(s)
          \/ OwnedFileChanges(s) \/ AbortedFileChanges(s)
          \/ ClaudeFileChanges(s) \/ CodexFileChanges(s)
          \/ CodexIdentified(s) \/ CodexCreated(s)
          \/ TaskSucceeds(s) \/ TaskFails(s) \/ Decays(s) \/ GraceEnds(s)

Spec == Init /\ [][Next]_vars

\* The flush timer fires and reads come to an end, with a result or without.
Fairness ==
    /\ WF_vars(Flushes)
    /\ \A s \in Sessions : WF_vars(TaskSucceeds(s) \/ TaskFails(s))

FairSpec == Spec /\ Fairness

-----------------------------------------------------------------------------
(* Properties                                                              *)

\* A session is external exactly while its decay timer is armed, so none stays
\* external for ever and no timer is left over.
DecayArmed == decay = external

\* A session that was just aborted is not taken for another program's, while the
\* aborted process still writes its file.
AbortedNotExternal == \A s \in recentlyAborted \cap Claude : s \notin external

\* Every change that was queued is read: the cache catches up with them again and
\* again, also with those that came while a batch was being read, unless the last
\* read of the session brought nothing.
ChangesRead ==
    \A s \in Sessions : []<>(stateCache[s] >= seen[s] \/ s \in unreadable)
=============================================================================
