-------------------------- MODULE ServerConnection --------------------------
(***************************************************************************)
(* One WebSocket connection on the server: the queue that serialises its   *)
(* messages (packages/server/src/routes/ws-relay.ts), the handlers of      *)
(* requests, subscriptions and uploads (ws-relay-handlers.ts), the upload  *)
(* manager they drive (uploads/manager.ts), and the cleanup when the       *)
(* connection closes, which does not go through the queue.                 *)
(*                                                                         *)
(* The event loop runs a handler up to its next await: a handler that      *)
(* awaits something has a stage, and the close event and the steps of the  *)
(* cleanup run in between.                                                 *)
(*                                                                         *)
(* Abstracted: bytes (a chunk counts 1, and a file is the sequence of its  *)
(* chunks), the content of requests and events, progress reports, sessions *)
(* with a device.  The network delivers a connection's messages in order.  *)
(* After the close of an SRP connection its key is gone                    *)
(* (cleanupConnectionState), so that no message can be read.               *)
(***************************************************************************)
EXTENDS Naturals, Sequences

CONSTANTS
    Uploads, Subs,  \* ids that the client makes up
    Chunks,         \* chunks of the largest file
    MaxQueue,       \* messages under way to the server, a bound of the instance
    Policies,       \* connection policies, see ws-auth-policy.ts
    None            \* no value

ASSUME ServerConnectionAssumption ==
    /\ Chunks \in Nat /\ MaxQueue \in Nat
    /\ Policies \subseteq {"srp_required", "local_unrestricted"}
    /\ None \notin Nat \cup Seq(Nat) \cup Uploads
    /\ None \notin {"pending", "streaming", "cancelled", "complete", "error"}

VARIABLES
    policy,         \* connState.connectionPolicy
    open,           \* the connection has not been closed
    messageQueue,   \* messages that wait for the handler
    running,        \* the handler's message and what it awaits
    subscriptions,  \* ids with a cleanup function
    uploads,        \* of each id: "none", or bytesReceived of its entry
    manager,        \* UploadManager: status of each upload it has
    written,        \* UploadManager: bytesReceived
    file,           \* the file of an upload on disk, or None
    visited,        \* entries cleanupUploads has come to
    cancelling,     \* the one whose removal it awaits
    \* the client
    size,           \* chunks of its file
    sent,           \* messages of an upload it has sent
    answer,         \* what it was told of an upload
    faults          \* uploads whose disk failed

connVars   == <<policy, open, messageQueue, running, subscriptions>>
uploadVars == <<uploads, manager, written, file>>
closeVars  == <<visited, cancelling>>
clientVars == <<size, sent, answer, faults>>
vars       == <<connVars, uploadVars, closeVars, clientVars>>

Idle == [type |-> "idle"]
Messages ==
    [type : {"request"}]
    \cup [type : {"subscribe", "unsubscribe"}, id : Subs]
    \cup [type : {"upload_start", "upload_end"}, id : Uploads]
    \cup [type : {"upload_chunk"}, id : Uploads, offset : 0..Chunks]

Init ==
    /\ policy \in Policies /\ open = TRUE
    /\ messageQueue = <<>> /\ running = Idle /\ subscriptions = {}
    /\ uploads = [u \in Uploads |-> None] /\ manager = [u \in Uploads |-> None]
    /\ written = [u \in Uploads |-> 0] /\ file = [u \in Uploads |-> None]
    /\ visited = {} /\ cancelling = None
    /\ size \in [Uploads -> 0..Chunks]
    /\ sent = [u \in Uploads |-> 0] /\ answer = [u \in Uploads |-> None]
    /\ faults = {}

-----------------------------------------------------------------------------
(* The client                                                              *)

Sends(m) ==
    /\ open /\ Len(messageQueue) < MaxQueue
    /\ messageQueue' = Append(messageQueue, m)
    /\ UNCHANGED <<policy, open, running, subscriptions, uploadVars, closeVars,
                   size, answer, faults>>

\* Requests and subscriptions, in any order.
ClientSends ==
    \E m \in Messages : /\ m.type \in {"request", "subscribe", "unsubscribe"}
                        /\ Sends(m) /\ UNCHANGED sent

\* An upload is its start, its chunks in order and its end, sent without waiting
\* for answers; after an error, or when it is aborted, the client sends no more.
ClientUploads(u) ==
    /\ answer[u] = None
    /\ sent' = [sent EXCEPT ![u] = @ + 1]
    /\ \/ sent[u] = 0 /\ Sends([type |-> "upload_start", id |-> u])
       \/ sent[u] \in 1..size[u] /\ Sends([type |-> "upload_chunk", id |-> u,
                                            offset |-> sent[u] - 1])
       \/ sent[u] = size[u] + 1 /\ Sends([type |-> "upload_end", id |-> u])

-----------------------------------------------------------------------------
(* The queue                                                               *)

First == Head(messageQueue)

\* The handler of the first message is called; no other handler is running.
Takes == running = Idle /\ messageQueue # <<>> /\ messageQueue' = Tail(messageQueue)

Readable == open \/ policy # "srp_required"

\* A message that cannot be decrypted any more is dropped.
DropUnreadable ==
    /\ ~Readable /\ Takes
    /\ UNCHANGED <<policy, open, running, subscriptions, uploadVars, closeVars, clientVars>>

\* The handler awaits something.
Awaits(m, what) == running' = [type |-> what, of |-> m]
Returns == running' = Idle

\* broken: errors are logged and not sent
TellsSuccess(u, what) ==
    answer' = IF open /\ answer[u] = None /\ what = "complete"
              THEN [answer EXCEPT ![u] = what] ELSE answer

\* What a message of upload u is answered with, if the client can hear it.
Tells(u, what) ==
    answer' = IF open /\ answer[u] = None THEN [answer EXCEPT ![u] = what] ELSE answer

-----------------------------------------------------------------------------
(* Requests and subscriptions                                              *)

\* handleRequest: the HTTP application is called and awaited.
HandleRequest ==
    /\ Readable /\ Takes /\ First.type = "request"
    /\ Awaits(First, "fetch")
    /\ UNCHANGED <<policy, open, subscriptions, uploadVars, closeVars, clientVars>>

RequestDone ==
    /\ running.type = "fetch" /\ Returns
    /\ UNCHANGED <<policy, open, messageQueue, subscriptions, uploadVars, closeVars, clientVars>>

\* handleSubscribe and handleUnsubscribe; a session's subscription is refused
\* when the session has no process.
HandleSubscribe ==
    /\ Readable /\ Takes /\ First.type = "subscribe"
    /\ subscriptions' \in {subscriptions, subscriptions \cup {First.id}}
    /\ UNCHANGED <<policy, open, running, uploadVars, closeVars, clientVars>>

HandleUnsubscribe ==
    /\ Readable /\ Takes /\ First.type = "unsubscribe"
    /\ subscriptions' = subscriptions \ {First.id}
    /\ UNCHANGED <<policy, open, running, uploadVars, closeVars, clientVars>>

-----------------------------------------------------------------------------
(* Uploads                                                                 *)

\* handleUploadStart awaits the upload directory.
HandleUploadStart ==
    LET u == First.id IN
    /\ Readable /\ Takes /\ First.type = "upload_start"
    /\ IF uploads[u] = None
       THEN Awaits(First, "start") /\ UNCHANGED clientVars
       ELSE running' = running /\ Tells(u, "error") /\ UNCHANGED <<size, sent, faults>>
    /\ UNCHANGED <<policy, open, subscriptions, uploadVars, closeVars>>

UploadStarted(u) ==
    /\ running.type = "start" /\ running.of.id = u /\ Returns
    /\ \/ /\ uploads' = [uploads EXCEPT ![u] = 0]
          /\ manager' = [manager EXCEPT ![u] = "pending"]
          /\ UNCHANGED <<answer, faults>>
       \/ /\ Tells(u, "error") /\ faults' = faults \cup {u}
          /\ UNCHANGED <<uploads, manager>>
    /\ UNCHANGED <<policy, open, messageQueue, subscriptions, written, file, closeVars,
                   size, sent>>

\* cancelUpload up to its await: an upload the manager does not have is none.
StatusAfterCancel(u) == IF manager[u] = None THEN None ELSE "cancelled"

\* A handler's catch: the entry goes, and the upload is cancelled.
Failed(u) ==
    /\ uploads' = [uploads EXCEPT ![u] = None]
    /\ manager' = [manager EXCEPT ![u] = StatusAfterCancel(u)]

\* handleUploadChunk: the chunk is the next one.
OffsetFits(m) == uploads[m.id] = m.offset

\* handleUploadChunk and handleBinaryUploadChunk up to the write
HandleUploadChunk ==
    LET u == First.id IN
    /\ Readable /\ Takes /\ First.type = "upload_chunk"
    /\ IF uploads[u] = None \/ ~OffsetFits(First)
       THEN /\ Tells(u, "error") /\ running' = running
            /\ UNCHANGED <<uploads, manager, file>>
       ELSE IF manager[u] \in {None, "cancelled"}
       THEN Tells(u, "error") /\ Failed(u) /\ Awaits(First, "cancel") /\ UNCHANGED file
       ELSE /\ Awaits(First, "write")
            /\ manager' = [manager EXCEPT ![u] = "streaming"]
            /\ file' = [file EXCEPT ![u] = IF @ = None THEN <<>> ELSE @]
            /\ UNCHANGED <<uploads, answer>>
    /\ UNCHANGED <<policy, open, subscriptions, written, closeVars, size, sent, faults>>

\* broken: the chunk is counted when it is written and when the write returns
CountedTwice(u) == written[u] + 2

\* The manager's bytesReceived after a chunk
CountAfter(u) == written[u] + 1

\* The chunk is on disk; a stream that was destroyed meanwhile may still have
\* written it.
ChunkWritten(u) ==
    /\ running.type = "write" /\ running.of.id = u /\ Returns
    /\ written' = [written EXCEPT ![u] = CountAfter(u)]
    /\ uploads' = IF uploads[u] = None THEN uploads ELSE [uploads EXCEPT ![u] = CountAfter(u)]
    /\ file' = IF file[u] = None THEN file
               ELSE [file EXCEPT ![u] = Append(@, running.of.offset)]
    /\ UNCHANGED <<policy, open, messageQueue, subscriptions, manager, closeVars, clientVars>>

\* The write fails, for the disk's sake or because the stream was destroyed.
WriteFails(u) ==
    /\ running.type = "write" /\ running.of.id = u
    /\ Tells(u, "error") /\ Failed(u)
    /\ running' = [running EXCEPT !.type = "cancel"]
    /\ faults' = faults \cup {u}
    /\ UNCHANGED <<policy, open, messageQueue, subscriptions, written, file, closeVars, size, sent>>

\* cancelUpload after its await: the file is gone, and the manager's entry.
CancelDone(u) ==
    /\ running.type = "cancel" /\ running.of.id = u /\ Returns
    /\ manager' = [manager EXCEPT ![u] = None]
    /\ file' = [file EXCEPT ![u] = IF manager[u] = None THEN @ ELSE None]
    /\ UNCHANGED <<policy, open, messageQueue, subscriptions, uploads, written, closeVars,
                   clientVars>>

\* handleUploadEnd up to the end of the stream
HandleUploadEnd ==
    LET u == First.id IN
    /\ Readable /\ Takes /\ First.type = "upload_end"
    /\ IF uploads[u] = None
       THEN Tells(u, "error") /\ running' = running /\ UNCHANGED <<uploads, manager>>
       ELSE IF manager[u] \notin {"pending", "streaming"}
       THEN Tells(u, "error") /\ Failed(u) /\ Awaits(First, "cancel")
       ELSE Awaits(First, "end") /\ UNCHANGED <<uploads, manager, answer>>
    /\ UNCHANGED <<policy, open, subscriptions, written, file, closeVars, size, sent, faults>>

\* broken: the entries of a complete upload stay
KeepEntries(u) == manager' = manager /\ uploads' = uploads

\* A complete upload has no entry any more, with the manager or the connection.
DropEntries(u) ==
    manager' = [manager EXCEPT ![u] = None] /\ uploads' = [uploads EXCEPT ![u] = None]

\* The stream has ended and the file is there, which it is not when no chunk
\* was written or the upload was cancelled meanwhile.
UploadEnded(u) ==
    /\ running.type = "end" /\ running.of.id = u
    /\ IF file[u] # None
       THEN Tells(u, "complete") /\ Returns /\ DropEntries(u)
       ELSE /\ Tells(u, "error") /\ Failed(u)
            /\ running' = [running EXCEPT !.type = "cancel"]
    /\ UNCHANGED <<policy, open, messageQueue, subscriptions, written, file, closeVars,
                   size, sent, faults>>

\* Ending the stream fails, for the disk's sake or because it was destroyed.
EndFails(u) ==
    /\ running.type = "end" /\ running.of.id = u
    /\ Tells(u, "error") /\ Failed(u)
    /\ running' = [running EXCEPT !.type = "cancel"]
    /\ faults' = faults \cup {u}
    /\ UNCHANGED <<policy, open, messageQueue, subscriptions, written, file, closeVars, size, sent>>

-----------------------------------------------------------------------------
(* Close                                                                   *)

\* cleanupUploads goes on: the next entry is cancelled, also one that was added
\* meanwhile, and after the last one all entries are dropped.
CleansUp(seen, status) ==
    LET left == {u \in Uploads : uploads[u] # None /\ status[u] # None} \ seen IN
    IF left = {}
    THEN /\ uploads' = [u \in Uploads |-> None]
         /\ manager' = status /\ cancelling' = None /\ visited' = seen
    ELSE \E u \in left :
            /\ manager' = [status EXCEPT ![u] = "cancelled"]
            /\ cancelling' = u /\ visited' = seen \cup {u}
            /\ UNCHANGED uploads

\* broken: the subscriptions of a closed connection go on
KeepSubscriptions == subscriptions

\* cleanupSubscriptions
SubscriptionsAfterClose == {}

\* onClose: subscriptions end at once, uploads one after the other.
Close ==
    /\ open /\ open' = FALSE
    /\ subscriptions' = SubscriptionsAfterClose
    /\ CleansUp({}, manager)
    /\ UNCHANGED <<policy, messageQueue, running, written, file, clientVars>>

CleanupStep ==
    /\ cancelling # None
    /\ file' = [file EXCEPT ![cancelling] = None]
    /\ CleansUp(visited, [manager EXCEPT ![cancelling] = None])
    /\ UNCHANGED <<connVars, written, clientVars>>

-----------------------------------------------------------------------------

HandlerStep ==
    \/ DropUnreadable \/ HandleRequest \/ RequestDone
    \/ HandleSubscribe \/ HandleUnsubscribe
    \/ HandleUploadStart \/ HandleUploadChunk \/ HandleUploadEnd
    \/ \E u \in Uploads :
          \/ UploadStarted(u) \/ ChunkWritten(u) \/ WriteFails(u) \/ CancelDone(u)
          \/ UploadEnded(u) \/ EndFails(u)

Next == HandlerStep \/ CleanupStep \/ Close \/ ClientSends \/ \E u \in Uploads : ClientUploads(u)

\* What is awaited comes to an end; the client need not send or close anything.
Fairness == WF_vars(HandlerStep) /\ WF_vars(CleanupStep)

Spec == Init /\ [][Next]_vars
FairSpec == Spec /\ Fairness

-----------------------------------------------------------------------------
(* Properties                                                              *)

\* A file that was reported complete is the client's file: all its chunks, in
\* order, once, and it stays, whatever fails and whenever the connection closes.
CompleteIsWhole ==
    \A u \in Uploads :
        answer[u] = "complete" => file[u] = [i \in 1..size[u] |-> i - 1]

\* An upload that the client sends in full, and that is within the size limit,
\* fails only because of the disk: the queue keeps the order the offset check
\* relies on, and no other upload, error or cleanup gets in its way.  (A file without a chunk fails always: completing
\* it looks for a file that only the first chunk creates.)
FailsForCause ==
    \A u \in Uploads : answer[u] = "error" /\ size[u] > 0 => u \in faults

Quiet == running = Idle /\ messageQueue = <<>> /\ cancelling = None

\* The uploads and subscriptions of an SRP connection end with it: when it is
\* closed and all is quiet, no handler that was under way has left a listener
\* or part of a file.
SecureClosesClean ==
    ~open /\ policy = "srp_required" /\ Quiet =>
        /\ subscriptions = {}
        /\ \A u \in Uploads : file[u] # None => Len(file[u]) = size[u]

\* An upload whose end was sent is answered, unless the connection closes.
EndAnswered ==
    \A u \in Uploads : sent[u] = size[u] + 2 ~> answer[u] # None \/ ~open
=============================================================================
