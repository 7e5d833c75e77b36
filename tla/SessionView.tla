---------------------------- MODULE SessionView ----------------------------
(***************************************************************************)
(* A browser that shows a session another program works on: the session's  *)
(* file, the server that reads it, the two watchers that notice a change,  *)
(* and the hooks that fetch and merge what is new                          *)
(* (packages/client/src/hooks/useSession.ts, useSessionMessages.ts,        *)
(* useSessionWatchStream.ts; packages/server/src/sessions/reader.ts,       *)
(* watcher/FocusedSessionWatchManager.ts, watcher/FileWatcher.ts).         *)
(*                                                                         *)
(* The file only grows, and a session stays without a process of this      *)
(* server.  An answer depends on the file at the time it was read, so a    *)
(* request remembers how much of it there was.                             *)
(*                                                                         *)
(* Abstracted: sessions with more compact boundaries than are loaded at    *)
(* once, Codex and Gemini sessions, a file that is not found yet, and      *)
(* clocks: a timer that is armed may fire.                                 *)
(***************************************************************************)
EXTENDS Conversation

CONSTANTS
    Kinds,          \* of the lines the program writes
    Delays,         \* between the timestamps of two lines, in milliseconds
    InOrder,        \* does the server handle requests in the order they came
    MaxLines,       \* bound on the lines of the file
    MaxDrops,       \* bound on how often the connection is lost
    MaxRequests,    \* bound on the requests under way: further events wait
    MaxNotices      \* bound on the change events of a watcher under way: it waits

ASSUME ViewAssumption ==
    /\ MaxLines \in Nat \ {0} /\ MaxDrops \in Nat
    /\ MaxRequests \in Nat /\ MaxNotices \in Nat
    /\ Delays \subseteq Nat /\ InOrder \in BOOLEAN
    /\ Kinds \subseteq {"text", "use", "result", "boundary"}
    /\ Elsewhere \notin 0..MaxLines

VARIABLES
    file,           \* the session's file
    \* the client
    view,           \* messages
    cursor,         \* lastMessageIdRef, or None
    requests,       \* under way: what for, after which line, lines of the file when read,
                    \* 0 before that
    throttle,       \* throttleRef: is the timer armed, did a call come meanwhile
    online,         \* the activity stream is connected
    drops,          \* how often it was lost
    \* the server
    watch,          \* the focused watch: "none", "resolving" or "attached"
    known,          \* knownSize: lines of the file when it was looked at last
    unreported,     \* the debounce timer of the FileWatcher is armed for the file
    notices,        \* of each watcher: change events on their way to the client
    failed          \* a request failed

clientVars  == <<view, cursor, throttle>>
networkVars == <<online, drops>>
watchVars   == <<watch, known>>
vars == <<file, clientVars, requests, networkVars, watchVars, unreported, notices, failed>>

Lines == DOMAIN file
Watchers == {"tree", "focused"}      \* FileWatcher, FocusedSessionWatchManager
Request(kind, after) == [kind |-> kind, after |-> after, read |-> 0]

\* The page is opened: useSessionMessages loads, useSessionWatchStream subscribes
Init ==
    /\ file = <<[parent |-> None, logical |-> None, kind |-> "text", tool |-> None, time |-> 0]>>
    /\ view = <<>> /\ cursor = None
    /\ requests = <<Request("load", None)>>
    /\ throttle = [armed |-> FALSE, pending |-> FALSE]
    /\ online = TRUE /\ drops = 0
    /\ watch = "resolving" /\ known = 0
    /\ unreported = FALSE /\ notices = [w \in Watchers |-> 0]
    /\ failed = FALSE

-----------------------------------------------------------------------------
(* The program that works on the session                                   *)

\* Lines that may come next.  A message or a tool call continues any line that
\* is no call; calls made together continue each other.  A result continues its
\* call.  A compaction begins anew.
NextLines ==
    LET last  == Len(file)
        calls == {n \in Lines : file[n].kind = "use"}
        open  == {n \in calls : \A r \in Results(file, Lines) : file[r].tool # n}
        forms == {<<p, None, "text", None>> : p \in Lines \ calls}
                 \cup {<<p, None, "use", None>> : p \in (Lines \ calls) \cup (open \cap {last})}
                 \cup {<<t, None, "result", t>> : t \in open}
                 \cup {<<None, l, "boundary", None>> : l \in {Elsewhere, last}}
    IN  {[parent |-> f[1], logical |-> f[2], kind |-> f[3], tool |-> f[4], time |-> file[last].time + d] :
           f \in {g \in forms : g[3] \in Kinds}, d \in Delays}

Writes(line) ==
    /\ Len(file) < MaxLines
    /\ file' = Append(file, line)
    /\ unreported' = TRUE
    /\ UNCHANGED <<clientVars, requests, networkVars, watchVars, notices, failed>>

-----------------------------------------------------------------------------
(* The server                                                              *)

\* Requests of one WebSocket wait for each other, those over HTTP do not
Served == {i \in DOMAIN requests : InOrder => i = 1}

\* getSession reads the whole file
Reads(i) ==
    /\ requests[i].read = 0
    /\ requests' = [requests EXCEPT ![i].read = Len(file)]
    /\ UNCHANGED <<file, clientVars, networkVars, watchVars, unreported, notices, failed>>

\* Only what follows the line the request names is normalised
Answer(i) == Normalized(file, (requests[i].after + 1)..requests[i].read)

\* attachTargetToFile
Attaches ==
    /\ watch = "resolving"
    /\ watch' = "attached" /\ known' = Len(file)
    /\ UNCHANGED <<file, clientVars, requests, networkVars, unreported, notices, failed>>

\* checkForChanges finds the file changed
ChecksFile ==
    /\ watch = "attached" /\ known # Len(file) /\ notices["focused"] < MaxNotices
    /\ known' = Len(file)
    /\ notices' = [notices EXCEPT !["focused"] = @ + 1]
    /\ UNCHANGED <<file, clientVars, requests, networkVars, watch, unreported, failed>>

\* FileWatcher.emitEvent, which reaches the clients that are connected
Reports ==
    /\ unreported /\ notices["tree"] < MaxNotices
    /\ unreported' = FALSE
    /\ notices' = IF online THEN [notices EXCEPT !["tree"] = @ + 1] ELSE notices
    /\ UNCHANGED <<file, clientVars, requests, networkVars, watchVars, failed>>

-----------------------------------------------------------------------------
(* The client                                                              *)

FetchNewMessages == Append(requests, Request("fetch", cursor))

CanRequest == Len(requests) < MaxRequests

\* broken: a call while the timer is armed is forgotten
DropsThrottled(w) ==
    /\ notices[w] > 0 /\ CanRequest
    /\ notices' = [notices EXCEPT ![w] = @ - 1]
    /\ throttle' = [throttle EXCEPT !.armed = TRUE]
    /\ requests' = IF throttle.armed THEN requests ELSE FetchNewMessages
    /\ UNCHANGED <<file, view, cursor, networkVars, watchVars, unreported, failed>>

\* throttledFetch, on a change event of either watcher
NoticeArrives(w) ==
    /\ notices[w] > 0 /\ CanRequest
    /\ notices' = [notices EXCEPT ![w] = @ - 1]
    /\ throttle' = IF throttle.armed THEN [throttle EXCEPT !.pending = TRUE]
                                     ELSE [throttle EXCEPT !.armed = TRUE]
    /\ requests' = IF throttle.armed THEN requests ELSE FetchNewMessages
    /\ UNCHANGED <<file, view, cursor, networkVars, watchVars, unreported, failed>>

\* The throttle's timer: a call that came meanwhile is made up for
ThrottleEnds ==
    /\ throttle.armed /\ CanRequest
    /\ throttle' = [armed |-> throttle.pending, pending |-> FALSE]
    /\ requests' = IF throttle.pending THEN FetchNewMessages ELSE requests
    /\ UNCHANGED <<file, view, cursor, networkVars, watchVars, unreported, notices, failed>>

\* The answer to the first load replaces what is shown
LoadAnswered(i) ==
    /\ requests[i].kind = "load" /\ requests[i].read > 0
    /\ requests' = RemoveAt(requests, i)
    /\ view' = Answer(i) /\ cursor' = Last(Answer(i))
    /\ UNCHANGED <<file, throttle, networkVars, watchVars, unreported, notices, failed>>

\* That to a fetch is merged
FetchAnswered(i) ==
    /\ requests[i].kind = "fetch" /\ requests[i].read > 0
    /\ requests' = RemoveAt(requests, i)
    /\ view' = IF Answer(i) = <<>> THEN view ELSE MergeJSONL(file, view, Answer(i))
    /\ UNCHANGED <<file, cursor, throttle, networkVars, watchVars, unreported, notices, failed>>

\* A failure is caught and forgotten
RequestFails(i) ==
    /\ requests' = RemoveAt(requests, i)
    /\ failed' = TRUE
    /\ UNCHANGED <<file, clientVars, networkVars, watchVars, unreported, notices>>

\* A render runs the effects: the cursor moves to the last message, and the
\* focused watch, whose target is a new object each time, is subscribed anew;
\* what its last subscription still brings is not listened to
Renders ==
    /\ cursor' = IF view = <<>> THEN cursor ELSE Last(view)
    /\ watch' = IF online THEN "resolving" ELSE "none"
    /\ known' = 0
    /\ notices' = [notices EXCEPT !["focused"] = 0]
    /\ UNCHANGED <<file, view, throttle, requests, networkVars, unreported, failed>>

\* The connection is lost with the events and, if they use it, the requests on their way
ConnectionLost ==
    /\ online /\ drops < MaxDrops
    /\ online' = FALSE /\ drops' = drops + 1
    /\ notices' = [w \in Watchers |-> 0] /\ watch' = "none" /\ known' = 0
    /\ requests' = IF InOrder THEN <<>> ELSE requests
    /\ UNCHANGED <<file, clientVars, unreported, failed>>

\* broken: nothing is fetched
RestoredSilently ==
    /\ ~online /\ CanRequest
    /\ online' = TRUE /\ watch' = "resolving" /\ known' = 0
    /\ UNCHANGED <<file, clientVars, requests, drops, unreported, notices, failed>>

\* handleActivityReconnect, and the state change the focused watch listens to
ConnectionRestored ==
    /\ ~online /\ CanRequest
    /\ online' = TRUE /\ watch' = "resolving" /\ known' = 0
    /\ requests' = FetchNewMessages
    /\ UNCHANGED <<file, clientVars, drops, unreported, notices, failed>>

Next ==
    \/ \E line \in NextLines : Writes(line)
    \/ \E i \in Served : Reads(i) \/ LoadAnswered(i) \/ FetchAnswered(i) \/ RequestFails(i)
    \/ Attaches \/ ChecksFile \/ Reports
    \/ \E w \in Watchers : NoticeArrives(w)
    \/ ThrottleEnds \/ Renders
    \/ ConnectionLost \/ ConnectionRestored

Spec == Init /\ [][Next]_vars

\* The program alone: every file it may write
FileSpec == Init /\ [][\E line \in NextLines : Writes(line)]_vars

\* A timer that is armed fires, a request that arrived is answered, effects run.
\* The second conjunct is weak fairness too; to decide whether an answer can be
\* merged the request is enough, not what is merged.
Fairness ==
    /\ WF_vars(\E i \in Served : Reads(i))
    /\ \/ []<>(\A i \in Served : requests[i].read = 0)
       \/ []<><<\E i \in Served : LoadAnswered(i) \/ FetchAnswered(i)>>_vars
    /\ WF_vars(Attaches) /\ WF_vars(ChecksFile)
    /\ \A w \in Watchers : WF_vars(NoticeArrives(w))
    /\ WF_vars(ThrottleEnds)
    /\ WF_vars(view # <<>> /\ cursor # Last(view) /\ Renders)

FairSpec == Spec /\ Fairness

-----------------------------------------------------------------------------
(* Properties                                                              *)

\* Whoever loads the session gets the result of every tool call on its active
\* branch, also where calls were made together and all results but one hang
\* beside that branch (findSiblingToolResults).
ResultsLoaded ==
    LET active == ToSet(ActiveBranch(file, Lines))
    IN  {r \in Results(file, Lines) : file[r].tool \in active}
            \subseteq ToSet(Normalized(file, Lines))

\* What a client shows that loaded the first k lines, and then fetched once
Loaded(k) == Normalized(file, 1..k)
Fetched(loaded) ==
    MergeJSONL(file, loaded, Normalized(file, (Last(loaded) + 1)..Len(file)))

ParentsFirst(items) ==
    \A i \in DOMAIN items :
        LET parent == file[items[i]].parent
        IN  parent \in ToSet(items) => parent \in ToSet(SubSeq(items, 1, i - 1))
Latest(n) == \A m \in Lines \ {n} : file[m].time < file[n].time

\* Whenever a client loads and fetches, what it shows has parents before children,
\* nothing it showed is gone, and the latest line is there: the server sees a part
\* of the conversation only, in which other tips win and parents are missing, and
\* the client puts the parts together again.
MergeInOrder ==
    \A k \in Lines :
        LET loaded  == Loaded(k)
            fetched == Fetched(loaded)
        IN  /\ ParentsFirst(fetched)
            /\ ToSet(loaded) \subseteq ToSet(fetched)
            /\ Latest(Len(file)) => Len(file) \in ToSet(fetched)

\* Results beside the active branch "need to be included so the client can pair
\* them with their tool_uses" (sessions/normalization.ts).  False: when calls made
\* together were fetched before their results, a fetch brings the last result only.
ResultsFetched ==
    LET active == ToSet(ActiveBranch(file, Lines))
    IN  \A k \in Lines : {r \in Results(file, Lines) : file[r].tool \in active}
                            \subseteq ToSet(Fetched(Loaded(k)))

Shows(n) == n \in ToSet(view)

\* If the directory watcher reports changes, the latest line is shown in the end:
\* however changes, throttled calls, late answers, renders and losses of the
\* connection meet, a fetch that reads it comes.  Ways out: a request that failed,
\* and a client that stays without connection.
NewestShown ==
    WF_vars(Reports) => \A n \in 1..MaxLines :
        (n = Len(file) /\ Latest(n)) ~> (n # Len(file) \/ Shows(n) \/ failed \/ ~online)

\* The focused watch alone: a change it can tell from what it saw first is shown,
\* unless it is subscribed anew meanwhile, which a render does.
ChangeShown ==
    \A n \in 1..MaxLines :
        (n = Len(file) /\ Latest(n) /\ watch = "attached" /\ known < n)
            ~> (n # Len(file) \/ Shows(n) \/ failed \/ watch # "attached")
=============================================================================
