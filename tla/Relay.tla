-------------------------------- MODULE Relay --------------------------------
(***************************************************************************)
(* The relay server: servers register a username and wait, a client that   *)
(* names the username is paired with the waiting server, and what one end  *)
(* of a pair sends is forwarded to the other                               *)
(* (packages/relay/src: connections.ts, ws-handler.ts, registry.ts and the *)
(* start-up in index.ts).                                                  *)
(*                                                                         *)
(* Every handler of the relay is synchronous, so one WebSocket event is    *)
(* one action.  What the handlers leave open is the life of a socket:      *)
(* close() only starts the closing handshake, and the close event comes    *)
(* later, after other events.                                              *)
(*                                                                         *)
(* Abstracted: message contents, telemetry, the compatibility metadata;    *)
(* valid usernames only.  A peer sends one registration or one connect     *)
(* message, as the server's relay client and the web client do.  The pong  *)
(* timeout is shorter than the ping interval, as by default.               *)
(***************************************************************************)
EXTENDS FiniteSets

CONSTANTS
    Sockets,    \* WebSocket connections, each opened once
    Usernames,
    Installs,   \* installation ids of servers
    None        \* no socket, no username, no installation

ASSUME NoneAssumption == None \notin Sockets \cup Usernames \cup Installs

VARIABLES
    \* ConnectionManager
    waiting,        \* the waiting server of each username
    pairs,          \* set of <<server, client>>
    pairLookup,     \* the pair a socket belongs to
    activeServers,  \* state of a registered server, "none" if it has no entry
    installId,      \* its installation id
    \* UsernameRegistry, kept on disk
    owner,          \* install_id of each username's row
    lastSeen,       \* usernames seen within the last reclaimDays
    \* connection state of the WebSocket handler
    username,
    paired,
    pingInterval,   \* sockets whose interval runs
    pongTimeout,    \* sockets whose timeout runs
    \* sockets and peers
    sock,           \* where a socket is in its life
    vanished,       \* peers that are gone without closing their socket
    heard           \* history: whose data was forwarded to a socket

managerVars  == <<waiting, pairs, pairLookup, activeServers, installId>>
registryVars == <<owner, lastSeen>>
timerVars    == <<pingInterval, pongTimeout>>
handlerVars  == <<username, paired, timerVars>>
peerVars     == <<vanished, heard>>
vars         == <<managerVars, registryVars, handlerVars, peerVars, sock>>

NoPair == <<None, None>>

\* "joined": its protocol message was handled; "closing": the relay called
\* close(), but messages still arrive; "leaving": the peer closed it
SocketStates == {"connecting", "open", "joined", "closing", "leaving", "closed"}

Init ==
    /\ waiting = [u \in Usernames |-> None]
    /\ pairs = {} /\ pairLookup = [s \in Sockets |-> NoPair]
    /\ activeServers = [s \in Sockets |-> "none"]
    /\ installId = [s \in Sockets |-> None]
    \* the registry is what earlier runs of the relay left
    /\ owner \in [Usernames -> Installs \cup {None}]
    /\ lastSeen = {u \in Usernames : owner[u] # None}
    /\ username = [s \in Sockets |-> None] /\ paired = {}
    /\ pingInterval = {} /\ pongTimeout = {}
    /\ sock = [s \in Sockets |-> "connecting"]
    /\ vanished = {} /\ heard = [s \in Sockets |-> {}]

-----------------------------------------------------------------------------
(* Steps the handlers share                                                *)

\* The sockets once close() was called on those of S; it does nothing to one
\* that is closing already.
Closing(S) ==
    [s \in Sockets |-> IF s \in S /\ sock[s] \in {"open", "joined"}
                       THEN "closing" ELSE sock[s]]

\* Broken variants of a definition stand before it; the project's mutation
\* runs put them in its place to show that the properties can fail.

\* stopPingInterval
StopPingInterval(S) ==
    /\ pingInterval' = pingInterval \ S
    /\ pongTimeout' = pongTimeout \ S

\* broken: any installation may take the username
CanRegisterAny(u, i) == TRUE

CanRegister(u, i) == owner[u] \in {None, i}

\* broken: keeps the entry of the connection that is replaced
ActiveKeepingReplaced(s, u) == [activeServers EXCEPT ![s] = "waiting"]

\* activeServers when s replaces the waiting connection of u, if any
ActiveReplaced(s, u) ==
    [t \in Sockets |-> IF t = s THEN "waiting"
                       ELSE IF t = waiting[u] THEN "none" ELSE activeServers[t]]

\* The other end of pair p
PartnerIn(p, s) == IF p[1] = s THEN p[2] ELSE p[1]

-----------------------------------------------------------------------------
(* Messages                                                                *)

\* The WebSocket upgrade is done.
Open(s) ==
    /\ sock[s] = "connecting"
    /\ sock' = [sock EXCEPT ![s] = "open"]
    /\ UNCHANGED <<managerVars, registryVars, handlerVars, peerVars>>

\* server_register from installation i is refused: the username is taken.
RejectServer(s, u, i) ==
    /\ sock[s] = "open" /\ ~CanRegister(u, i)
    /\ sock' = Closing({s})
    /\ UNCHANGED <<managerVars, registryVars, handlerVars, peerVars>>

\* server_register: the socket waits for a client of u, in the place of an
\* older connection, which is closed.
RegisterServer(s, u, i) ==
    /\ sock[s] = "open" /\ CanRegister(u, i)
    /\ owner' = [owner EXCEPT ![u] = i]
    /\ lastSeen' = lastSeen \cup {u}
    /\ activeServers' = ActiveReplaced(s, u)
    /\ installId' = [t \in Sockets |-> IF t = s THEN i
                                       ELSE IF t = waiting[u] THEN None ELSE installId[t]]
    /\ waiting' = [waiting EXCEPT ![u] = s]
    /\ sock' = [Closing({waiting[u]}) EXCEPT ![s] = "joined"]
    /\ username' = [username EXCEPT ![s] = u]
    /\ pingInterval' = pingInterval \cup {s}
    /\ UNCHANGED <<pairs, pairLookup, paired, pongTimeout, peerVars>>

\* client_connect names a username nobody registered or no server waits for.
RefuseClient(s, u) ==
    /\ sock[s] = "open"
    /\ owner[u] = None \/ waiting[u] = None
    /\ sock' = Closing({s})
    /\ UNCHANGED <<managerVars, registryVars, handlerVars, peerVars>>

\* broken: the server goes on waiting
TakeNothing(u) == UNCHANGED waiting

TakeWaiting(u) == waiting' = [waiting EXCEPT ![u] = None]

\* client_connect: the waiting server and the client become a pair.
ConnectClient(s, u) ==
    LET server == waiting[u] IN
    /\ sock[s] = "open" /\ owner[u] # None /\ server # None
    /\ TakeWaiting(u)
    /\ activeServers' = [activeServers EXCEPT ![server] = "paired"]
    /\ pairs' = pairs \cup {<<server, s>>}
    /\ pairLookup' = [pairLookup EXCEPT ![server] = <<server, s>>, ![s] = <<server, s>>]
    /\ lastSeen' = lastSeen \cup {u}
    /\ username' = [username EXCEPT ![s] = u]
    /\ paired' = paired \cup {server, s}
    /\ StopPingInterval({server})
    /\ sock' = [sock EXCEPT ![s] = "joined"]
    /\ UNCHANGED <<installId, owner, peerVars>>

\* Data of one end of a pair reaches the other.  Without a pair, or once the
\* other end is closing, it is lost.
Forward(s) ==
    LET t == PartnerIn(pairLookup[s], s) IN
    /\ sock[s] \in {"joined", "closing"} /\ s \notin vanished
    /\ s \in paired /\ pairLookup[s] # NoPair
    /\ sock[t] = "joined"
    /\ heard' = [heard EXCEPT ![t] = @ \cup {s}]
    /\ UNCHANGED <<managerVars, registryVars, handlerVars, vanished, sock>>

-----------------------------------------------------------------------------
(* Keepalive                                                               *)

\* A tick of the ping interval
Ping(s) ==
    /\ s \in pingInterval /\ s \notin pongTimeout
    /\ IF s \in paired
       THEN pingInterval' = pingInterval \ {s} /\ UNCHANGED pongTimeout
       ELSE pongTimeout' = pongTimeout \cup {s} /\ UNCHANGED pingInterval
    /\ UNCHANGED <<managerVars, registryVars, username, paired, peerVars, sock>>

Pong(s) ==
    /\ s \in pongTimeout /\ s \notin vanished
    /\ sock[s] \in {"joined", "closing"}
    /\ pongTimeout' = pongTimeout \ {s}
    /\ UNCHANGED <<managerVars, registryVars, username, paired, pingInterval,
                   peerVars, sock>>

\* broken: only logs the timeout
SockUnclosed(s) == sock

PongTimedOut(s) == Closing({s})

PongTimeout(s) ==
    /\ s \in pongTimeout
    /\ pongTimeout' = pongTimeout \ {s}
    /\ sock' = PongTimedOut(s)
    /\ UNCHANGED <<managerVars, registryVars, username, paired, pingInterval, peerVars>>

-----------------------------------------------------------------------------
(* Closing                                                                 *)

\* broken: clears the place of whoever waits
WaitingAfterAnyClose(s) ==
    [u \in Usernames |-> IF u = username[s] THEN None ELSE waiting[u]]

\* waiting after the close event of s
WaitingAfterClose(s) ==
    [u \in Usernames |-> IF u = username[s] /\ waiting[u] = s THEN None ELSE waiting[u]]

\* pairLookup after the close event of s: its pair is forgotten on both ends
LookupAfterClose(s) ==
    [t \in Sockets |-> IF pairLookup[s] # NoPair /\ t \in {pairLookup[s][1], pairLookup[s][2]}
                       THEN NoPair ELSE pairLookup[t]]

\* broken: leaves the other end open
SockAfterLoneClose(s) == [sock EXCEPT ![s] = "closed"]

\* The close event of s: its partner is closed too.
SockAfterClose(s) ==
    [Closing(IF pairLookup[s] # NoPair THEN {PartnerIn(pairLookup[s], s)} ELSE {})
        EXCEPT ![s] = "closed"]

\* The servers whose entry the close event of s deletes
EntriesClosed(s) ==
    IF username[s] # None /\ waiting[username[s]] = s THEN {s}
    ELSE IF pairLookup[s] # NoPair THEN {pairLookup[s][1]} ELSE {}

\* onClose
CloseEvent(s) ==
    /\ sock[s] \in {"closing", "leaving"}
    /\ StopPingInterval({s})
    /\ waiting' = WaitingAfterClose(s)
    /\ pairs' = pairs \ {pairLookup[s]}
    /\ pairLookup' = LookupAfterClose(s)
    /\ activeServers' = [t \in Sockets |-> IF t \in EntriesClosed(s) THEN "none"
                                           ELSE activeServers[t]]
    /\ installId' = [t \in Sockets |-> IF t \in EntriesClosed(s) THEN None ELSE installId[t]]
    /\ sock' = SockAfterClose(s)
    /\ username' = [username EXCEPT ![s] = None]
    /\ paired' = paired \ {s}
    /\ UNCHANGED <<registryVars, peerVars>>

\* The peer closes the socket, or its connection breaks.
PeerCloses(s) ==
    /\ sock[s] \in {"open", "joined"} /\ s \notin vanished
    /\ sock' = [sock EXCEPT ![s] = "leaving"]
    /\ UNCHANGED <<managerVars, registryVars, handlerVars, peerVars>>

\* The peer disappears, and no packet tells the relay.
PeerVanishes(s) ==
    /\ sock[s] = "joined" /\ s \notin vanished
    /\ vanished' = vanished \cup {s}
    /\ UNCHANGED <<managerVars, registryVars, handlerVars, heard, sock>>

-----------------------------------------------------------------------------
(* Restart and passing of days                                             *)

\* reclaimInactive
OwnersKept == [u \in Usernames |-> IF u \in lastSeen THEN owner[u] ELSE None]

\* The relay stops or crashes and starts again: memory is lost, every open
\* socket breaks, and usernames not seen for long are reclaimed.
Restart ==
    /\ waiting' = [u \in Usernames |-> None]
    /\ pairs' = {} /\ pairLookup' = [s \in Sockets |-> NoPair]
    /\ activeServers' = [s \in Sockets |-> "none"]
    /\ installId' = [s \in Sockets |-> None]
    /\ owner' = OwnersKept
    /\ username' = [s \in Sockets |-> None] /\ paired' = {}
    /\ pingInterval' = {} /\ pongTimeout' = {}
    /\ sock' = [s \in Sockets |-> IF sock[s] = "connecting" THEN "connecting" ELSE "closed"]
    /\ UNCHANGED <<lastSeen, peerVars>>

\* reclaimDays pass in which nobody registers u or connects to it.
DaysPass(u) ==
    /\ u \in lastSeen
    /\ lastSeen' = lastSeen \ {u}
    /\ UNCHANGED <<managerVars, owner, handlerVars, peerVars, sock>>

-----------------------------------------------------------------------------

Messages(s) ==
    \/ Open(s)
    \/ \E u \in Usernames, i \in Installs : RejectServer(s, u, i) \/ RegisterServer(s, u, i)
    \/ \E u \in Usernames : RefuseClient(s, u) \/ ConnectClient(s, u)
    \/ Forward(s)

Events(s) ==
    \/ Ping(s) \/ Pong(s) \/ PongTimeout(s)
    \/ CloseEvent(s) \/ PeerCloses(s) \/ PeerVanishes(s)

Next ==
    \/ \E s \in Sockets : Messages(s) \/ Events(s)
    \/ Restart
    \/ \E u \in Usernames : DaysPass(u)

Spec == Init /\ [][Next]_vars

\* Timers fire, and a closing handshake ends: the WebSocket library gives up
\* on a silent peer after a timeout of its own.
Fairness ==
    \A s \in Sockets : WF_vars(Ping(s)) /\ WF_vars(PongTimeout(s)) /\ WF_vars(CloseEvent(s))

FairSpec == Spec /\ Fairness

-----------------------------------------------------------------------------
(* Invariants                                                              *)

Pairs == Sockets \X Sockets

\* Types: every variable stays in its set.
TypeOK ==
    /\ waiting \in [Usernames -> Sockets \cup {None}]
    /\ pairs \subseteq Pairs
    /\ pairLookup \in [Sockets -> Pairs \cup {NoPair}]
    /\ activeServers \in [Sockets -> {"none", "waiting", "paired"}]
    /\ installId \in [Sockets -> Installs \cup {None}]
    /\ owner \in [Usernames -> Installs \cup {None}]
    /\ lastSeen \subseteq Usernames
    /\ username \in [Sockets -> Usernames \cup {None}]
    /\ paired \subseteq Sockets
    /\ pingInterval \subseteq Sockets /\ pongTimeout \subseteq Sockets
    /\ sock \in [Sockets -> SocketStates]
    /\ vanished \subseteq Sockets
    /\ heard \in [Sockets -> SUBSET Sockets]

\* The map of waiting servers and the list of active ones agree: a server waits
\* for one username, its own, exactly while its entry says so, and belongs to
\* no pair then.
WaitingConsistent ==
    /\ \A u \in Usernames : waiting[u] # None =>
          /\ activeServers[waiting[u]] = "waiting"
          /\ username[waiting[u]] = u
          /\ pairLookup[waiting[u]] = NoPair
          /\ sock[waiting[u]] # "closed"
    /\ \A s \in Sockets : activeServers[s] = "waiting" =>
          username[s] # None /\ waiting[username[s]] = s

\* Both ends of a pair lead to it and only to it, its server has an entry that
\* says so, and no half of a pair is left when the other half is gone.
PairsConsistent ==
    /\ \A p \in pairs : p[1] # p[2] /\ pairLookup[p[1]] = p /\ pairLookup[p[2]] = p
    /\ \A s \in Sockets : pairLookup[s] # NoPair =>
          pairLookup[s] \in pairs /\ s \in {pairLookup[s][1], pairLookup[s][2]}
    /\ \A s \in Sockets :
          activeServers[s] = "paired" <=> pairLookup[s] # NoPair /\ pairLookup[s][1] = s

\* After its close event nothing of the relay refers to a socket, in whatever
\* order replacement, pairing, timeout and close came.
ClosedIsForgotten ==
    \A s \in Sockets : sock[s] = "closed" =>
        /\ \A u \in Usernames : waiting[u] # s
        /\ pairLookup[s] = NoPair /\ activeServers[s] = "none"
        /\ s \notin paired \cup pingInterval \cup pongTimeout

\* The four maps of the relay and the sockets tell one story, in whatever order
\* replacement, pairing, timeout, close and restart come: who waits, who is paired
\* with whom, and nothing about a socket that is closed.
TablesAgree == WaitingConsistent /\ PairsConsistent /\ ClosedIsForgotten

\* A username is served only by the installation that owns it, also after
\* restarts and reclamation: neither waiting nor paired servers of another one.
OwnerServes ==
    \A s \in Sockets : activeServers[s] # "none" =>
        username[s] # None /\ installId[s] # None /\ owner[username[s]] = installId[s]

\* In its whole life a socket exchanges data with one other socket only: a
\* server connection is never handed to a second client.
OnePartner ==
    \A s, t, v \in Sockets :
        /\ t \in heard[s] /\ v \in heard[s] => t = v
        /\ t \in heard[s] /\ v \in heard[t] => s = v
        /\ t \in heard[s] /\ t \in heard[v] => s = v

\* The keepalive never closes a pair: no timer of a paired socket runs.
PairedUnwatched ==
    \A s \in paired : s \notin pingInterval \cup pongTimeout

-----------------------------------------------------------------------------
(* Action properties                                                       *)

\* A waiting server loses its place only when it is paired, when its own socket
\* closes, when its owner registers a newer connection, or by a restart.
WaitingLeavesForCause ==
    [][\A u \in Usernames :
          waiting[u] # None /\ waiting'[u] # waiting[u] =>
             \/ pairLookup'[waiting[u]] # NoPair
             \/ sock'[waiting[u]] = "closed"
             \/ waiting'[u] # None /\ installId'[waiting'[u]] = installId[waiting[u]]]_vars

\* First come, first served: a username changes hands only through reclamation
\* of one not seen for long.
OwnerKept ==
    [][\A u \in Usernames :
          owner[u] # None /\ owner'[u] # owner[u] => u \notin lastSeen /\ owner'[u] = None]_vars

-----------------------------------------------------------------------------
(* Liveness, under FairSpec                                                *)

\* When one end of a pair goes, the other end is closed.
PairEndsTogether ==
    \A s, t \in Sockets :
        <<s, t>> \in pairs /\ {sock[s], sock[t]} \cap {"closing", "leaving"} # {}
        ~> sock[s] = "closed" /\ sock[t] = "closed"

\* A server that vanished while it waits does not wait for ever.
VanishedServerLeaves ==
    \A s \in Sockets, u \in Usernames :
        s \in vanished /\ waiting[u] = s ~> waiting[u] # s

==============================================================================
