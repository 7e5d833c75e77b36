----------------------------- MODULE RelayProofs -----------------------------
(***************************************************************************)
(* Theorems about Relay and about RemoteAccess, which composes it with the *)
(* client of a server, for every set of sockets, usernames and             *)
(* installations.                                                          *)
(***************************************************************************)
EXTENDS RemoteAccess, TLAPS

-----------------------------------------------------------------------------
(* The inductive invariant                                                 *)

\* A socket whose protocol message is still to come takes no part in anything.
FreshIsUnused ==
    \A s \in Sockets : sock[s] \in {"connecting", "open"} =>
        /\ \A u \in Usernames : waiting[u] # s
        /\ pairLookup[s] = NoPair /\ activeServers[s] = "none"
        /\ s \notin paired \cup pingInterval \cup pongTimeout

\* A socket that can no longer enter a pair
Spent(s) == sock[s] \notin {"connecting", "open"} /\ \A u \in Usernames : waiting[u] # s

\* Sockets that exchanged data are in the same pair, or are both in none and
\* will never be in one again.
HeardTogether ==
    \A s, t \in Sockets : t \in heard[s] =>
        s # t /\ Spent(s) /\ Spent(t) /\ pairLookup[s] = pairLookup[t]

\* The parts about the tables of the relay
TablesInv ==
    /\ TypeOK
    /\ WaitingConsistent
    /\ PairsConsistent
    /\ ClosedIsForgotten
    /\ FreshIsUnused
    /\ OwnerServes
    /\ PairedUnwatched

HistoryInv == HeardTogether /\ OnePartner

-----------------------------------------------------------------------------
(* Pairs                                                                   *)

\* A pair of sockets has its two parts, and is not the absence of a pair.
LEMMA PairParts ==
  ASSUME NEW s \in Sockets, NEW t \in Sockets
  PROVE  /\ <<s, t>> \in Pairs /\ <<s, t>> # NoPair
         /\ <<s, t>>[1] = s /\ <<s, t>>[2] = t
BY NoneAssumption DEF Pairs, NoPair

LEMMA PairsAreSockets ==
  ASSUME NEW p \in Pairs
  PROVE  p[1] \in Sockets /\ p[2] \in Sockets /\ p # NoPair /\ p = <<p[1], p[2]>>
BY NoneAssumption DEF Pairs, NoPair

-----------------------------------------------------------------------------
(* Type correctness                                                        *)

LEMMA TypeInit == Init => TypeOK
BY DEF Init, TypeOK, SocketStates

\* Closing sockets keeps the states in their set.
LEMMA ClosingType ==
  ASSUME TypeOK, NEW S
  PROVE  Closing(S) \in [Sockets -> SocketStates]
BY DEF TypeOK, Closing, SocketStates

LEMMA TypeStep == TypeOK /\ [Next]_vars => TypeOK'
<1> SUFFICES ASSUME TypeOK, [Next]_vars PROVE TypeOK'
  OBVIOUS
<1> USE DEF managerVars, registryVars, handlerVars, timerVars, peerVars
<1>1. ASSUME NEW s \in Sockets, Open(s) PROVE TypeOK'
  BY <1>1 DEF Open, TypeOK, SocketStates
<1>2. ASSUME NEW s \in Sockets, NEW u \in Usernames, NEW i \in Installs,
             RejectServer(s, u, i)
      PROVE  TypeOK'
  BY <1>2, ClosingType DEF RejectServer, TypeOK
<1>3. ASSUME NEW s \in Sockets, NEW u \in Usernames, NEW i \in Installs,
             RegisterServer(s, u, i)
      PROVE  TypeOK'
  <2>1. sock' \in [Sockets -> SocketStates]
    BY <1>3, ClosingType DEF RegisterServer, SocketStates
  <2>2. /\ waiting' \in [Usernames -> Sockets \cup {None}]
        /\ activeServers' \in [Sockets -> {"none", "waiting", "paired"}]
        /\ installId' \in [Sockets -> Installs \cup {None}]
        /\ owner' \in [Usernames -> Installs \cup {None}]
    BY <1>3 DEF RegisterServer, ActiveReplaced, TypeOK
  <2>3. /\ lastSeen' \subseteq Usernames
        /\ username' \in [Sockets -> Usernames \cup {None}]
        /\ pingInterval' \subseteq Sockets
    BY <1>3 DEF RegisterServer, TypeOK
  <2> QED
    BY <1>3, <2>1, <2>2, <2>3 DEF RegisterServer, TypeOK
<1>4. ASSUME NEW s \in Sockets, NEW u \in Usernames, RefuseClient(s, u) PROVE TypeOK'
  BY <1>4, ClosingType DEF RefuseClient, TypeOK
<1>5. ASSUME NEW s \in Sockets, NEW u \in Usernames, ConnectClient(s, u) PROVE TypeOK'
  <2>1. waiting[u] \in Sockets
    BY <1>5 DEF ConnectClient, TypeOK
  <2>2. <<waiting[u], s>> \in Pairs
    BY <2>1, PairParts
  <2>3. /\ waiting' \in [Usernames -> Sockets \cup {None}]
        /\ activeServers' \in [Sockets -> {"none", "waiting", "paired"}]
        /\ pairs' \subseteq Pairs
        /\ pairLookup' \in [Sockets -> Pairs \cup {NoPair}]
    BY <1>5, <2>2 DEF ConnectClient, TakeWaiting, TypeOK
  <2>4. /\ lastSeen' \subseteq Usernames
        /\ username' \in [Sockets -> Usernames \cup {None}]
        /\ paired' \subseteq Sockets
        /\ pingInterval' \subseteq Sockets /\ pongTimeout' \subseteq Sockets
        /\ sock' \in [Sockets -> SocketStates]
    BY <1>5, <2>1 DEF ConnectClient, StopPingInterval, TypeOK, SocketStates
  <2> QED
    BY <1>5, <2>3, <2>4 DEF ConnectClient, TypeOK
<1>6. ASSUME NEW s \in Sockets, Forward(s) PROVE TypeOK'
  BY <1>6 DEF Forward, TypeOK
<1>7. ASSUME NEW s \in Sockets, Ping(s) PROVE TypeOK'
  BY <1>7 DEF Ping, TypeOK
<1>8. ASSUME NEW s \in Sockets, Pong(s) PROVE TypeOK'
  BY <1>8 DEF Pong, TypeOK
<1>9. ASSUME NEW s \in Sockets, PongTimeout(s) PROVE TypeOK'
  BY <1>9, ClosingType DEF PongTimeout, PongTimedOut, TypeOK
<1>10. ASSUME NEW s \in Sockets, CloseEvent(s) PROVE TypeOK'
  <2>1. sock' \in [Sockets -> SocketStates]
    <3> DEFINE S == IF pairLookup[s] # NoPair THEN {PartnerIn(pairLookup[s], s)} ELSE {}
    <3>1. sock' = [Closing(S) EXCEPT ![s] = "closed"]
      BY <1>10 DEF CloseEvent, SockAfterClose
    <3> QED
      BY <3>1, ClosingType DEF SocketStates
  <2>2. /\ waiting' \in [Usernames -> Sockets \cup {None}]
        /\ pairLookup' \in [Sockets -> Pairs \cup {NoPair}]
        /\ activeServers' \in [Sockets -> {"none", "waiting", "paired"}]
        /\ installId' \in [Sockets -> Installs \cup {None}]
    BY <1>10 DEF CloseEvent, WaitingAfterClose, LookupAfterClose, TypeOK
  <2> QED
    BY <1>10, <2>1, <2>2 DEF CloseEvent, StopPingInterval, TypeOK
<1>11. ASSUME NEW s \in Sockets, PeerCloses(s) PROVE TypeOK'
  BY <1>11 DEF PeerCloses, TypeOK, SocketStates
<1>12. ASSUME NEW s \in Sockets, PeerVanishes(s) PROVE TypeOK'
  BY <1>12 DEF PeerVanishes, TypeOK
<1>13. ASSUME Restart PROVE TypeOK'
  BY <1>13 DEF Restart, OwnersKept, TypeOK, SocketStates
<1>14. ASSUME NEW u \in Usernames, DaysPass(u) PROVE TypeOK'
  BY <1>14 DEF DaysPass, TypeOK
<1>15. CASE UNCHANGED vars
  BY <1>15 DEF vars, TypeOK
<1> QED
  BY <1>1, <1>2, <1>3, <1>4, <1>5, <1>6, <1>7, <1>8, <1>9, <1>10, <1>11, <1>12,
     <1>13, <1>14, <1>15 DEF Next, Messages, Events

-----------------------------------------------------------------------------
(* The tables of the relay                                                 *)

LEMMA TablesInit == Init => TablesInv
<1> SUFFICES ASSUME Init PROVE TablesInv
  OBVIOUS
<1>1. TypeOK
  BY TypeInit
<1>2. WaitingConsistent /\ PairsConsistent
  BY DEF Init, WaitingConsistent, PairsConsistent
<1>3. ClosedIsForgotten /\ FreshIsUnused /\ OwnerServes /\ PairedUnwatched
  BY NoneAssumption DEF Init, ClosedIsForgotten, FreshIsUnused, OwnerServes,
                        PairedUnwatched
<1> QED
  BY <1>1, <1>2, <1>3 DEF TablesInv

\* A step that changes no table, opens or closes no socket.
LEMMA TablesKept ==
  ASSUME TablesInv, TypeOK', UNCHANGED <<managerVars, owner, username, paired>>,
         pingInterval' \subseteq pingInterval,
         \A s \in pongTimeout' : s \in pongTimeout \cup pingInterval,
         \A s \in Sockets : sock'[s] \in {"closed", "connecting", "open"} =>
             sock'[s] = sock[s] \/ (sock'[s] = "open" /\ sock[s] = "connecting")
  PROVE  TablesInv'
<1> USE DEF TablesInv, managerVars
<1>1. WaitingConsistent'
  BY DEF WaitingConsistent, TypeOK
<1>2. PairsConsistent'
  BY DEF PairsConsistent
<1>3. ClosedIsForgotten'
  BY DEF ClosedIsForgotten, TypeOK
<1>4. FreshIsUnused'
  BY DEF FreshIsUnused, TypeOK
<1>5. OwnerServes'
  BY DEF OwnerServes
<1>6. PairedUnwatched'
  BY DEF PairedUnwatched
<1> QED
  BY <1>1, <1>2, <1>3, <1>4, <1>5, <1>6

LEMMA TablesRegister ==
  ASSUME TablesInv, TypeOK', NEW s \in Sockets, NEW u \in Usernames, NEW i \in Installs,
         RegisterServer(s, u, i)
  PROVE  TablesInv'
<1> USE DEF TablesInv
<1>1. /\ sock[s] = "open" /\ owner[u] \in {None, i} /\ s # None /\ i # None
      /\ \A v \in Usernames : waiting[v] # s
      /\ pairLookup[s] = NoPair /\ activeServers[s] = "none"
      /\ s \notin paired \cup pingInterval \cup pongTimeout
  BY NoneAssumption DEF RegisterServer, CanRegister, FreshIsUnused
<1>2. /\ pairs' = pairs /\ pairLookup' = pairLookup /\ paired' = paired
      /\ pongTimeout' = pongTimeout /\ pingInterval' = pingInterval \cup {s}
      /\ waiting' = [waiting EXCEPT ![u] = s]
      /\ username' = [username EXCEPT ![s] = u]
      /\ owner' = [owner EXCEPT ![u] = i]
  BY DEF RegisterServer
<1>3. \A t \in Sockets :
         /\ activeServers'[t] = IF t = s THEN "waiting"
                                ELSE IF t = waiting[u] THEN "none" ELSE activeServers[t]
         /\ installId'[t] = IF t = s THEN i
                            ELSE IF t = waiting[u] THEN None ELSE installId[t]
  BY DEF RegisterServer, ActiveReplaced
<1>4. \A t \in Sockets :
         /\ t = s => sock'[t] = "joined"
         /\ t # s => sock'[t] = sock[t]
                     \/ (sock'[t] = "closing" /\ sock[t] \in {"open", "joined"})
  BY DEF RegisterServer, Closing, TypeOK
<1>5. WaitingConsistent'
  <2>1. ASSUME NEW v \in Usernames, waiting'[v] # None
        PROVE  /\ activeServers'[waiting'[v]] = "waiting" /\ username'[waiting'[v]] = v
               /\ pairLookup'[waiting'[v]] = NoPair /\ sock'[waiting'[v]] # "closed"
    <3>1. CASE v = u
      BY <3>1, <1>1, <1>2, <1>3, <1>4 DEF TypeOK
    <3>2. CASE v # u
      <4>1. /\ waiting'[v] = waiting[v] /\ waiting[v] \in Sockets
            /\ waiting[v] # s /\ waiting[v] # waiting[u]
        BY <2>1, <3>2, <1>1, <1>2 DEF WaitingConsistent, TypeOK
      <4> QED
        BY <2>1, <4>1, <1>2, <1>3, <1>4 DEF WaitingConsistent, TypeOK
    <3> QED
      BY <3>1, <3>2
  <2>2. ASSUME NEW t \in Sockets, activeServers'[t] = "waiting"
        PROVE  username'[t] # None /\ waiting'[username'[t]] = t
    <3>1. CASE t = s
      BY <3>1, <1>2, NoneAssumption DEF TypeOK
    <3>2. CASE t # s
      BY <3>2, <2>2, <1>2, <1>3 DEF WaitingConsistent, TypeOK
    <3> QED
      BY <3>1, <3>2
  <2> QED
    BY <2>1, <2>2 DEF WaitingConsistent
<1>6. PairsConsistent'
  <2>1. ASSUME NEW t \in Sockets
        PROVE  activeServers'[t] = "paired" <=> pairLookup'[t] # NoPair /\ pairLookup'[t][1] = t
    BY <1>1, <1>2, <1>3, NoneAssumption DEF PairsConsistent, WaitingConsistent, TypeOK
  <2> QED
    BY <2>1, <1>2 DEF PairsConsistent
<1>7. ClosedIsForgotten'
  BY <1>1, <1>2, <1>3, <1>4 DEF ClosedIsForgotten, TypeOK
<1>8. FreshIsUnused'
  BY <1>1, <1>2, <1>3, <1>4 DEF FreshIsUnused, TypeOK
<1>9. OwnerServes'
  <2> SUFFICES ASSUME NEW t \in Sockets, activeServers'[t] # "none"
               PROVE  /\ username'[t] # None /\ installId'[t] # None
                      /\ owner'[username'[t]] = installId'[t]
    BY DEF OwnerServes
  <2>1. CASE t = s
    BY <2>1, <1>1, <1>2, <1>3, NoneAssumption DEF TypeOK
  <2>2. CASE t # s
    <3>1. /\ username'[t] = username[t] /\ installId'[t] = installId[t]
          /\ username[t] \in Usernames /\ installId[t] # None
          /\ owner[username[t]] = installId[t]
      BY <2>2, <1>2, <1>3 DEF OwnerServes, TypeOK
    <3> QED
      BY <3>1, <1>1, <1>2, NoneAssumption DEF TypeOK
  <2> QED
    BY <2>1, <2>2
<1>10. PairedUnwatched'
  BY <1>1, <1>2 DEF PairedUnwatched
<1> QED
  BY <1>5, <1>6, <1>7, <1>8, <1>9, <1>10

LEMMA TablesConnect ==
  ASSUME TablesInv, TypeOK', NEW s \in Sockets, NEW u \in Usernames, ConnectClient(s, u)
  PROVE  TablesInv'
<1> USE DEF TablesInv
<1> DEFINE server == waiting[u]
<1>1. /\ sock[s] = "open" /\ server \in Sockets /\ server # s
      /\ \A v \in Usernames : waiting[v] # s
      /\ pairLookup[s] = NoPair /\ activeServers[s] = "none"
      /\ s \notin paired \cup pingInterval \cup pongTimeout
  BY DEF ConnectClient, FreshIsUnused, TypeOK
<1>2. /\ activeServers[server] = "waiting" /\ username[server] = u
      /\ pairLookup[server] = NoPair /\ sock[server] \notin {"closed", "connecting", "open"}
  BY <1>1 DEF WaitingConsistent, FreshIsUnused, ConnectClient
<1>3. /\ waiting' = [waiting EXCEPT ![u] = None]
      /\ activeServers' = [activeServers EXCEPT ![server] = "paired"]
      /\ pairs' = pairs \cup {<<server, s>>}
      /\ pairLookup' = [pairLookup EXCEPT ![server] = <<server, s>>, ![s] = <<server, s>>]
      /\ username' = [username EXCEPT ![s] = u]
      /\ sock' = [sock EXCEPT ![s] = "joined"]
      /\ owner' = owner /\ installId' = installId
  BY DEF ConnectClient, TakeWaiting
<1>4. /\ paired' = paired \cup {server, s}
      /\ pingInterval' = pingInterval \ {server} /\ pongTimeout' = pongTimeout \ {server}
  BY DEF ConnectClient, StopPingInterval
<1>5. \A t \in Sockets : t # s /\ t # server => pairLookup'[t] = pairLookup[t]
  BY <1>3 DEF TypeOK
<1>6. pairLookup'[s] = <<server, s>> /\ pairLookup'[server] = <<server, s>>
  BY <1>1, <1>3 DEF TypeOK
<1>p. /\ <<server, s>> # NoPair /\ <<server, s>>[1] = server /\ <<server, s>>[2] = s
      /\ <<server, s>> \in Pairs
  BY <1>1, PairParts
<1> HIDE DEF server
<1>7. WaitingConsistent'
  <2>1. ASSUME NEW v \in Usernames, waiting'[v] # None
        PROVE  /\ waiting'[v] = waiting[v] /\ v # u
               /\ waiting[v] \in Sockets /\ waiting[v] # s /\ waiting[v] # server
    BY <2>1, <1>1, <1>2, <1>3 DEF WaitingConsistent, TypeOK
  <2>2. ASSUME NEW v \in Usernames, waiting'[v] # None
        PROVE  /\ activeServers'[waiting'[v]] = "waiting" /\ username'[waiting'[v]] = v
               /\ pairLookup'[waiting'[v]] = NoPair /\ sock'[waiting'[v]] # "closed"
    BY <2>1, <2>2, <1>3, <1>5 DEF WaitingConsistent, TypeOK
  <2>3. ASSUME NEW t \in Sockets, activeServers'[t] = "waiting"
        PROVE  username'[t] # None /\ waiting'[username'[t]] = t
    BY <2>3, <1>1, <1>2, <1>3 DEF WaitingConsistent, TypeOK, server
  <2> QED
    BY <2>2, <2>3 DEF WaitingConsistent
<1>8. PairsConsistent'
  <2>1. ASSUME NEW p \in pairs
        PROVE  /\ p[1] \in Sockets \ {s, server} /\ p[2] \in Sockets \ {s, server}
               /\ p[1] # p[2] /\ pairLookup'[p[1]] = p /\ pairLookup'[p[2]] = p
    BY <1>1, <1>2, <1>5, PairsAreSockets DEF PairsConsistent, TypeOK
  <2>2. \A p \in pairs' : p[1] # p[2] /\ pairLookup'[p[1]] = p /\ pairLookup'[p[2]] = p
    BY <2>1, <1>1, <1>3, <1>6, <1>p
  <2>3. ASSUME NEW t \in Sockets, pairLookup'[t] # NoPair
        PROVE  pairLookup'[t] \in pairs' /\ t \in {pairLookup'[t][1], pairLookup'[t][2]}
    <3>1. CASE t = s \/ t = server
      <4>1. pairLookup'[t] = <<server, s>>
        BY <3>1, <1>6
      <4> QED
        BY <4>1, <3>1, <1>3, <1>p
    <3>2. CASE t # s /\ t # server
      <4>1. pairLookup'[t] = pairLookup[t]
        BY <3>2, <1>5
      <4> QED
        BY <4>1, <2>3, <1>3 DEF PairsConsistent
    <3> QED
      BY <3>1, <3>2
  <2>4. ASSUME NEW t \in Sockets
        PROVE  activeServers'[t] = "paired" <=> pairLookup'[t] # NoPair /\ pairLookup'[t][1] = t
    BY <1>1, <1>2, <1>3, <1>5, <1>6, <1>p DEF PairsConsistent, TypeOK
  <2> QED
    BY <2>2, <2>3, <2>4 DEF PairsConsistent
<1>9. ClosedIsForgotten'
  <2> SUFFICES ASSUME NEW t \in Sockets, sock'[t] = "closed"
               PROVE  /\ \A v \in Usernames : waiting'[v] # t
                      /\ pairLookup'[t] = NoPair /\ activeServers'[t] = "none"
                      /\ t \notin paired' \cup pingInterval' \cup pongTimeout'
    BY DEF ClosedIsForgotten
  <2>1. t # s /\ t # server /\ sock[t] = "closed"
    BY <1>1, <1>2, <1>3 DEF TypeOK
  <2> QED
    BY <2>1, <1>3, <1>4, <1>5, NoneAssumption DEF ClosedIsForgotten, TypeOK
<1>10. FreshIsUnused'
  <2> SUFFICES ASSUME NEW t \in Sockets, sock'[t] \in {"connecting", "open"}
               PROVE  /\ \A v \in Usernames : waiting'[v] # t
                      /\ pairLookup'[t] = NoPair /\ activeServers'[t] = "none"
                      /\ t \notin paired' \cup pingInterval' \cup pongTimeout'
    BY DEF FreshIsUnused
  <2>1. t # s /\ t # server /\ sock[t] \in {"connecting", "open"}
    BY <1>1, <1>2, <1>3 DEF TypeOK
  <2> QED
    BY <2>1, <1>3, <1>4, <1>5, NoneAssumption DEF FreshIsUnused, TypeOK
<1>11. OwnerServes'
  BY <1>1, <1>2, <1>3 DEF OwnerServes, TypeOK
<1>12. PairedUnwatched'
  BY <1>1, <1>4 DEF PairedUnwatched
<1> QED
  BY <1>7, <1>8, <1>9, <1>10, <1>11, <1>12

LEMMA TablesClose ==
  ASSUME TablesInv, TypeOK', NEW s \in Sockets, CloseEvent(s)
  PROVE  TablesInv'
<1> USE DEF TablesInv
<1> DEFINE p == pairLookup[s]
<1>1. /\ sock[s] \in {"closing", "leaving"}
      /\ pairs' = pairs \ {p} /\ owner' = owner
      /\ paired' = paired \ {s}
      /\ username' = [username EXCEPT ![s] = None]
      /\ pingInterval' = pingInterval \ {s} /\ pongTimeout' = pongTimeout \ {s}
  BY DEF CloseEvent, StopPingInterval, registryVars
<1>2. \A u \in Usernames : waiting'[u] = IF waiting[u] = s THEN None ELSE waiting[u]
  BY NoneAssumption DEF CloseEvent, WaitingAfterClose, WaitingConsistent
<1>3. \A t \in Sockets :
         pairLookup'[t] = IF p # NoPair /\ t \in {p[1], p[2]} THEN NoPair ELSE pairLookup[t]
  BY DEF CloseEvent, LookupAfterClose
<1>4. \A t \in Sockets :
         sock'[t] = IF t = s THEN "closed"
                    ELSE IF p # NoPair /\ t = PartnerIn(p, s) /\ sock[t] \in {"open", "joined"}
                         THEN "closing" ELSE sock[t]
  BY DEF CloseEvent, SockAfterClose, Closing
<1>5. \A t \in Sockets :
         /\ activeServers'[t] = IF t \in EntriesClosed(s) THEN "none" ELSE activeServers[t]
         /\ installId'[t] = IF t \in EntriesClosed(s) THEN None ELSE installId[t]
  BY DEF CloseEvent
<1>6. p # NoPair => p \in pairs /\ s \in {p[1], p[2]} /\ p[1] # p[2] /\ p \in Pairs
                    /\ p[1] \in Sockets /\ p[2] \in Sockets
                    /\ pairLookup[p[1]] = p /\ pairLookup[p[2]] = p
  BY PairsAreSockets DEF PairsConsistent, TypeOK
\* What the entries that are deleted stood for
<1>7. /\ activeServers[s] = "waiting" => EntriesClosed(s) = {s} /\ p = NoPair
      /\ activeServers[s] # "waiting" =>
            EntriesClosed(s) = IF p # NoPair THEN {p[1]} ELSE {}
  BY NoneAssumption DEF EntriesClosed, WaitingConsistent, TypeOK
<1> HIDE DEF p
<1>8. activeServers'[s] = "none"
  BY <1>5, <1>6, <1>7 DEF PairsConsistent, TypeOK, p
<1>9. WaitingConsistent'
  <2>1. ASSUME NEW u \in Usernames, waiting'[u] # None
        PROVE  /\ activeServers'[waiting'[u]] = "waiting" /\ username'[waiting'[u]] = u
               /\ pairLookup'[waiting'[u]] = NoPair /\ sock'[waiting'[u]] # "closed"
    <3>1. waiting'[u] = waiting[u] /\ waiting[u] \in Sockets /\ waiting[u] # s
      BY <2>1, <1>2 DEF TypeOK
    <3>2. /\ activeServers[waiting[u]] = "waiting" /\ username[waiting[u]] = u
          /\ pairLookup[waiting[u]] = NoPair /\ sock[waiting[u]] # "closed"
      BY <2>1, <3>1 DEF WaitingConsistent
    <3>3. waiting[u] \notin EntriesClosed(s)
      BY <3>1, <3>2, <1>6, <1>7
    <3>4. activeServers'[waiting[u]] = "waiting"
      BY <3>1, <3>2, <3>3, <1>5
    <3>5. pairLookup'[waiting[u]] = NoPair /\ sock'[waiting[u]] # "closed"
      BY <3>1, <3>2, <1>3, <1>4
    <3> QED
      BY <3>1, <3>2, <3>4, <3>5, <1>1 DEF TypeOK
  <2>2. ASSUME NEW t \in Sockets, activeServers'[t] = "waiting"
        PROVE  username'[t] # None /\ waiting'[username'[t]] = t
    BY <2>2, <1>1, <1>2, <1>5, <1>8 DEF WaitingConsistent, TypeOK
  <2> QED
    BY <2>1, <2>2 DEF WaitingConsistent
<1>10. PairsConsistent'
  <2>1. ASSUME NEW q \in pairs'
        PROVE  q[1] # q[2] /\ pairLookup'[q[1]] = q /\ pairLookup'[q[2]] = q
    <3>1. /\ q \in pairs /\ q # p /\ q[1] \in Sockets /\ q[2] \in Sockets
          /\ q[1] # q[2] /\ pairLookup[q[1]] = q /\ pairLookup[q[2]] = q
      BY <1>1, PairsAreSockets DEF PairsConsistent, TypeOK
    <3>2. p # NoPair => q[1] \notin {p[1], p[2]} /\ q[2] \notin {p[1], p[2]}
      BY <3>1, <1>6
    <3> QED
      BY <3>1, <3>2, <1>3
  <2>2. ASSUME NEW t \in Sockets, pairLookup'[t] # NoPair
        PROVE  pairLookup'[t] \in pairs' /\ t \in {pairLookup'[t][1], pairLookup'[t][2]}
    <3>1. /\ pairLookup'[t] = pairLookup[t] /\ pairLookup[t] \in pairs
          /\ t \in {pairLookup[t][1], pairLookup[t][2]}
      BY <2>2, <1>3 DEF PairsConsistent
    <3>2. pairLookup[t] # p
      BY <3>1, <2>2, <1>3, <1>6
    <3> QED
      BY <3>1, <3>2, <1>1
  <2>3. ASSUME NEW t \in Sockets
        PROVE  activeServers'[t] = "paired" <=> pairLookup'[t] # NoPair /\ pairLookup'[t][1] = t
    <3>1. activeServers[t] = "paired" <=> pairLookup[t] # NoPair /\ pairLookup[t][1] = t
      BY DEF PairsConsistent
    <3>2. CASE t \in EntriesClosed(s)
      BY <3>1, <3>2, <1>3, <1>5, <1>6, <1>7 DEF p
    <3>3. CASE t \notin EntriesClosed(s)
      <4>1. activeServers'[t] = activeServers[t]
        BY <3>3, <1>5
      <4>2. CASE p # NoPair /\ t \in {p[1], p[2]}
        BY <4>1, <4>2, <3>1, <3>3, <1>3, <1>6, <1>7, <1>8 DEF PairsConsistent
      <4>3. CASE ~(p # NoPair /\ t \in {p[1], p[2]})
        BY <4>1, <4>3, <3>1, <1>3
      <4> QED
        BY <4>2, <4>3
    <3> QED
      BY <3>2, <3>3
  <2> QED
    BY <2>1, <2>2, <2>3 DEF PairsConsistent
<1>11. pairLookup'[s] = NoPair
  BY <1>3, <1>6 DEF p
<1>12. ClosedIsForgotten'
  <2> SUFFICES ASSUME NEW t \in Sockets, sock'[t] = "closed"
               PROVE  /\ \A u \in Usernames : waiting'[u] # t
                      /\ pairLookup'[t] = NoPair /\ activeServers'[t] = "none"
                      /\ t \notin paired' \cup pingInterval' \cup pongTimeout'
    BY DEF ClosedIsForgotten
  <2>1. CASE t = s
    BY <2>1, <1>1, <1>2, <1>8, <1>11, NoneAssumption
  <2>2. CASE t # s
    BY <2>2, <1>1, <1>2, <1>3, <1>4, <1>5, NoneAssumption DEF ClosedIsForgotten
  <2> QED
    BY <2>1, <2>2
<1>13. FreshIsUnused'
  <2> SUFFICES ASSUME NEW t \in Sockets, sock'[t] \in {"connecting", "open"}
               PROVE  /\ \A u \in Usernames : waiting'[u] # t
                      /\ pairLookup'[t] = NoPair /\ activeServers'[t] = "none"
                      /\ t \notin paired' \cup pingInterval' \cup pongTimeout'
    BY DEF FreshIsUnused
  <2>1. t # s /\ sock[t] \in {"connecting", "open"}
    BY <1>4
  <2> QED
    BY <2>1, <1>1, <1>2, <1>3, <1>5, NoneAssumption DEF FreshIsUnused
<1>14. OwnerServes'
  BY <1>1, <1>5, <1>8 DEF OwnerServes, TypeOK
<1>15. PairedUnwatched'
  BY <1>1 DEF PairedUnwatched
<1> QED
  BY <1>9, <1>10, <1>12, <1>13, <1>14, <1>15

LEMMA TablesStep == TablesInv /\ [Next]_vars => TablesInv'
<1> SUFFICES ASSUME TablesInv, [Next]_vars PROVE TablesInv'
  OBVIOUS
<1>t. TypeOK /\ TypeOK'
  BY TypeStep DEF TablesInv
<1> USE DEF managerVars, registryVars, handlerVars, timerVars, peerVars
<1>1. ASSUME NEW s \in Sockets, Open(s) PROVE TablesInv'
  BY <1>1, <1>t, TablesKept DEF Open, TypeOK
<1>2. ASSUME NEW s \in Sockets, NEW u \in Usernames, NEW i \in Installs,
             RejectServer(s, u, i)
      PROVE  TablesInv'
  BY <1>2, <1>t, TablesKept DEF RejectServer, Closing
<1>3. ASSUME NEW s \in Sockets, NEW u \in Usernames, NEW i \in Installs,
             RegisterServer(s, u, i)
      PROVE  TablesInv'
  BY <1>3, <1>t, TablesRegister
<1>4. ASSUME NEW s \in Sockets, NEW u \in Usernames, RefuseClient(s, u) PROVE TablesInv'
  BY <1>4, <1>t, TablesKept DEF RefuseClient, Closing
<1>5. ASSUME NEW s \in Sockets, NEW u \in Usernames, ConnectClient(s, u) PROVE TablesInv'
  BY <1>5, <1>t, TablesConnect
<1>6. ASSUME NEW s \in Sockets, Forward(s) PROVE TablesInv'
  BY <1>6, <1>t, TablesKept DEF Forward
<1>7. ASSUME NEW s \in Sockets, Ping(s) PROVE TablesInv'
  BY <1>7, <1>t, TablesKept DEF Ping
<1>8. ASSUME NEW s \in Sockets, Pong(s) PROVE TablesInv'
  BY <1>8, <1>t, TablesKept DEF Pong
<1>9. ASSUME NEW s \in Sockets, PongTimeout(s) PROVE TablesInv'
  BY <1>9, <1>t, TablesKept DEF PongTimeout, PongTimedOut, Closing
<1>10. ASSUME NEW s \in Sockets, CloseEvent(s) PROVE TablesInv'
  BY <1>10, <1>t, TablesClose
<1>11. ASSUME NEW s \in Sockets, PeerCloses(s) PROVE TablesInv'
  BY <1>11, <1>t, TablesKept DEF PeerCloses, TypeOK
<1>12. ASSUME NEW s \in Sockets, PeerVanishes(s) PROVE TablesInv'
  BY <1>12, <1>t, TablesKept DEF PeerVanishes
<1>13. ASSUME Restart PROVE TablesInv'
  <2>1. WaitingConsistent' /\ PairsConsistent'
    BY <1>13 DEF Restart, WaitingConsistent, PairsConsistent
  <2>2. ClosedIsForgotten' /\ FreshIsUnused' /\ OwnerServes' /\ PairedUnwatched'
    BY <1>13, NoneAssumption
    DEF Restart, ClosedIsForgotten, FreshIsUnused, OwnerServes, PairedUnwatched
  <2> QED
    BY <1>t, <2>1, <2>2 DEF TablesInv
<1>14. ASSUME NEW u \in Usernames, DaysPass(u) PROVE TablesInv'
  BY <1>14, <1>t, TablesKept DEF DaysPass
<1>15. CASE UNCHANGED vars
  BY <1>15, <1>t, TablesKept DEF vars
<1> QED
  BY <1>1, <1>2, <1>3, <1>4, <1>5, <1>6, <1>7, <1>8, <1>9, <1>10, <1>11, <1>12,
     <1>13, <1>14, <1>15 DEF Next, Messages, Events

-----------------------------------------------------------------------------
(* What was forwarded                                                      *)

LEMMA HistoryInit == Init => HistoryInv
BY DEF Init, HistoryInv, HeardTogether, OnePartner

\* A step that forwards nothing, makes no spent socket waiting or fresh, and
\* gives spent sockets of one pair, or of none, the same pair again.
LEMMA HistoryKept ==
  ASSUME TypeOK, HistoryInv, heard' = heard,
         \A s \in Sockets : Spent(s) => Spent(s)',
         \A s, t \in Sockets :
             Spent(s) /\ Spent(t) /\ pairLookup[s] = pairLookup[t]
             => pairLookup'[s] = pairLookup'[t]
  PROVE  HistoryInv'
<1>1. HeardTogether'
  BY DEF HistoryInv, HeardTogether
<1>2. OnePartner'
  BY DEF HistoryInv, OnePartner
<1> QED
  BY <1>1, <1>2 DEF HistoryInv

\* Forwarding joins the two ends of a pair, which have heard nobody else.
LEMMA HistoryForward ==
  ASSUME TablesInv, HistoryInv, NEW s \in Sockets, Forward(s)
  PROVE  HistoryInv'
<1> DEFINE p == pairLookup[s]
           t == PartnerIn(p, s)
<1>1. /\ p # NoPair /\ p \in Pairs /\ p[1] \in Sockets /\ p[2] \in Sockets /\ p[1] # p[2]
      /\ pairLookup[p[1]] = p /\ pairLookup[p[2]] = p /\ s \in {p[1], p[2]}
  BY PairsAreSockets DEF Forward, TablesInv, PairsConsistent, TypeOK
<1>2. t \in {p[1], p[2]} /\ t # s
  BY <1>1 DEF PartnerIn
<1>3. heard' = [heard EXCEPT ![t] = @ \cup {s}]
      /\ waiting' = waiting /\ sock' = sock /\ pairLookup' = pairLookup
  BY DEF Forward, managerVars
<1> HIDE DEF p, t
<1>4. t \in Sockets /\ pairLookup[t] = p /\ pairLookup[s] = p
  BY <1>1, <1>2 DEF p
<1>5. \A a \in Sockets : heard'[a] = IF a = t THEN heard[a] \cup {s} ELSE heard[a]
  BY <1>3, <1>4 DEF TablesInv, TypeOK
<1>6. Spent(s) /\ Spent(t)
  <2>1. ASSUME NEW a \in Sockets, pairLookup[a] = p PROVE Spent(a)
    <3>1. sock[a] \notin {"connecting", "open"}
      BY <2>1, <1>1 DEF TablesInv, FreshIsUnused
    <3>2. \A u \in Usernames : waiting[u] # a
      BY <2>1, <1>1, NoneAssumption DEF TablesInv, WaitingConsistent
    <3> QED
      BY <3>1, <3>2 DEF Spent
  <2> QED
    BY <2>1, <1>4
\* Whoever exchanged data with an end of the pair is the other end.
<1>7. ASSUME NEW a \in Sockets, NEW b \in Sockets, a # b,
             pairLookup[a] = p, pairLookup[b] = p
      PROVE  {a, b} = {s, t}
  <2>1. a \in {p[1], p[2]} /\ b \in {p[1], p[2]}
    BY <1>7, <1>1 DEF TablesInv, PairsConsistent
  <2> QED
    BY <2>1, <1>7, <1>1, <1>2
<1>8. HeardTogether'
  <2> SUFFICES ASSUME NEW a \in Sockets, NEW b \in Sockets, b \in heard'[a]
               PROVE  a # b /\ Spent(a)' /\ Spent(b)' /\ pairLookup'[a] = pairLookup'[b]
    BY DEF HeardTogether
  <2>1. a # b /\ Spent(a) /\ Spent(b) /\ pairLookup[a] = pairLookup[b]
    <3>1. CASE b \in heard[a]
      BY <3>1 DEF HistoryInv, HeardTogether
    <3>2. CASE b \notin heard[a]
      <4>1. a = t /\ b = s
        BY <3>2, <1>5
      <4> QED
        BY <4>1, <1>2, <1>4, <1>6
    <3> QED
      BY <3>1, <3>2
  <2> QED
    BY <2>1, <1>3 DEF Spent
\* An exchange with an end of the pair is one within the pair.
<1>9. ASSUME NEW a \in Sockets, NEW b \in Sockets, b \in heard'[a],
             a \in {s, t} \/ b \in {s, t}
      PROVE  {a, b} = {s, t}
  <2>1. a # b /\ pairLookup[a] = pairLookup[b]
    BY <1>9, <1>8, <1>3 DEF HeardTogether
  <2> QED
    BY <2>1, <1>9, <1>4, <1>7
<1>10. OnePartner'
  <2> SUFFICES ASSUME NEW a \in Sockets, NEW b \in Sockets, NEW c \in Sockets
               PROVE  /\ b \in heard'[a] /\ c \in heard'[a] => b = c
                      /\ b \in heard'[a] /\ c \in heard'[b] => a = c
                      /\ b \in heard'[a] /\ b \in heard'[c] => a = c
    BY DEF OnePartner
  <2>1. ASSUME b \in heard'[a], c \in heard'[a] PROVE b = c
    <3>1. CASE a = t
      BY <2>1, <3>1, <1>9, <1>2
    <3>2. CASE a # t
      BY <2>1, <3>2, <1>5 DEF HistoryInv, OnePartner
    <3> QED
      BY <3>1, <3>2
  <2>2. ASSUME b \in heard'[a], c \in heard'[b] PROVE a = c
    <3>1. CASE a = t \/ b = t
      BY <2>2, <3>1, <1>9, <1>2
    <3>2. CASE a # t /\ b # t
      BY <2>2, <3>2, <1>5 DEF HistoryInv, OnePartner
    <3> QED
      BY <3>1, <3>2
  <2>3. ASSUME b \in heard'[a], b \in heard'[c] PROVE a = c
    <3>1. CASE a = t \/ c = t
      BY <2>3, <3>1, <1>9, <1>2
    <3>2. CASE a # t /\ c # t
      BY <2>3, <3>2, <1>5 DEF HistoryInv, OnePartner
    <3> QED
      BY <3>1, <3>2
  <2> QED
    BY <2>1, <2>2, <2>3
<1> QED
  BY <1>8, <1>10 DEF HistoryInv

LEMMA HistoryStep == TablesInv /\ HistoryInv /\ [Next]_vars => HistoryInv'
<1> SUFFICES ASSUME TablesInv, HistoryInv, [Next]_vars PROVE HistoryInv'
  OBVIOUS
<1>t. TypeOK
  BY DEF TablesInv
<1> USE DEF managerVars, registryVars, handlerVars, timerVars, peerVars
<1>1. ASSUME NEW s \in Sockets, Open(s) PROVE HistoryInv'
  BY <1>1, <1>t, HistoryKept DEF Open, Spent, TypeOK
<1>2. ASSUME NEW s \in Sockets, NEW u \in Usernames, NEW i \in Installs,
             RejectServer(s, u, i)
      PROVE  HistoryInv'
  BY <1>2, <1>t, HistoryKept DEF RejectServer, Closing, Spent, TypeOK
<1>3. ASSUME NEW s \in Sockets, NEW u \in Usernames, NEW i \in Installs,
             RegisterServer(s, u, i)
      PROVE  HistoryInv'
  <2>1. ASSUME NEW a \in Sockets, Spent(a) PROVE Spent(a)'
    BY <2>1, <1>3, <1>t DEF RegisterServer, Closing, Spent, TypeOK
  <2> QED
    BY <2>1, <1>3, <1>t, HistoryKept DEF RegisterServer
<1>4. ASSUME NEW s \in Sockets, NEW u \in Usernames, RefuseClient(s, u)
      PROVE  HistoryInv'
  BY <1>4, <1>t, HistoryKept DEF RefuseClient, Closing, Spent, TypeOK
<1>5. ASSUME NEW s \in Sockets, NEW u \in Usernames, ConnectClient(s, u)
      PROVE  HistoryInv'
  <2>1. ASSUME NEW a \in Sockets, Spent(a)
        PROVE  Spent(a)' /\ pairLookup'[a] = pairLookup[a]
    BY <2>1, <1>5, <1>t, NoneAssumption DEF ConnectClient, TakeWaiting, Spent, TypeOK
  <2> QED
    BY <2>1, <1>5, <1>t, HistoryKept DEF ConnectClient
<1>6. ASSUME NEW s \in Sockets, Forward(s) PROVE HistoryInv'
  BY <1>6, HistoryForward
<1>7. ASSUME NEW s \in Sockets, Ping(s) PROVE HistoryInv'
  BY <1>7, <1>t, HistoryKept DEF Ping, Spent
<1>8. ASSUME NEW s \in Sockets, Pong(s) PROVE HistoryInv'
  BY <1>8, <1>t, HistoryKept DEF Pong, Spent
<1>9. ASSUME NEW s \in Sockets, PongTimeout(s) PROVE HistoryInv'
  BY <1>9, <1>t, HistoryKept DEF PongTimeout, PongTimedOut, Closing, Spent, TypeOK
<1>10. ASSUME NEW s \in Sockets, CloseEvent(s) PROVE HistoryInv'
  <2>1. ASSUME NEW a \in Sockets, Spent(a) PROVE Spent(a)'
    BY <2>1, <1>10, <1>t, NoneAssumption
    DEF CloseEvent, WaitingAfterClose, SockAfterClose, Closing, Spent, TypeOK
  <2>2. ASSUME NEW a \in Sockets, NEW b \in Sockets, pairLookup[a] = pairLookup[b]
        PROVE  pairLookup'[a] = pairLookup'[b]
    <3> DEFINE p == pairLookup[s]
    <3>1. \A t \in Sockets :
             pairLookup'[t] = IF p # NoPair /\ t \in {p[1], p[2]} THEN NoPair
                              ELSE pairLookup[t]
      BY <1>10 DEF CloseEvent, LookupAfterClose
    <3>2. p # NoPair => p[1] \in Sockets /\ p[2] \in Sockets
                        /\ pairLookup[p[1]] = p /\ pairLookup[p[2]] = p
      BY <1>t, PairsAreSockets DEF TablesInv, PairsConsistent, TypeOK
    <3>3. ASSUME NEW t \in Sockets, p # NoPair
          PROVE  t \in {p[1], p[2]} <=> pairLookup[t] = p
      BY <3>2, <3>3 DEF TablesInv, PairsConsistent
    <3> HIDE DEF p
    <3> QED
      BY <2>2, <3>1, <3>3
  <2> QED
    BY <2>1, <2>2, <1>10, <1>t, HistoryKept DEF CloseEvent
<1>11. ASSUME NEW s \in Sockets, PeerCloses(s) PROVE HistoryInv'
  BY <1>11, <1>t, HistoryKept DEF PeerCloses, Spent, TypeOK
<1>12. ASSUME NEW s \in Sockets, PeerVanishes(s) PROVE HistoryInv'
  BY <1>12, <1>t, HistoryKept DEF PeerVanishes, Spent
<1>13. ASSUME Restart PROVE HistoryInv'
  <2>1. ASSUME NEW a \in Sockets, Spent(a) PROVE Spent(a)'
    BY <2>1, <1>13, NoneAssumption DEF Restart, Spent
  <2> QED
    BY <2>1, <1>13, <1>t, HistoryKept DEF Restart
<1>14. ASSUME NEW u \in Usernames, DaysPass(u) PROVE HistoryInv'
  BY <1>14, <1>t, HistoryKept DEF DaysPass, Spent
<1>15. CASE UNCHANGED vars
  BY <1>15, <1>t, HistoryKept DEF vars, Spent
<1> QED
  BY <1>1, <1>2, <1>3, <1>4, <1>5, <1>6, <1>7, <1>8, <1>9, <1>10, <1>11, <1>12,
     <1>13, <1>14, <1>15 DEF Next, Messages, Events

-----------------------------------------------------------------------------
(* Theorems                                                                *)

LEMMA Invariants == Spec => [](TablesInv /\ HistoryInv)
<1>1. Init => TablesInv /\ HistoryInv
  BY TablesInit, HistoryInit
<1>2. TablesInv /\ HistoryInv /\ [Next]_vars => (TablesInv /\ HistoryInv)'
  BY TablesStep, HistoryStep
<1> QED
  BY <1>1, <1>2, PTL DEF Spec

\* Every variable of the relay stays in its set, whatever the order of messages,
\* timer ticks, close events and restarts (connections.ts, ws-handler.ts).
THEOREM RelayTypeCorrect == Spec => []TypeOK
<1>1. TablesInv => TypeOK
  BY DEF TablesInv
<1> QED
  BY Invariants, <1>1, PTL

\* The tables of the connection manager agree after every event, for any number of
\* sockets: a server waits, is paired or is neither, in all of them alike, and
\* nothing refers to a socket whose close event ran (connections.ts).
THEOREM RelayTablesAgree == Spec => []TablesAgree
<1>1. TablesInv => TablesAgree
  BY DEF TablesInv, TablesAgree
<1> QED
  BY Invariants, <1>1, PTL

\* The waiting map and the active-server list of the connection manager agree
\* after every event: a server waits under its own username, unpaired, exactly
\* while its entry says so.
THEOREM RelayWaitingConsistent == Spec => []WaitingConsistent
<1>1. TablesInv => WaitingConsistent
  BY DEF TablesInv
<1> QED
  BY Invariants, <1>1, PTL

\* The pair set and the lookup by socket agree after every event, and no half of
\* a pair outlives the other half.
THEOREM RelayPairsConsistent == Spec => []PairsConsistent
<1>1. TablesInv => PairsConsistent
  BY DEF TablesInv
<1> QED
  BY Invariants, <1>1, PTL

\* Nothing in the relay's memory refers to a socket whose close event ran.
THEOREM RelayClosedIsForgotten == Spec => []ClosedIsForgotten
<1>1. TablesInv => ClosedIsForgotten
  BY DEF TablesInv
<1> QED
  BY Invariants, <1>1, PTL

\* Whoever waits under a username, or is paired under it, registered it from the
\* installation that owns the username's row now, across restarts and
\* reclamation.
THEOREM RelayOwnerServes == Spec => []OwnerServes
<1>1. TablesInv => OwnerServes
  BY DEF TablesInv
<1> QED
  BY Invariants, <1>1, PTL

\* The keepalive of the relay never runs on a paired socket.
THEOREM RelayPairedUnwatched == Spec => []PairedUnwatched
<1>1. TablesInv => PairedUnwatched
  BY DEF TablesInv
<1> QED
  BY Invariants, <1>1, PTL

\* In its whole life a socket exchanges data with at most one other socket.
THEOREM RelayOnePartner == Spec => []OnePartner
<1>1. HistoryInv => OnePartner
  BY DEF HistoryInv
<1> QED
  BY Invariants, <1>1, PTL

\* A username changes hands only when the start-up reclaims one not seen for
\* long: no message of another installation takes it.
THEOREM RelayOwnerKept == Spec => OwnerKept
<1> DEFINE Kept == \A u \in Usernames :
                      owner[u] # None /\ owner'[u] # owner[u] =>
                          u \notin lastSeen /\ owner'[u] = None
<1>1. TypeOK /\ [Next]_vars => Kept
  <2> SUFFICES ASSUME TypeOK, [Next]_vars PROVE Kept
    OBVIOUS
  <2>1. ASSUME NEW s \in Sockets, NEW u \in Usernames, NEW i \in Installs,
               RegisterServer(s, u, i)
        PROVE  Kept
    BY <2>1 DEF RegisterServer, CanRegister, TypeOK
  <2>2. ASSUME Restart PROVE Kept
    BY <2>2 DEF Restart, OwnersKept
  <2>3. CASE owner' = owner
    BY <2>3
  <2> QED
    BY <2>1, <2>2, <2>3
    DEF Next, vars, Messages, Events, Open, RejectServer, RefuseClient, ConnectClient,
        Forward, Ping, Pong, PongTimeout, CloseEvent, PeerCloses, PeerVanishes,
        DaysPass, registryVars
<1> QED
  BY <1>1, RelayTypeCorrect, PTL DEF Spec, OwnerKept

\* A waiting server loses its place to a client it is paired with, to its own
\* close event, to a newer connection of its own installation or to a restart,
\* and to nothing else.
THEOREM RelayWaitingLeavesForCause == Spec => WaitingLeavesForCause
<1> DEFINE Cause == \A u \in Usernames :
                       waiting[u] # None /\ waiting'[u] # waiting[u] =>
                          \/ pairLookup'[waiting[u]] # NoPair
                          \/ sock'[waiting[u]] = "closed"
                          \/ waiting'[u] # None /\ installId'[waiting'[u]] = installId[waiting[u]]
<1>1. TablesInv /\ [Next]_vars => Cause
  <2> SUFFICES ASSUME TablesInv, [Next]_vars PROVE Cause
    OBVIOUS
  <2>t. TypeOK
    BY DEF TablesInv
  <2>1. ASSUME NEW s \in Sockets, NEW u \in Usernames, NEW i \in Installs,
               RegisterServer(s, u, i)
        PROVE  Cause
    <3>1. s # None /\ waiting' = [waiting EXCEPT ![u] = s] /\ owner[u] \in {None, i}
      BY <2>1, NoneAssumption DEF RegisterServer, CanRegister
    <3>2. waiting[u] # None => owner[u] = installId[waiting[u]] /\ installId[waiting[u]] # None
      BY <2>t DEF TablesInv, WaitingConsistent, OwnerServes, TypeOK
    <3>3. installId'[s] = i
      BY <2>1 DEF RegisterServer
    <3> QED
      BY <2>t, <3>1, <3>2, <3>3 DEF TypeOK
  <2>2. ASSUME NEW s \in Sockets, NEW u \in Usernames, ConnectClient(s, u) PROVE Cause
    <3>1. /\ waiting' = [waiting EXCEPT ![u] = None]
          /\ waiting[u] \in Sockets /\ waiting[u] # s
          /\ pairLookup' = [pairLookup EXCEPT ![waiting[u]] = <<waiting[u], s>>,
                                              ![s] = <<waiting[u], s>>]
      BY <2>t, <2>2 DEF ConnectClient, TakeWaiting, TablesInv, FreshIsUnused, TypeOK
    <3>2. pairLookup'[waiting[u]] # NoPair
      BY <2>t, <3>1, PairParts DEF TypeOK
    <3> QED
      BY <2>t, <3>1, <3>2 DEF TypeOK
  <2>3. ASSUME NEW s \in Sockets, CloseEvent(s) PROVE Cause
    <3>1. sock'[s] = "closed"
      BY <2>t, <2>3 DEF CloseEvent, SockAfterClose, Closing
    <3>2. \A u \in Usernames : waiting'[u] # waiting[u] => waiting[u] = s
      BY <2>3 DEF CloseEvent, WaitingAfterClose
    <3> QED
      BY <3>1, <3>2
  <2>4. ASSUME Restart PROVE Cause
    <3>1. \A u \in Usernames : waiting[u] # None => sock[waiting[u]] # "connecting"
      BY <2>t DEF TablesInv, FreshIsUnused, TypeOK
    <3> QED
      BY <2>t, <2>4, <3>1 DEF Restart, TypeOK
  <2>5. CASE waiting' = waiting
    BY <2>5
  <2> QED
    BY <2>1, <2>2, <2>3, <2>4, <2>5
    DEF Next, vars, Messages, Events, Open, RejectServer, RefuseClient, Forward, Ping,
        Pong, PongTimeout, PeerCloses, PeerVanishes, DaysPass, managerVars
<1>2. Spec => []TablesInv
  BY Invariants, PTL
<1> QED
  BY <1>1, <1>2, PTL DEF Spec, WaitingLeavesForCause
-----------------------------------------------------------------------------
(* The client of a server (RelayClient): what holds of it at any relay, in *)
(* whatever order the relay and the network act.                           *)

(* A new socket has no past, and the relay registers a socket once it is   *)
(* connecting no more: so the two slots never hold the same socket, and a  *)
(* claim takes no socket that is still connecting.                         *)
FreshIsClean ==
    \A s \in ServerSockets : ws[s] = "unused" => answer[s] = "none" /\ s \notin handed

SlotsAnswered ==
    /\ connectingWs # None => answer[connectingWs] # "registered"
    /\ waitingWs # None => answer[waitingWs] = "registered"

ClientInv ==
    /\ Client!TypeOK
    /\ Client!NeverStranded
    /\ Client!WaitingIsWatched
    /\ FreshIsClean
    /\ SlotsAnswered

LEMMA ClientInit == ASSUME Client!Init PROVE ClientInv
  BY DEF Client!Init, ClientInv, Client!TypeOK, Client!NeverStranded, Client!Slots,
         Client!WaitingIsWatched, FreshIsClean, SlotsAnswered, Client!Statuses,
         Client!Lives, Client!Answers

(* What connect() leaves: a fresh socket in the connecting slot of an      *)
(* enabled client, and nothing changed otherwise.                          *)
LEMMA ConnectOpens ==
  ASSUME NEW e \in BOOLEAN, NEW w \in [ServerSockets -> Client!Lives], Client!Connect(e, w)
  PROVE  \/ e /\ \E s \in ServerSockets : /\ w[s] = "unused" /\ connectingWs' = s
                                     /\ ws' = [w EXCEPT ![s] = "connecting"]
                                     /\ status' = "connecting"
         \/ ~e /\ ws' = w /\ UNCHANGED <<connectingWs, status>>
<1> DEFINE s == CHOOSE t \in ServerSockets : w[t] = "unused"
<1>1. CASE e
  <2>1. \E t \in ServerSockets : w[t] = "unused"
    BY <1>1 DEF Client!Connect
  <2>2. s \in ServerSockets /\ w[s] = "unused"
    BY <2>1
  <2>3. /\ ws' = [w EXCEPT ![s] = "connecting"]
        /\ connectingWs' = s /\ status' = "connecting"
    BY <1>1, Zenon DEF Client!Connect
  <2> QED
    BY <1>1, <2>2, <2>3
<1>2. CASE ~e
  BY <1>2 DEF Client!Connect
<1> QED
  BY <1>1, <1>2

(* close() keeps a socket alive until its close event, and revives none.   *)
LEMMA ClosedLives ==
  ASSUME Client!TypeOK, NEW S
  PROVE  /\ Client!Closed(S) \in [ServerSockets -> Client!Lives]
         /\ \A s \in ServerSockets : Client!Closed(S)[s] = "unused" <=> ws[s] = "unused"
         /\ \A s \in ServerSockets : ws[s] \in {"connecting", "open", "closing"}
                               => Client!Closed(S)[s] \in {"connecting", "open", "closing"}
  BY DEF Client!TypeOK, Client!Closed, Client!Lives

LEMMA ClientStarts ==
  ASSUME ClientInv, None \notin ServerSockets, NEW u \in Usernames, Client!Start(u)
  PROVE  ClientInv'
<1> DEFINE w == Client!Closed({connectingWs, waitingWs})
<1>1. /\ w \in [ServerSockets -> Client!Lives]
      /\ \A s \in ServerSockets : w[s] = "unused" <=> ws[s] = "unused"
  BY ClosedLives DEF ClientInv
<1>2. PICK s \in ServerSockets : /\ w[s] = "unused" /\ connectingWs' = s
                           /\ ws' = [w EXCEPT ![s] = "connecting"]
                           /\ status' = "connecting"
  BY <1>1, ConnectOpens DEF Client!Start
<1>3. ws[s] = "unused" /\ s # None
  BY <1>1, <1>2
<1>4. s \notin handed /\ answer[s] = "none"
  BY <1>3 DEF ClientInv, FreshIsClean
<1>5. /\ ws' \in [ServerSockets -> Client!Lives]
      /\ \A t \in ServerSockets : ws'[t] = "unused" => ws[t] = "unused"
  BY <1>1, <1>2 DEF Client!Lives
<1>6. ws'[s] = "connecting"
  BY <1>1, <1>2
<1> HIDE DEF w
<1>7. /\ enabled' = TRUE /\ config' = u /\ reconnectTimer' = FALSE
      /\ pinged' = None /\ clientPongTimeout' = FALSE /\ waitingWs' = None
      /\ connectingWs' = s /\ status' = "connecting"
      /\ UNCHANGED <<asked, answer, handed>>
  BY <1>2 DEF Client!Start, Client!StopKeepalive
<1>8. Client!TypeOK'
  BY <1>5, <1>7 DEF ClientInv, Client!TypeOK, Client!Statuses
<1>9. Client!NeverStranded'
  BY <1>3, <1>4, <1>6, <1>7 DEF Client!NeverStranded, Client!Slots
<1>10. Client!WaitingIsWatched' /\ FreshIsClean' /\ SlotsAnswered'
  BY <1>4, <1>5, <1>7 DEF ClientInv, Client!WaitingIsWatched, FreshIsClean,
                          SlotsAnswered
<1> QED
  BY <1>8, <1>9, <1>10 DEF ClientInv

LEMMA ClientStops ==
  ASSUME ClientInv, Client!Stop
  PROVE  ClientInv'
<1>1. /\ ws' \in [ServerSockets -> Client!Lives]
      /\ \A s \in ServerSockets : ws'[s] = "unused" <=> ws[s] = "unused"
  BY ClosedLives DEF ClientInv, Client!Stop
<1> QED
  BY <1>1
  DEF Client!Stop, ClientInv, Client!StopKeepalive, Client!TypeOK, Client!NeverStranded,
      Client!Slots, Client!WaitingIsWatched, FreshIsClean, SlotsAnswered,
      Client!Statuses

LEMMA ClientTimesOut ==
  ASSUME ClientInv, None \notin ServerSockets, Client!HandleKeepaliveTimeout
  PROVE  ClientInv'
<1>1. /\ ws' \in [ServerSockets -> Client!Lives]
      /\ \A s \in ServerSockets : ws'[s] = "unused" <=> ws[s] = "unused"
      /\ \A s \in ServerSockets : ws[s] \in {"connecting", "open", "closing"}
                            => ws'[s] \in {"connecting", "open", "closing"}
  BY ClosedLives DEF ClientInv, Client!HandleKeepaliveTimeout
<1> QED
  BY <1>1
  DEF Client!HandleKeepaliveTimeout, Client!ScheduleReconnect, ClientInv,
      Client!StopKeepalive, Client!TypeOK, Client!NeverStranded, Client!Slots,
      Client!WaitingIsWatched, FreshIsClean, SlotsAnswered, Client!Statuses

LEMMA ClientOpens ==
  ASSUME ClientInv, None \notin ServerSockets, NEW s \in ServerSockets, Client!HandleOpen(s)
  PROVE  ClientInv'
  BY DEF Client!HandleOpen, Client!slotVars, Client!keepVars, ClientInv, Client!TypeOK,
         Client!NeverStranded, Client!Slots, Client!WaitingIsWatched, FreshIsClean,
         SlotsAnswered, Client!Statuses, Client!Lives

LEMMA ClientRegisters ==
  ASSUME ClientInv, None \notin ServerSockets, NEW s \in ServerSockets, Client!HandleRegistered(s)
  PROVE  ClientInv'
  BY DEF Client!HandleRegistered, Client!Answered, Client!Receives, ClientInv,
         Client!TypeOK, Client!NeverStranded, Client!Slots, Client!WaitingIsWatched,
         FreshIsClean, SlotsAnswered, Client!Statuses, Client!Lives, Client!Answers

LEMMA ClientRejected ==
  ASSUME ClientInv, None \notin ServerSockets, NEW s \in ServerSockets, Client!HandleRejection(s)
  PROVE  ClientInv'
<1>1. /\ ws' \in [ServerSockets -> Client!Lives]
      /\ \A t \in ServerSockets : ws'[t] = "unused" <=> ws[t] = "unused"
      /\ \A t \in ServerSockets : ws[t] \in {"connecting", "open", "closing"}
                            => ws'[t] \in {"connecting", "open", "closing"}
  BY ClosedLives DEF ClientInv, Client!HandleRejection
<1>2. answer[s] = "none" /\ answer' = [answer EXCEPT ![s] = "rejected"] /\ ws[s] # "unused"
  BY DEF Client!HandleRejection, Client!Answered, Client!Receives
<1> QED
  BY <1>1, <1>2
  DEF Client!HandleRejection, Client!slotVars, Client!keepVars, ClientInv,
      Client!TypeOK, Client!NeverStranded, Client!Slots, Client!WaitingIsWatched,
      FreshIsClean, SlotsAnswered, Client!Statuses, Client!Answers

LEMMA ClientClaimed ==
  ASSUME ClientInv, None \notin ServerSockets, NEW s \in ServerSockets, Client!HandleClaimed(s)
  PROVE  ClientInv'
<1>1. ws \in [ServerSockets -> Client!Lives] /\ enabled \in BOOLEAN
  BY DEF ClientInv, Client!TypeOK
<1>2. \/ enabled /\ \E t \in ServerSockets : /\ ws[t] = "unused" /\ connectingWs' = t
                                       /\ ws' = [ws EXCEPT ![t] = "connecting"]
                                       /\ status' = "connecting"
      \/ ~enabled /\ ws' = ws /\ UNCHANGED <<connectingWs, status>>
  BY <1>1, ConnectOpens DEF Client!HandleClaimed
<1>3. CASE ~enabled /\ ws' = ws /\ UNCHANGED <<connectingWs, status>>
  BY <1>3
  DEF Client!HandleClaimed, Client!Receives, Client!StopKeepalive, ClientInv,
      Client!TypeOK, Client!NeverStranded, Client!Slots, Client!WaitingIsWatched,
      FreshIsClean, SlotsAnswered
<1>4. ASSUME NEW t \in ServerSockets, ws[t] = "unused", connectingWs' = t,
             ws' = [ws EXCEPT ![t] = "connecting"], status' = "connecting"
      PROVE  ClientInv'
  <2>1. s # t /\ t # None /\ t \notin handed /\ answer[t] = "none"
    BY <1>4 DEF Client!HandleClaimed, Client!Receives, ClientInv, FreshIsClean
  <2>2. /\ waitingWs' = None /\ pinged' = None /\ clientPongTimeout' = FALSE
        /\ handed' = handed \cup {s}
        /\ UNCHANGED <<enabled, config, reconnectTimer, asked, answer>>
    BY DEF Client!HandleClaimed, Client!StopKeepalive
  <2>3. Client!TypeOK'
    BY <1>4, <2>2 DEF ClientInv, Client!TypeOK, Client!Statuses, Client!Lives
  <2>4. Client!NeverStranded'
    BY <1>1, <1>4, <2>1, <2>2 DEF Client!NeverStranded, Client!Slots
  <2>5. Client!WaitingIsWatched' /\ FreshIsClean' /\ SlotsAnswered'
    BY <1>1, <1>4, <2>1, <2>2
    DEF Client!HandleClaimed, Client!Receives, ClientInv, Client!WaitingIsWatched,
        FreshIsClean, SlotsAnswered
  <2> QED
    BY <2>3, <2>4, <2>5 DEF ClientInv
<1> QED
  BY <1>2, <1>3, <1>4

LEMMA ClientCloses ==
  ASSUME ClientInv, None \notin ServerSockets, NEW s \in ServerSockets, Client!HandleClose(s)
  PROVE  ClientInv'
<1> USE DEF ClientInv, Client!TypeOK, Client!NeverStranded, Client!Slots,
            Client!WaitingIsWatched, FreshIsClean, SlotsAnswered, Client!Lives
<1>1. /\ ws' = [ws EXCEPT ![s] = "closed"] /\ ws' \in [ServerSockets -> Client!Lives]
      /\ UNCHANGED <<enabled, config, asked, answer, handed>>
  BY DEF Client!HandleClose
<1>2. CASE s = connectingWs /\ s \notin handed /\ connectingWs' = None
           /\ Client!ScheduleReconnect
           /\ UNCHANGED <<waitingWs, Client!keepVars>>
  BY <1>1, <1>2 DEF Client!ScheduleReconnect, Client!keepVars, Client!Statuses
<1>3. CASE /\ s = waitingWs /\ s # connectingWs /\ waitingWs' = None /\ Client!StopKeepalive
           /\ Client!ScheduleReconnect /\ UNCHANGED connectingWs
  <2>1. /\ waitingWs' = None /\ pinged' = None /\ clientPongTimeout' = FALSE
        /\ connectingWs' = connectingWs
        /\ \/ enabled /\ reconnectTimer' = TRUE /\ status' = "disconnected"
           \/ ~enabled /\ UNCHANGED <<reconnectTimer, status>>
    BY <1>3 DEF Client!ScheduleReconnect, Client!StopKeepalive
  <2>2. Client!TypeOK' /\ Client!WaitingIsWatched'
    BY <1>1, <2>1 DEF Client!Statuses
  <2>3. Client!NeverStranded'
    BY <1>1, <1>3, <2>1
  <2>4. FreshIsClean' /\ SlotsAnswered'
    BY <1>1, <2>1
  <2> QED
    BY <2>2, <2>3, <2>4
<1>4. CASE /\ s \notin {connectingWs, waitingWs} \/ s \in handed
           /\ UNCHANGED <<Client!slotVars, Client!keepVars, reconnectTimer, status>>
  BY <1>1, <1>4 DEF Client!slotVars, Client!keepVars
<1> QED
  BY <1>2, <1>3, <1>4 DEF Client!HandleClose

LEMMA ClientReconnects ==
  ASSUME ClientInv, None \notin ServerSockets, Client!ReconnectTimerFires
  PROVE  ClientInv'
<1>1. ws \in [ServerSockets -> Client!Lives] /\ enabled \in BOOLEAN
  BY DEF ClientInv, Client!TypeOK
<1>2. \/ enabled /\ \E t \in ServerSockets : /\ ws[t] = "unused" /\ connectingWs' = t
                                       /\ ws' = [ws EXCEPT ![t] = "connecting"]
                                       /\ status' = "connecting"
      \/ ~enabled /\ ws' = ws /\ UNCHANGED <<connectingWs, status>>
  BY <1>1, ConnectOpens DEF Client!ReconnectTimerFires
<1>3. CASE ~enabled /\ ws' = ws /\ UNCHANGED <<connectingWs, status>>
  BY <1>3
  DEF Client!ReconnectTimerFires, Client!keepVars, ClientInv, Client!TypeOK,
      Client!NeverStranded, Client!Slots, Client!WaitingIsWatched, FreshIsClean,
      SlotsAnswered
<1>4. ASSUME NEW t \in ServerSockets, ws[t] = "unused", connectingWs' = t,
             ws' = [ws EXCEPT ![t] = "connecting"], status' = "connecting"
      PROVE  ClientInv'
  <2>1. t # None /\ t \notin handed /\ answer[t] = "none" /\ t # waitingWs
    BY <1>4 DEF ClientInv, FreshIsClean, SlotsAnswered
  <2>2. UNCHANGED <<enabled, config, waitingWs, pinged, clientPongTimeout, asked, answer, handed>>
        /\ reconnectTimer' = FALSE
    BY DEF Client!ReconnectTimerFires, Client!keepVars
  <2>3. Client!TypeOK'
    BY <1>4, <2>2 DEF ClientInv, Client!TypeOK, Client!Statuses, Client!Lives
  <2>4. Client!NeverStranded'
    BY <1>1, <1>4, <2>1, <2>2 DEF ClientInv, Client!NeverStranded, Client!Slots
  <2>5. Client!WaitingIsWatched' /\ FreshIsClean' /\ SlotsAnswered'
    BY <1>1, <1>4, <2>1, <2>2
    DEF ClientInv, Client!WaitingIsWatched, FreshIsClean, SlotsAnswered
  <2> QED
    BY <2>3, <2>4, <2>5 DEF ClientInv
<1> QED
  BY <1>2, <1>3, <1>4

LEMMA ClientPings ==
  ASSUME ClientInv, Client!SendPing \/ \E s \in ServerSockets : Client!HandlePong(s)
  PROVE  ClientInv'
  BY DEF Client!SendPing, Client!HandlePong, Client!slotVars, ClientInv, Client!TypeOK,
         Client!NeverStranded, Client!Slots, Client!WaitingIsWatched, FreshIsClean,
         SlotsAnswered

LEMMA ClientNext ==
  ASSUME ClientInv, None \notin ServerSockets, [Client!Next]_(Client!vars)
  PROVE  ClientInv'
<1>1. CASE UNCHANGED Client!vars
  BY <1>1 DEF Client!vars, Client!slotVars, Client!keepVars, ClientInv, Client!TypeOK,
              Client!NeverStranded, Client!Slots, Client!WaitingIsWatched, FreshIsClean,
              SlotsAnswered
<1>2. CASE Client!Next
  BY <1>2, ClientStarts, ClientStops, ClientOpens, ClientRegisters, ClientRejected, ClientClaimed,
     ClientCloses, ClientReconnects, ClientPings, ClientTimesOut, Zenon
  DEF Client!Next, Client!HandleMessage, Client!ClockDrifted, Client!PongTimeoutFires
<1> QED
  BY <1>1, <1>2

LEMMA ClientInvariant == ASSUME None \notin ServerSockets PROVE Client!Spec => []ClientInv
<1>1. Client!Init => ClientInv
  BY ClientInit
<1>2. ClientInv /\ [Client!Next]_(Client!vars) => ClientInv'
  BY ClientNext
<1> QED
  BY <1>1, <1>2, PTL DEF Client!Spec

\* An enabled relay client (connect, scheduleReconnect, handleClose) always has a
\* timer armed or a live socket in a slot, and no slot holds a socket handed off.
THEOREM ClientNeverStranded ==
  ASSUME None \notin ServerSockets PROVE Client!Spec => []Client!NeverStranded
<1>1. ClientInv => Client!NeverStranded
  BY DEF ClientInv
<1> QED
  BY <1>1, ClientInvariant, PTL

\* The keepalive (startKeepalive, stopKeepalive) watches the waiting socket at all
\* times and nothing else.
THEOREM WaitingAlwaysWatched ==
  ASSUME None \notin ServerSockets PROVE Client!Spec => []Client!WaitingIsWatched
<1>1. ClientInv => Client!WaitingIsWatched
  BY DEF ClientInv
<1> QED
  BY <1>1, ClientInvariant, PTL
-----------------------------------------------------------------------------
(* The composition implements the client, so what holds of a client at any *)
(* relay holds of it.                                                      *)

LEMMA ClientUnchanged == ASSUME UNCHANGED clientVars PROVE UNCHANGED Client!vars
  BY DEF clientVars, Client!vars, Client!slotVars, Client!keepVars

\* Each event of the server, of phones, of the relay and of the network is a step
\* of the client or leaves it alone.
LEMMA RemoteStep == ASSUME [RemoteNext]_remoteVars PROVE [Client!Next]_(Client!vars)
<1>1. ASSUME NEW s \in ServerSockets,
             Accepts(s) \/ AnswersServer(s) \/ ServerCloseArrives(s)
      PROVE  UNCHANGED Client!vars
  BY <1>1, ClientUnchanged DEF Accepts, AnswersServer, ServerCloseArrives
<1>2. ASSUME NEW s \in ServerSockets, Opened(s) \/ PongArrives(s) \/ Closes(s)
      PROVE  Client!Next
  BY <1>2, Zenon DEF Opened, PongArrives, Closes, Client!Next
<1>3. ASSUME NEW s \in ServerSockets, Delivers(s)
      PROVE  Client!Next
  <2> DEFINE reply == Head(inbox[s])
  <2>1. Client!HandleMessage(s, reply)
    BY <1>3 DEF Delivers
  <2>2. reply \in Client!Replies
    BY <2>1 DEF Client!HandleMessage, Client!Replies
  <2> QED
    BY <2>1, <2>2, Zenon DEF Client!Next
<1>4. ASSUME NEW c \in Phones, PhoneActs(c)
      PROVE  UNCHANGED Client!vars
  BY <1>4, ClientUnchanged, Zenon DEF PhoneActs
<1>5. CASE Commands \/ ClientTimers
  BY <1>5, Zenon DEF Commands, ClientTimers, Client!Next
<1>6. CASE RelayActs
  BY <1>6, ClientUnchanged DEF RelayActs
<1>7. CASE UNCHANGED remoteVars
  BY <1>7, ClientUnchanged DEF remoteVars
<1> QED
  BY <1>1, <1>2, <1>3, <1>4, <1>5, <1>6, <1>7, Zenon DEF RemoteNext

-----------------------------------------------------------------------------
(* Results                                                                 *)

\* The composition of the server with the relay (RelayClientService.ts,
\* ws-handler.ts) takes only steps of the relay client's specification.
THEOREM RemoteImplementsClient == RemoteSpec => Client!Spec
<1>1. RemoteInit => Client!Init
  BY DEF RemoteInit
<1> QED
  BY <1>1, RemoteStep, PTL DEF RemoteSpec, Client!Spec

\* An enabled server at the relay (connect, scheduleReconnect, handleClose) always
\* has a timer armed or a live socket in a slot, and no slot holds a socket that
\* was handed off.
THEOREM ServerNeverStranded == RemoteSpec => []NeverStranded
<1>1. None \notin ServerSockets
  BY NoneAssumption, RemoteAssumption
<1>2. Client!Spec => []Client!NeverStranded
  BY <1>1, ClientNeverStranded
<1> QED
  BY <1>2, RemoteImplementsClient, PTL DEF NeverStranded

\* The keepalive (startKeepalive, stopKeepalive) of a server at the relay watches
\* the waiting socket at all times and nothing else.
THEOREM ServerAlwaysWatches == RemoteSpec => []WaitingIsWatched
<1>1. None \notin ServerSockets
  BY NoneAssumption, RemoteAssumption
<1>2. Client!Spec => []Client!WaitingIsWatched
  BY <1>1, WaitingAlwaysWatched
<1> QED
  BY <1>2, RemoteImplementsClient, PTL DEF WaitingIsWatched
=============================================================================
