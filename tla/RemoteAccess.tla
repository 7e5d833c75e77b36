---------------------------- MODULE RemoteAccess ----------------------------
(***************************************************************************)
(* The relay client of one server composed with the relay.  Sockets are    *)
(* those of the server, driven by RelayClient, and those of phones.  What  *)
(* the relay sends a server's socket is on its way for a while (inbox);    *)
(* a close by one side reaches the other later.                            *)
(*                                                                         *)
(* A connection may break at any time, and a peer of the relay may vanish  *)
(* without a packet.  What is exchanged on a socket after its hand-off is  *)
(* no concern of the relay client and left out.                            *)
(***************************************************************************)
EXTENDS Relay, Naturals, Sequences

CONSTANTS
    ServerSockets,  \* the sockets the server opens; the others are phones'
    Home            \* the installation of the server

ASSUME RemoteAssumption == ServerSockets \subseteq Sockets /\ Home \in Installs

VARIABLES
    enabled, config, status, connectingWs, waitingWs, reconnectTimer,
    pinged, clientPongTimeout, ws, asked, answer, handed,   \* of RelayClient
    inbox   \* what the relay sent each server socket and has not arrived

Client == INSTANCE RelayClient WITH
    Sockets <- ServerSockets, pongTimeout <- clientPongTimeout

clientVars == <<enabled, config, status, connectingWs, waitingWs, reconnectTimer,
                pinged, clientPongTimeout, ws, asked, answer, handed>>
remoteVars == <<vars, clientVars, inbox>>

Phones == Sockets \ ServerSockets

RemoteInit ==
    /\ Init
    /\ Client!Init
    /\ inbox = [s \in ServerSockets |-> <<>>]

Sends(s, reply) == inbox' = [inbox EXCEPT ![s] = Append(@, reply)]

-----------------------------------------------------------------------------
(* The server's sockets at the relay                                       *)

Accepts(s) == Open(s) /\ ws[s] = "connecting" /\ UNCHANGED <<clientVars, inbox>>

\* server_register has arrived.
AnswersServer(s) ==
    /\ asked[s] # None
    /\ \/ RegisterServer(s, asked[s], Home) /\ Sends(s, "registered")
       \/ RejectServer(s, asked[s], Home) /\ Sends(s, "rejected")
    /\ UNCHANGED clientVars

\* The server closed the socket, or its connection broke.
ServerCloseArrives(s) ==
    ws[s] \in {"closing", "closed"} /\ PeerCloses(s) /\ UNCHANGED <<clientVars, inbox>>

-----------------------------------------------------------------------------
(* Phones                                                                  *)

\* Connections of phones, and what they send to servers they are paired with
PhoneActs(c) ==
    \/ /\ \/ Open(c) \/ PeerCloses(c)
          \/ \E u \in Usernames : RefuseClient(c, u) \/ ConnectClient(c, u)
       /\ UNCHANGED <<clientVars, inbox>>
    \/ LET s == PartnerIn(pairLookup[c], c) IN
       /\ Forward(c)
       /\ s \notin handed /\ "data" \notin {inbox[s][i] : i \in 1..Len(inbox[s])}
       /\ Sends(s, "data")
       /\ UNCHANGED clientVars

-----------------------------------------------------------------------------
(* Events of the relay client                                              *)

Commands ==
    /\ (\E u \in Usernames : Client!Start(u)) \/ Client!Stop
    /\ UNCHANGED <<vars, inbox>>

Opened(s) ==
    Client!HandleOpen(s) /\ sock[s] # "connecting" /\ UNCHANGED <<vars, inbox>>

Delivers(s) ==
    /\ inbox[s] # <<>> /\ s \notin vanished
    /\ Client!HandleMessage(s, Head(inbox[s]))
    /\ inbox' = [inbox EXCEPT ![s] = Tail(@)]
    /\ UNCHANGED vars

PongArrives(s) ==
    /\ sock[s] \in {"joined", "closing"} /\ s \notin vanished
    /\ Client!HandlePong(s)
    /\ UNCHANGED <<vars, inbox>>

\* The close event at the server: the end of a closing handshake, a refused
\* connection, or a break; what was still on its way is lost.
Closes(s) ==
    /\ Client!HandleClose(s)
    /\ inbox' = [inbox EXCEPT ![s] = <<>>]
    /\ UNCHANGED vars

ClientTimers ==
    /\ \/ Client!ReconnectTimerFires \/ Client!SendPing
       \/ Client!ClockDrifted \/ Client!PongTimeoutFires
    /\ UNCHANGED <<vars, inbox>>

-----------------------------------------------------------------------------

\* Nobody stays away for reclaimDays here.  A phone that vanishes is one that
\* does nothing more.
RelayActs ==
    /\ \/ \E s \in Sockets : Ping(s) \/ Pong(s) \/ PongTimeout(s) \/ CloseEvent(s)
       \/ \E s \in ServerSockets : PeerVanishes(s)
       \/ Restart
    /\ UNCHANGED <<clientVars, inbox>>

RemoteNext ==
    \/ \E s \in ServerSockets :
          \/ Accepts(s) \/ AnswersServer(s) \/ ServerCloseArrives(s)
          \/ Opened(s) \/ Delivers(s) \/ PongArrives(s) \/ Closes(s)
    \/ \E c \in Phones : PhoneActs(c)
    \/ Commands \/ ClientTimers \/ RelayActs

RemoteSpec == RemoteInit /\ [][RemoteNext]_remoteVars

\* What the network, the relay and the server do with a server's socket; each
\* happens a bounded number of times.
Handles(s) ==
    \/ Accepts(s) \/ AnswersServer(s) \/ ServerCloseArrives(s) \/ Opened(s) \/ Delivers(s)
    \/ Closes(s) /\ (ws[s] = "closing" \/ sock[s] \in {"closing", "closed"})
    \/ CloseEvent(s) /\ UNCHANGED <<clientVars, inbox>>

\* The relay and the server handle what arrives, timers fire, and a closing
\* handshake ends at both sides: the WebSocket libraries give up on a silent
\* peer after a timeout of their own.  Nothing is assumed of phones, of
\* commands, or of connections that break or vanish.
RemoteFairness ==
    /\ \A s \in ServerSockets :
          /\ WF_remoteVars(Handles(s))
          /\ WF_remoteVars(Ping(s) /\ UNCHANGED <<clientVars, inbox>>)
          /\ WF_remoteVars(PongTimeout(s) /\ UNCHANGED <<clientVars, inbox>>)
    /\ \A c \in Phones : WF_remoteVars(CloseEvent(c) /\ UNCHANGED <<clientVars, inbox>>)
    /\ WF_remoteVars(Client!ReconnectTimerFires /\ UNCHANGED <<vars, inbox>>)
    /\ WF_remoteVars(Client!SendPing /\ UNCHANGED <<vars, inbox>>)
    /\ WF_remoteVars(Client!PongTimeoutFires /\ UNCHANGED <<vars, inbox>>)

FairRemoteSpec == RemoteSpec /\ RemoteFairness

-----------------------------------------------------------------------------
(* Properties                                                              *)

NeverStranded == Client!NeverStranded

WaitingIsWatched == Client!WaitingIsWatched

\* A phone can reach the server: the relay pairs the next client with the
\* socket the server waits on.
Reachable == waitingWs # None /\ waiting[config] = waitingWs

\* The instance has no socket left for the next attempt: a bound of the model.
\* While the client holds a socket, that one still has to get to the relay.
OutOfSockets ==
    /\ \A s \in ServerSockets : ws[s] # "unused"
    /\ Client!Slots = {}

\* The one hole: no timer watches a socket that is registering, so an answer
\* lost with the network is waited for without end.
AnswerLost == connectingWs # None /\ connectingWs \in vanished

\* The other: the relay answers the keepalive of a socket whatever became of
\* the phone it is paired with, so the first message is waited for as well.
PhoneSilent == waitingWs # None /\ pairLookup[waitingWs] # NoPair

\* A server that stays enabled comes back to waiting at the relay after
\* claims, breaks, vanished connections, replacements and restarts of the
\* relay, with every socket the instance gives it, the last one too.
ServerComesBack == enabled ~> Reachable \/ ~enabled \/ OutOfSockets
                           \/ AnswerLost \/ PhoneSilent
=============================================================================
