-------------------------- MODULE SecureConnection --------------------------
(***************************************************************************)
(* The handshake of a remote client with the server, over a direct         *)
(* WebSocket: SecureConnection (packages/client/src/lib/connection/        *)
(* SecureConnection.ts) resumes a stored session or does the full SRP      *)
(* handshake, and the server answers (packages/server/src/routes/          *)
(* ws-srp-handlers.ts), one message after the other.                       *)
(*                                                                         *)
(* The client has one set of fields for all its sockets: a handler of one  *)
(* socket, a timer or a computation that was begun for it, reads and       *)
(* writes them while another socket is being set up.                       *)
(*                                                                         *)
(* Abstracted: cryptography, which never fails by itself (a proof tells    *)
(* which challenge and session it is made for, a key is the nonce and the  *)
(* session it was derived from), what is said on an established channel    *)
(* but for the client's first message, the reasons for which the server    *)
(* refuses a hello (limits, unknown identity), legacy peers, and the way   *)
(* through the relay.  The server handles the messages of a socket one at  *)
(* a time, each in one step.                                               *)
(***************************************************************************)
EXTENDS Naturals, Sequences

CONSTANTS
    Sockets,            \* sockets, each opened once
    None

\* A session of the server is named by the socket on which it was made; one was
\* made before.
Sessions == Sockets \cup {"before"}

ASSUME SecureConnectionAssumption ==
    /\ "before" \notin Sockets /\ None \notin Sessions
    /\ None \notin [nonce : Sockets, session : Sessions]
    /\ None \notin [id : Sessions, base : Sessions]
    /\ None \notin [hello : BOOLEAN, B : Sockets \cup {None}, base : Sessions \cup {None}]

VARIABLES
    \* the client
    password,           \* it has a password to fall back on
    ws,                 \* this.ws
    connectionState,
    sessionKey,         \* the key, or None
    storedSession,      \* None, or its id and its key
    srpSession,         \* None, or what the SRP exchange has come to
    connectionPromise,  \* the socket of the connect under way
    attached,           \* sockets with handlers
    established,        \* those whose onmessage reads encrypted messages only
    resumeTimeout,      \* sockets whose resume timer is armed
    computing,          \* what handlers of the client await
    settled,            \* sockets whose authPromise is settled
    connects,           \* sockets whose connect is under way for its callers
    timedOut,           \* sockets whose timeout for the whole connect has fired
    gaveUp,             \* why the client has reported its session as invalid, or None
    crossed,            \* (history) a connect was begun beside another that was going on
    \* the network
    sock,               \* the client's view of each socket
    toServer, toClient, \* messages under way
    \* the server
    srv,                \* its connection state for each socket
    sessions            \* sessions it knows

clientVars == <<password, ws, connectionState, sessionKey, storedSession, srpSession,
                connectionPromise, attached, established, resumeTimeout, computing, settled,
                connects, timedOut, gaveUp, crossed>>
netVars    == <<sock, toServer, toClient>>
serverVars == <<srv, sessions>>
vars       == <<clientVars, netVars, serverVars>>

Resuming == {"srp_resume_init_sent", "srp_resume_proof_sent"}
ConnectionStates ==
    Resuming \cup {"disconnected", "connecting", "srp_hello_sent", "srp_proof_sent",
                   "authenticated", "failed"}

Key(nonce, session) == [nonce |-> nonce, session |-> session]
Stored(session) == [id |-> session, base |-> session]

\* A SRP session of the client: it has its hello, has answered the challenge B, and
\* has the key that it shares with the server.
NewSrp == [hello |-> FALSE, B |-> None, base |-> None]

NewServer == [auth |-> "unauthenticated", challenge |-> None, key |-> None, open |-> TRUE]

Init ==
    /\ ws = None /\ connectionState = "disconnected" /\ sessionKey = None
    /\ password \in BOOLEAN
    /\ storedSession \in {Stored("before")} \cup (IF password THEN {None} ELSE {})
    /\ srpSession = None /\ connectionPromise = None
    /\ attached = {} /\ established = {} /\ resumeTimeout = {} /\ computing = {}
    /\ settled = {} /\ connects = {} /\ timedOut = {}
    /\ gaveUp = None /\ crossed = FALSE
    /\ sock = [w \in Sockets |-> "unused"]
    /\ toServer = [w \in Sockets |-> <<>>] /\ toClient = [w \in Sockets |-> <<>>]
    /\ srv = [w \in Sockets |-> NewServer]
    /\ sessions = {"before"}

-----------------------------------------------------------------------------
(* Client: steps the handlers share.  A client c is a record of the fields *)
(* a handler changes; Becomes(c) makes it the client's state.              *)

Client ==
    [ws |-> ws, state |-> connectionState, key |-> sessionKey, stored |-> storedSession,
     srp |-> srpSession, promise |-> connectionPromise, computing |-> computing,
     established |-> established, timers |-> resumeTimeout,
     settled |-> settled, connects |-> connects, timedOut |-> timedOut,
     gaveUp |-> gaveUp, sock |-> sock, out |-> toServer]

Becomes(c) ==
    /\ ws' = c.ws /\ connectionState' = c.state /\ sessionKey' = c.key
    /\ storedSession' = c.stored /\ srpSession' = c.srp /\ connectionPromise' = c.promise
    /\ computing' = c.computing /\ established' = c.established /\ resumeTimeout' = c.timers
    /\ settled' = c.settled /\ connects' = c.connects /\ timedOut' = c.timedOut
    /\ gaveUp' = c.gaveUp /\ sock' = c.sock /\ toServer' = c.out
    /\ UNCHANGED password

\* this.ws.send, which drops the message when the socket is closing
Sends(c, m) ==
    IF \E w \in Sockets : w = c.ws /\ c.sock[w] = "open"
    THEN [c EXCEPT !.out[c.ws] = Append(@, m)] ELSE c

CloseSocket(c, w) ==
    [c EXCEPT !.sock = [v \in Sockets |-> IF v = w /\ @[v] \in {"open", "connecting"}
                                          THEN "closing" ELSE @[v]]]

\* The callers of connectAndAuthenticate of socket w learn its outcome, once.
\* Whoever awaited it resets connectionPromise, whichever connect that is now.
ConnectEnds(c, w) ==
    IF w \notin c.connects THEN c
    ELSE [c EXCEPT !.connects = @ \ {w}, !.promise = None]

\* The authPromise of socket w is resolved or rejected, and its timers stop.
Settles(c, w) ==
    IF w \in c.settled THEN c
    ELSE ConnectEnds([c EXCEPT !.settled = @ \cup {w}, !.timers = @ \ {w}], w)

\* state failed, reject, this.ws.close()
Fails(c, w) == CloseSocket(Settles([c EXCEPT !.state = "failed"], w), c.ws)

\* The SRP session of the connection is replaced: a computation of the old one goes
\* on, but its result stays there.
ReplacesSrp(c, s) ==
    [c EXCEPT !.srp = s, !.computing = {[k EXCEPT !.own = FALSE] : k \in @}]

\* The handler of w awaits a step of the SRP session of the connection: m is the
\* message it answers, and the server that sent it may be a wrong one.
Awaits(c, w, step, m, valid) ==
    [c EXCEPT !.computing = @ \cup {[step |-> step, w |-> w, m |-> m, valid |-> valid,
                                     own |-> TRUE]}]

\* startFullSrpHandshake up to its await
StartsSrp(c, w) ==
    Awaits(ReplacesSrp([c EXCEPT !.stored = None], NewSrp), w, "hello", None, TRUE)

\* The await of k is over: its SRP session is srp, if it is still the connection's.
Resumes(k, srp) ==
    [Client EXCEPT !.computing = @ \ {k}, !.srp = IF k.own THEN srp ELSE @]

\* Authenticated with key k: the client tells its capabilities, if it still has
\* an open socket.
Authenticated(c, w, k) ==
    Settles(Sends([c EXCEPT !.key = k, !.state = "authenticated"],
                  [type |-> "data", key |-> k]), w)

-----------------------------------------------------------------------------
(* Client: handlers of messages that arrive on socket w                    *)

HandleSrpResumeResponse(c, w, m) ==
    CASE m.type = "srp_resume_challenge" ->
            IF c.stored = None THEN Settles(c, w)
            ELSE IF m.session # c.stored.id THEN CloseSocket(Settles(c, w), c.ws)
            ELSE [Sends(c, [type |-> "srp_resume", session |-> c.stored.id,
                            proof |-> Key(m.nonce, c.stored.base)])
                    EXCEPT !.state = "srp_resume_proof_sent"]
      [] m.type = "srp_resumed" ->
            IF c.stored = None THEN Settles(c, w)
            ELSE Authenticated([c EXCEPT !.established = @ \cup ({c.ws} \ {None})], w,
                               Key(m.nonce, c.stored.base))
      [] m.type = "srp_invalid" ->
            IF ~password THEN Fails([c EXCEPT !.gaveUp = m.why], w) ELSE StartsSrp(c, w)
      [] OTHER -> Fails(c, w)

HandleSrpChallenge(c, w, m) ==
    IF m.type # "srp_challenge" THEN Fails(c, w)
    ELSE IF c.srp = None THEN Settles(c, w)
    ELSE IF ~c.srp.hello THEN Fails(c, w)
    ELSE Awaits(c, w, "challenge", m, TRUE)

\* verifyServer: the server proves that it knows what the client's proof was
\* made for.
ServerVerifies(c, m) == c.srp.B = m.B

HandleSrpVerify(c, w, m) ==
    IF m.type # "srp_verify" THEN Fails(c, w)
    ELSE IF c.srp = None THEN Settles(c, w)
    ELSE IF c.srp.B = None THEN Fails(c, w)
    ELSE Awaits(c, w, "verify", m, ServerVerifies(c, m))

\* onmessage: what it does depends on the state of the connection, whichever
\* socket it is.
ClientReceives(w) ==
    LET m       == Head(toClient[w])
        c       == Client
        armed   == [c EXCEPT !.timers = @ \cup {w}]
        handled ==
            CASE w \notin attached \/ w \in established -> c
              [] connectionState \in Resuming -> HandleSrpResumeResponse(armed, w, m)
              [] connectionState = "srp_hello_sent" -> HandleSrpChallenge(c, w, m)
              [] connectionState = "srp_proof_sent" -> HandleSrpVerify(c, w, m)
              [] OTHER -> c
    IN
    /\ sock[w] = "open" /\ toClient[w] # <<>> /\ m.type # "close"
    /\ toClient' = [toClient EXCEPT ![w] = Tail(@)]
    /\ Becomes(handled)
    /\ UNCHANGED <<attached, crossed, serverVars>>

-----------------------------------------------------------------------------
(* Client: handlers after what they awaited.  They go on with the socket   *)
(* and the SRP session that the connection has by then.                    *)

\* startFullSrpHandshake after its await
HelloReady(k) ==
    /\ k.step = "hello"
    /\ Becomes([Sends(Resumes(k, [srpSession EXCEPT !.hello = TRUE]), [type |-> "srp_hello"])
                  EXCEPT !.state = "srp_hello_sent"])

\* handleSrpChallenge after its await
ProofReady(k) ==
    /\ k.step = "challenge"
    /\ Becomes([Sends(Resumes(k, [srpSession EXCEPT !.B = k.m.B]),
                      [type |-> "srp_proof", B |-> k.m.B])
                  EXCEPT !.state = "srp_proof_sent"])

\* handleSrpVerify after its await
ServerVerified(k) ==
    LET c == Resumes(k, [srpSession EXCEPT !.base = IF k.valid THEN k.m.session ELSE @]) IN
    /\ k.step = "verify"
    /\ Becomes(IF ~k.valid \/ c.srp = None THEN Fails(c, k.w)
               ELSE IF c.srp.base = None THEN Settles(c, k.w)
               ELSE Authenticated([c EXCEPT !.stored = [id |-> k.m.session, base |-> c.srp.base]],
                                  k.w, Key(k.m.B, c.srp.base)))

Computed(k) ==
    /\ HelloReady(k) \/ ProofReady(k) \/ ServerVerified(k)
    /\ UNCHANGED <<attached, crossed, toClient, serverVars>>

-----------------------------------------------------------------------------
(* Client: connecting                                                      *)

\* connectAndAuthenticate: a socket is opened, with handlers.
Opens(c, w) ==
    [c EXCEPT !.state = "connecting", !.promise = w, !.sock[w] = "connecting",
              !.connects = @ \cup {w}]

NewSocket(w) == sock[w] = "unused" /\ w = CHOOSE v \in Sockets : sock[v] = "unused"

\* A socket with handlers is still connecting or open, or a handler of an earlier
\* one waits to know that the server is the right one.
Crosses(others) ==
    \/ \E v \in others : sock[v] \in {"connecting", "open"}
    \/ \E k \in computing : k.step = "verify"

\* ensureConnected, called for a request or a subscription
RequestConnects(w) ==
    /\ ~(connectionState = "authenticated" /\ \E v \in Sockets : v = ws /\ sock[v] = "open")
    /\ connectionPromise = None
    /\ NewSocket(w)
    /\ Becomes(Opens(Client, w))
    /\ attached' = attached \cup {w} /\ crossed' = (crossed \/ Crosses(attached))
    /\ UNCHANGED <<toClient, serverVars>>

\* broken: the socket of the connection is left to itself
ForceReconnectBeside(w) ==
    /\ NewSocket(w)
    /\ Becomes(Opens(Client, w))
    /\ attached' = attached \cup {w}
    /\ crossed' = (crossed \/ Crosses(attached \ {ws}))
    /\ UNCHANGED <<toClient, serverVars>>

\* forceReconnect, called by the connection manager at any time: the socket of the
\* connection is detached and closed, and another is opened, whatever was going on.
ForceReconnect(w) ==
    /\ NewSocket(w)
    /\ Becomes(Opens([CloseSocket(Client, ws) EXCEPT !.ws = None], w))
    /\ attached' = (attached \ {ws}) \cup {w}
    /\ crossed' = (crossed \/ Crosses(attached \ {ws}))
    /\ UNCHANGED <<toClient, serverVars>>

\* onopen
SocketOpens(w) ==
    /\ sock[w] = "connecting"
    /\ LET c == [Client EXCEPT !.ws = w, !.sock[w] = "open"] IN
       Becomes(IF storedSession = None THEN StartsSrp(c, w)
               ELSE [Sends(c, [type |-> "srp_resume_init", session |-> storedSession.id])
                        EXCEPT !.state = "srp_resume_init_sent", !.timers = @ \cup {w}])
    /\ UNCHANGED <<attached, crossed, toClient, serverVars>>

\* The server did not answer for a while: an old server, or a slow one.
ResumeTimesOut(w) ==
    /\ w \in resumeTimeout
    /\ LET c == [Client EXCEPT !.timers = @ \ {w}] IN
       Becomes(IF connectionState \notin Resuming THEN c
               ELSE IF password THEN StartsSrp(c, w)
               ELSE CloseSocket(Settles([c EXCEPT !.state = "failed"], w), w))
    /\ UNCHANGED <<attached, crossed, toClient, serverVars>>

TimeoutArmed(w) == sock[w] # "unused" /\ w \notin settled \cup timedOut

\* The connect of w has taken too long, unless the connection is established.
TooLate(w) ==
    LET c == [Client EXCEPT !.timedOut = @ \cup {w}] IN
    IF connectionState = "authenticated" THEN c
    ELSE ConnectEnds([CloseSocket(c, w) EXCEPT !.state = "failed"], w)

\* broken: nothing to report when the connection has failed already
ConnectTimesOutQuietly(w) ==
    /\ TimeoutArmed(w)
    /\ connectionState # "failed"
    /\ Becomes(TooLate(w))
    /\ UNCHANGED <<attached, crossed, toClient, serverVars>>

\* The timeout of the whole connect of socket w.
ConnectTimesOut(w) ==
    /\ TimeoutArmed(w)
    /\ Becomes(TooLate(w))
    /\ UNCHANGED <<attached, crossed, toClient, serverVars>>

\* handleSocketClose resets the connection, whichever socket it was.
Reset(c) == ReplacesSrp([c EXCEPT !.ws = None, !.key = None], None)

\* onclose of w: the server or the network closed it, or the client did.
SocketCloses(w) ==
    /\ sock[w] \in {"connecting", "open", "closing"}
    /\ IF w \in attached
       THEN Becomes([(IF connectionState = "authenticated"
                      THEN [Reset(Client) EXCEPT !.state = "disconnected"]
                      ELSE Settles([Reset(Client) EXCEPT !.state = "failed"], w))
                        EXCEPT !.sock[w] = "closed"])
       ELSE Becomes([Client EXCEPT !.sock[w] = "closed"])
    /\ toClient' = [toClient EXCEPT ![w] = <<>>]
    /\ srv' = [srv EXCEPT ![w] = [NewServer EXCEPT !.open = FALSE]]
    /\ UNCHANGED <<attached, crossed, sessions>>

-----------------------------------------------------------------------------
(* Server: handlers of a message of socket w.  Broken variants stand       *)
(* before the definition they replace in the project's mutation runs.      *)

Answers(w, m) == toClient' = [toClient EXCEPT ![w] = Append(@, m)]

\* An error is sent and the socket closed, with everything the server knew of it.
Refuses(w) ==
    /\ toClient' = [toClient EXCEPT ![w] = @ \o <<[type |-> "srp_error"], [type |-> "close"]>>]
    /\ srv' = [srv EXCEPT ![w] = [NewServer EXCEPT !.open = FALSE]]

\* srp_invalid, which says little of why
Invalid(w, why) == Answers(w, [type |-> "srp_invalid", why |-> why])

UnsetChallenge(w) == srv' = [srv EXCEPT ![w].challenge = None]

\* broken: the challenge that is sent is not the pending one
ChallengeUnset(w, m) == srv[w].challenge

\* The challenge with which the server answers: the nonce is the socket's own.
Challenge(w, m) == Key(w, m.session)

HandleSrpResumeInit(w, m) ==
    /\ m.type = "srp_resume_init"
    /\ \/ /\ srv[w].key # None \/ m.session \notin sessions
          /\ Invalid(w, "refused") /\ UNCHANGED srv
       \/ Invalid(w, "error") /\ UNCHANGED srv
       \/ /\ srv[w].key = None /\ m.session \in sessions
          /\ srv' = [srv EXCEPT ![w].challenge = Challenge(w, m)]
          /\ Answers(w, [type |-> "srp_resume_challenge", session |-> m.session, nonce |-> w])
    /\ UNCHANGED sessions

\* validateProof: the proof answers the pending challenge, with a valid session.
ProofFits(w, m) ==
    srv[w].challenge \in {m.proof} \cap {Key(w, m.session)} /\ m.session \in sessions

\* A proof may come too late for its challenge, and a valid one may end in an error
\* when the session is saved.
HandleSrpResume(w, m) ==
    /\ m.type = "srp_resume"
    /\ \/ ~ProofFits(w, m) /\ Invalid(w, "refused") /\ UnsetChallenge(w)
       \/ srv[w].challenge # None /\ Invalid(w, "late") /\ UnsetChallenge(w)
       \/ Invalid(w, "error") /\ UnsetChallenge(w)
       \/ /\ ProofFits(w, m)
          /\ srv' = [srv EXCEPT ![w].challenge = None, ![w].auth = "authenticated",
                                ![w].key = Key(w, m.session)]
          /\ \/ Answers(w, [type |-> "srp_resumed", nonce |-> w])
             \/ Invalid(w, "error")
    /\ UNCHANGED sessions

AcceptsHello(w) == srv[w].auth # "srp_waiting_proof" /\ srv[w].key = None

HandleSrpHello(w, m) ==
    /\ m.type = "srp_hello"
    /\ \/ Refuses(w)
       \/ /\ AcceptsHello(w) /\ Answers(w, [type |-> "srp_error"])
          /\ UNCHANGED srv \/ UnsetChallenge(w)
       \/ /\ AcceptsHello(w)
          /\ srv' = [srv EXCEPT ![w].challenge = None, ![w].auth = "srp_waiting_proof"]
          /\ Answers(w, [type |-> "srp_challenge", B |-> w])
    /\ UNCHANGED sessions

\* A proof that nobody asked for is answered with an error, and the socket stays.
HandleSrpProof(w, m) ==
    /\ m.type = "srp_proof"
    /\ IF srv[w].auth # "srp_waiting_proof"
       THEN Answers(w, [type |-> "srp_error"]) /\ UnsetChallenge(w) /\ UNCHANGED sessions
       ELSE \/ Refuses(w) /\ UNCHANGED sessions
            \/ /\ m.B = w
               /\ sessions' = sessions \cup {w}
               /\ srv' = [srv EXCEPT ![w].challenge = None, ![w].auth = "authenticated",
                                     ![w].key = Key(w, w)]
               /\ Answers(w, [type |-> "srp_verify", B |-> w, session |-> w])

\* An encrypted message: without a key it cannot be read and is dropped, with
\* another key the socket is closed.
HandleData(w, m) ==
    /\ m.type = "data"
    /\ IF srv[w].key \in {None, m.key}
       THEN UNCHANGED <<srv, toClient>>
       ELSE /\ toClient' = [toClient EXCEPT ![w] = Append(@, [type |-> "close"])]
            /\ srv' = [srv EXCEPT ![w] = [NewServer EXCEPT !.open = FALSE]]
    /\ UNCHANGED sessions

ServerReceives(w) ==
    LET m == Head(toServer[w]) IN
    /\ toServer[w] # <<>> /\ srv[w].open
    /\ toServer' = [toServer EXCEPT ![w] = Tail(@)]
    /\ \/ HandleSrpResumeInit(w, m) \/ HandleSrpResume(w, m) \/ HandleSrpHello(w, m)
       \/ HandleSrpProof(w, m) \/ HandleData(w, m)
    /\ UNCHANGED <<clientVars, sock>>

\* SRP_HANDSHAKE_TIMEOUT_MS
HandshakeTimesOut(w) ==
    /\ srv[w].open /\ srv[w].auth = "srp_waiting_proof"
    /\ toClient' = [toClient EXCEPT ![w] = Append(@, [type |-> "close"])]
    /\ srv' = [srv EXCEPT ![w] = [NewServer EXCEPT !.open = FALSE]]
    /\ UNCHANGED <<clientVars, sock, toServer, sessions>>

\* A session expires or is revoked.
ForgetSession(s) ==
    /\ s \in sessions /\ sessions' = sessions \ {s}
    /\ UNCHANGED <<clientVars, netVars, srv>>

-----------------------------------------------------------------------------

Next ==
    \/ \E w \in Sockets :
          \/ ClientReceives(w) \/ RequestConnects(w) \/ ForceReconnect(w) \/ SocketOpens(w)
          \/ ResumeTimesOut(w) \/ ConnectTimesOut(w) \/ SocketCloses(w)
          \/ ServerReceives(w) \/ HandshakeTimesOut(w)
    \/ \E k \in computing : Computed(k)
    \/ \E s \in Sessions : ForgetSession(s)

Spec == Init /\ [][Next]_vars

\* Timers fire; nothing else is owed to the client.
Fairness == \A w \in Sockets : WF_vars(ConnectTimesOut(w))

FairSpec == Spec /\ Fairness

-----------------------------------------------------------------------------
(* Properties                                                              *)

\* Client and server agree on the key: what an authenticated client sends on its
\* socket, the server at the other end can read, whatever timed out, came late
\* or was superseded on the way there, unless two connects went on side by side.
KeysAgree ==
    ~crossed => \A w \in Sockets :
        /\ ws = w /\ sock[w] = "open" /\ connectionState = "authenticated" /\ srv[w].open
        => srv[w].key = sessionKey

\* A client that gives up its session as refused has one the server does not know,
\* unless two connects went on side by side: "reset connection state but keep
\* session info for resumption" (SecureConnection.ts:1247).
SessionKept == ~crossed /\ gaveUp = "refused" => storedSession.id \notin sessions

\* The connect that calls of the connection wait for ends with a connection or an
\* error, whatever the server and the network leave out and whatever the sockets,
\* timers and computations of the connects before it still do, unless it is
\* superseded itself or went on beside another.
ConnectSettles ==
    \A w \in Sockets : connectionPromise = w /\ ~crossed ~> connectionPromise # w \/ crossed
=============================================================================
