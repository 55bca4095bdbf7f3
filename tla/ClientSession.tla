---------------------------- MODULE ClientSession ----------------------------
(***************************************************************************)
(* The client's connection state machine and the life of its session.      *)
(*                                                                         *)
(* One NetworkManager talks to the handler of its current connection.  The *)
(* client runs on one thread and is driven by calls of the user interface, *)
(* socket signals, timers and replies; the connection delivers requests    *)
(* and replies in order and can break at any time.                         *)
(*                                                                         *)
(* A token is named by a number, as is the session row that holds its      *)
(* hash.  Request ids and tokens are unique in the program; here a number  *)
(* is used again once nothing refers to it, so that no bound on them cuts  *)
(* a behaviour short.  Rows of earlier connections stay in the table but   *)
(* no request of this client can reach them: they are forgotten.           *)
(* Registration is not modelled.                                           *)
(***************************************************************************)
EXTENDS Integers, Sequences, FiniteSets

CONSTANT MaxInFlight   \* bound: requests and replies on the way

ASSUME InFlightAssumption == MaxInFlight \in Nat \ {0}

VARIABLES
    state,            \* m_state
    token,            \* m_sessionToken (0: empty)
    known,            \* m_pendingUsername is not empty
    loginQueued,      \* m_loginQueued
    reconnectEnabled, \* m_reconnectEnabled
    reconnectTimer,   \* m_reconnectTimer is running
    pendingLogin,     \* m_pendingLoginRequestId (0: none)
    pendingRenew,     \* m_pendingTokenRenewRequestId (0: none)
    renewTimer,       \* m_tokenRenewTimer is running
    notified,         \* m_sessionExpiredNotified
    sock,             \* state of the client's socket
    requests,         \* client to server, in order
    replies,          \* server to client, in order
    session           \* the server side of the connection

authVars   == <<token, known, notified>>
intentVars == <<loginQueued, reconnectEnabled, reconnectTimer>>
renewVars  == <<pendingRenew, renewTimer>>
netVars    == <<sock, requests, replies>>
clientVars == <<state, authVars, intentVars, pendingLogin, renewVars>>
vars == <<clientVars, netVars, session>>

States == {"Disconnected", "Connecting", "Connected", "LoggingIn",
           "Authenticated"}

\* Every packet and every field can hold a different number.
Numbers == 1 .. MaxInFlight + 3

Requests == [kind : {"login", "logout", "renew", "business"},
             id : Numbers, token : {0} \cup Numbers]

Replies == [kind : {"login", "logout", "renew", "business", "error"},
            id : Numbers, code : {"ok", "invalid", "failed"},
            token : {0} \cup Numbers]

\* m_currentSessionId with the row it names, if the row still exists.
NoSession == [token |-> 0, live |-> FALSE, expired |-> FALSE]
NewSession(t) == [token |-> t, live |-> TRUE, expired |-> FALSE]

TypeOK ==
    /\ state \in States
    /\ token \in {0} \cup Numbers
    /\ {known, notified, loginQueued, reconnectEnabled, reconnectTimer,
        renewTimer} \subseteq BOOLEAN
    /\ {pendingLogin, pendingRenew} \subseteq {0} \cup Numbers
    /\ sock \in {"none", "connecting", "handshake", "up", "closing"}
    /\ requests \in Seq(Requests) /\ replies \in Seq(Replies)
    /\ session \in [token : {0} \cup Numbers, live : BOOLEAN, expired : BOOLEAN]

Init ==
    /\ state = "Disconnected" /\ sock = "none"
    /\ token = 0 /\ pendingLogin = 0 /\ pendingRenew = 0
    /\ known = FALSE /\ notified = FALSE
    /\ loginQueued = FALSE /\ reconnectEnabled = FALSE
    /\ reconnectTimer = FALSE /\ renewTimer = FALSE
    /\ requests = <<>> /\ replies = <<>>
    /\ session = NoSession

-----------------------------------------------------------------------------
(***************************************************************************)
(* Numbers and packets.                                                    *)
(***************************************************************************)

InFlight(q) == {q[i] : i \in DOMAIN q}

Least(S) == CHOOSE n \in S : \A m \in S : n <= m

\* nextRequestId(): an id that no request or reply on the way carries.
NextRequestId ==
    Least(Numbers \ ({pendingLogin, pendingRenew}
                     \cup {p.id : p \in InFlight(requests) \cup InFlight(replies)}))

\* EncryptionManager::generateToken()
FreshToken ==
    Least(Numbers \ ({token, session.token}
                     \cup {p.token : p \in InFlight(requests) \cup InFlight(replies)}))

Room == Len(requests) + Len(replies) < MaxInFlight

\* sendPacket(); a socket that is closing takes nothing.  The token goes along
\* in the authenticated state only (addReplayProtection).
Send(kind) ==
    LET p == [kind |-> kind, id |-> NextRequestId,
              token |-> IF state = "Authenticated" THEN token ELSE 0]
    IN  requests' = IF sock = "closing" THEN requests ELSE Append(requests, p)

SendLoginRequest ==
    /\ pendingLogin' = NextRequestId
    /\ state' = "LoggingIn"
    /\ Send("login")

\* connectToServer(); Qt ignores the call while the old socket is closing.
ConnectToServer ==
    IF state = "Disconnected"
    THEN /\ state' = "Connecting"
         /\ sock' = IF sock = "none" THEN "connecting" ELSE sock
    ELSE UNCHANGED <<state, sock>>

\* resetAuthState()
ResetAuthState ==
    /\ token' = 0 /\ known' = FALSE
    /\ renewTimer' = FALSE /\ pendingRenew' = 0

\* notifySessionExpired(): once per session.
NotifySessionExpired ==
    IF notified
    THEN UNCHANGED <<clientVars, sock>>
    ELSE /\ notified' = TRUE
         /\ ResetAuthState
         /\ loginQueued' = FALSE /\ reconnectEnabled' = FALSE
         /\ state' = "Disconnected"
         /\ sock' = IF sock = "up" THEN "closing" ELSE sock
         /\ UNCHANGED <<reconnectTimer, pendingLogin>>

-----------------------------------------------------------------------------
(***************************************************************************)
(* Calls of the user interface and timers.                                 *)
(***************************************************************************)

\* The login page shows as soon as logout is pressed, so login() may come in
\* every state.
Login ==
    /\ Room
    /\ known' = TRUE /\ loginQueued' = TRUE /\ reconnectEnabled' = TRUE
    /\ IF state \in {"Connected", "Authenticated"}
       THEN SendLoginRequest /\ UNCHANGED sock
       ELSE ConnectToServer /\ UNCHANGED <<pendingLogin, requests>>
    /\ UNCHANGED <<token, notified, reconnectTimer, renewVars, replies, session>>

Logout ==
    /\ Room
    /\ state = "Authenticated"
    /\ Send("logout")
    /\ UNCHANGED <<clientVars, sock, replies, session>>

\* Any other authenticated request.
Business ==
    /\ Room
    /\ state = "Authenticated"
    /\ Send("business")
    /\ UNCHANGED <<clientVars, sock, replies, session>>

\* Faulty variant: no watchdog is started for the answer.
RenewTokenNoWatchdog ==
    /\ renewTimer /\ state = "Authenticated" /\ token # 0
    /\ Room
    /\ pendingRenew' = NextRequestId
    /\ Send("renew")
    /\ renewTimer' = FALSE
    /\ UNCHANGED <<state, authVars, intentVars, pendingLogin, sock, replies,
                   session>>

\* The renewal timer fires: a renewal that is due, a retry, or the watchdog of
\* one whose answer is late, which is given up and sent again.
RenewToken ==
    /\ renewTimer /\ state = "Authenticated" /\ token # 0
    /\ Room
    /\ pendingRenew' = NextRequestId
    /\ Send("renew")
    /\ UNCHANGED <<state, authVars, intentVars, pendingLogin, renewTimer, sock,
                   replies, session>>

RenewTimerIgnored ==
    /\ renewTimer /\ (state # "Authenticated" \/ token = 0)
    /\ renewTimer' = FALSE
    /\ UNCHANGED <<state, authVars, intentVars, pendingLogin, pendingRenew,
                   netVars, session>>

Reconnect ==
    /\ reconnectTimer
    /\ reconnectTimer' = FALSE
    /\ ConnectToServer
    /\ UNCHANGED <<authVars, loginQueued, reconnectEnabled, pendingLogin,
                   renewVars, requests, replies, session>>

-----------------------------------------------------------------------------
(***************************************************************************)
(* Socket signals.                                                         *)
(***************************************************************************)

\* onConnected(): the TCP connection stands.  A queued login is written at
\* once and goes out when the TLS handshake is over.
OnConnected ==
    /\ sock = "connecting"
    /\ sock' = "handshake"
    /\ IF loginQueued
       THEN SendLoginRequest
       ELSE state' = "Connected" /\ UNCHANGED <<pendingLogin, requests>>
    /\ UNCHANGED <<authVars, intentVars, renewVars, replies, session>>

Encrypted ==
    /\ sock = "handshake"
    /\ sock' = "up"
    /\ UNCHANGED <<clientVars, requests, replies, session>>

\* onSocketError() while connecting: no disconnected signal follows.
ConnectFails ==
    /\ sock = "connecting"
    /\ sock' = "none"
    /\ loginQueued' = FALSE
    /\ state' = "Disconnected"
    /\ UNCHANGED <<authVars, reconnectEnabled, reconnectTimer, pendingLogin,
                   renewVars, requests, replies, session>>

\* onSslErrors(): the certificate is refused.
OnSslErrors ==
    /\ sock = "handshake"
    /\ sock' = "closing"
    /\ loginQueued' = FALSE
    /\ state' = "Disconnected"
    /\ UNCHANGED <<authVars, reconnectEnabled, reconnectTimer, pendingLogin,
                   renewVars, requests, replies, session>>

\* Faulty variant: the reconnect timer is not started.
OnDisconnectedWaits(queued) ==
    LET shouldRelogin == reconnectEnabled /\ known IN
    /\ state' = "Disconnected" /\ sock' = "none"
    /\ pendingLogin' = 0 /\ pendingRenew' = 0 /\ renewTimer' = FALSE
    /\ loginQueued' = (shouldRelogin \/ queued)
    /\ requests' = <<>> /\ replies' = <<>>
    /\ session' = NoSession
    /\ UNCHANGED <<authVars, reconnectEnabled, reconnectTimer>>

\* onDisconnected() after `queued' has become of m_loginQueued.
OnDisconnected(queued) ==
    LET shouldRelogin == reconnectEnabled /\ known IN
    /\ state' = "Disconnected" /\ sock' = "none"
    /\ pendingLogin' = 0 /\ pendingRenew' = 0 /\ renewTimer' = FALSE
    /\ loginQueued' = (shouldRelogin \/ queued)
    /\ reconnectTimer' = (shouldRelogin \/ reconnectTimer)
    /\ requests' = <<>> /\ replies' = <<>>
    /\ session' = NoSession
    /\ UNCHANGED <<authVars, reconnectEnabled>>

\* The network or the server breaks the connection: the error signal, which
\* drops a queued login only while it is being sent, comes first.
Drop ==
    /\ sock \in {"handshake", "up"}
    /\ OnDisconnected(loginQueued /\ state # "LoggingIn")

\* The client's own disconnectFromHost() completes.
Closed ==
    /\ sock = "closing"
    /\ OnDisconnected(loginQueued)

-----------------------------------------------------------------------------
(***************************************************************************)
(* The server: one request at a time, in order.                            *)
(***************************************************************************)

Reply(kind, code, t) ==
    /\ sock = "up"
    /\ requests # <<>>
    /\ replies' = Append(replies, [kind |-> kind, id |-> Head(requests).id,
                                   code |-> code, token |-> t])
    /\ requests' = Tail(requests)
    /\ UNCHANGED <<clientVars, sock>>

Asked(kind) == requests # <<>> /\ Head(requests).kind = kind

\* validateSession(): token_renew is exempt from the expiry check.
SessionValid ==
    LET r == Head(requests) IN
    /\ session.token # 0 /\ session.live
    /\ session.expired => r.kind = "renew"
    /\ r.token = session.token

\* checkReplayProtection() refuses a request, for instance since the clocks
\* differ by more than 300 seconds.
ReplayRejected ==
    /\ requests # <<>>
    /\ Reply("error", "failed", 0)
    /\ UNCHANGED session

SessionRejected ==
    /\ requests # <<>> /\ Head(requests).kind # "login"
    /\ ~SessionValid
    /\ Reply("error", "invalid", 0)
    /\ UNCHANGED session

\* A second login on the connection leaves the row of the first one behind.
ProcessLogin ==
    /\ Asked("login")
    /\ \/ /\ Reply("login", "ok", FreshToken)
          /\ session' = NewSession(FreshToken)
       \/ /\ Reply("login", "failed", 0)
          /\ UNCHANGED session

ProcessLogout ==
    /\ Asked("logout") /\ SessionValid
    /\ Reply("logout", "ok", 0)
    /\ session' = NoSession

\* Faulty variant: createSession()'s -1 is stored unchecked.
ProcessTokenRenewUnchecked ==
    /\ Asked("renew") /\ SessionValid
    /\ \/ /\ Reply("renew", "ok", FreshToken)
          /\ session' = NewSession(FreshToken)
       \/ /\ Reply("renew", "failed", 0)
          /\ session' = NewSession(-1)

\* The row is read again, deleted and replaced; any of these may find it gone
\* or fail.
ProcessTokenRenew ==
    /\ Asked("renew") /\ SessionValid
    /\ \/ /\ Reply("renew", "ok", FreshToken)
          /\ session' = NewSession(FreshToken)
       \/ /\ \/ Reply("renew", "failed", 0)
             \/ Reply("renew", "invalid", 0)
          /\ session' = [session EXCEPT !.live = FALSE]

ProcessBusiness ==
    /\ Asked("business") /\ SessionValid
    /\ Reply("business", "ok", 0)
    /\ UNCHANGED session

\* terminate_session from another device.
Terminated ==
    /\ session.live
    /\ session' = [session EXCEPT !.live = FALSE]
    /\ UNCHANGED <<clientVars, netVars>>

Expires ==
    /\ session.live /\ ~session.expired
    /\ session' = [session EXCEPT !.expired = TRUE]
    /\ UNCHANGED <<clientVars, netVars>>

-----------------------------------------------------------------------------
(***************************************************************************)
(* Replies.  A socket that is closing may still have some buffered.        *)
(***************************************************************************)

Receive(kind) ==
    /\ sock \in {"up", "closing"}
    /\ replies # <<>> /\ Head(replies).kind = kind
    /\ replies' = Tail(replies)
    /\ UNCHANGED <<requests, session>>

\* Faulty variant: the request id is not compared.
HandleLoginResponseAny ==
    LET r == Head(replies) IN
    /\ Receive("login")
    /\ pendingLogin' = 0
    /\ IF r.code = "ok"
       THEN /\ token' = r.token /\ notified' = FALSE
            /\ loginQueued' = FALSE
            /\ state' = "Authenticated"
            /\ renewTimer' = TRUE
       ELSE /\ state' = "Connected"
            /\ UNCHANGED <<token, notified, loginQueued, renewTimer>>
    /\ UNCHANGED <<known, reconnectEnabled, reconnectTimer, pendingRenew, sock>>

\* Faulty variant: a refused login leaves the client in LoggingIn.
HandleLoginResponseStuck ==
    LET r == Head(replies) IN
    /\ Receive("login")
    /\ IF r.id = pendingLogin /\ r.code = "ok"
       THEN /\ token' = r.token /\ notified' = FALSE
            /\ loginQueued' = FALSE
            /\ state' = "Authenticated"
            /\ renewTimer' = TRUE
       ELSE UNCHANGED <<token, notified, loginQueued, state, renewTimer>>
    /\ pendingLogin' = IF r.id = pendingLogin THEN 0 ELSE pendingLogin
    /\ UNCHANGED <<known, reconnectEnabled, reconnectTimer, pendingRenew, sock>>

\* The requests it sends at once (conversations, outbox) are Business steps.
HandleLoginResponse ==
    LET r == Head(replies) IN
    /\ Receive("login")
    /\ IF r.id # pendingLogin
       THEN UNCHANGED <<clientVars>>
       ELSE /\ pendingLogin' = 0
            /\ IF r.code = "ok"
               THEN /\ token' = r.token /\ notified' = FALSE
                    /\ loginQueued' = FALSE
                    /\ state' = "Authenticated"
                    /\ renewTimer' = TRUE
               ELSE /\ state' = "Connected"
                    /\ UNCHANGED <<token, notified, loginQueued, renewTimer>>
            /\ UNCHANGED <<known, reconnectEnabled, reconnectTimer, pendingRenew>>
    /\ UNCHANGED sock

\* The reply is not compared with any request.
HandleLogoutResponse ==
    /\ Receive("logout")
    /\ ResetAuthState
    /\ reconnectEnabled' = FALSE
    /\ state' = "Connected"
    /\ UNCHANGED <<notified, loginQueued, reconnectTimer, pendingLogin, sock>>

HandleTokenRenewResponse ==
    LET r == Head(replies) IN
    /\ Receive("renew")
    /\ \/ /\ r.id # pendingRenew
          /\ UNCHANGED <<clientVars, sock>>
       \/ /\ r.id = pendingRenew /\ r.code = "ok"
          /\ token' = r.token
          /\ pendingRenew' = 0 /\ renewTimer' = TRUE
          /\ UNCHANGED <<state, known, notified, intentVars, pendingLogin, sock>>
       \/ /\ r.id = pendingRenew /\ r.code = "invalid"
          /\ NotifySessionExpired
       \/ /\ r.id = pendingRenew /\ r.code = "failed"
          /\ pendingRenew' = 0 /\ renewTimer' = TRUE
          /\ UNCHANGED <<state, authVars, intentVars, pendingLogin, sock>>

HandleBusinessResponse ==
    /\ Receive("business")
    /\ UNCHANGED <<clientVars, sock>>

\* Faulty variant: the token and the state survive an expired session.
HandleErrorResponseKeeps ==
    /\ Receive("error")
    /\ IF Head(replies).code = "invalid"
       THEN /\ notified' = TRUE
            /\ UNCHANGED <<state, token, known, intentVars, pendingLogin,
                           renewVars, sock>>
       ELSE UNCHANGED <<clientVars, sock>>

\* Only the slots of key requests are freed here, not pendingLogin.
HandleErrorResponse ==
    /\ Receive("error")
    /\ IF Head(replies).code = "invalid"
       THEN NotifySessionExpired
       ELSE UNCHANGED <<clientVars, sock>>

-----------------------------------------------------------------------------
ClientReceive ==
    \/ HandleLoginResponse \/ HandleLogoutResponse \/ HandleTokenRenewResponse
    \/ HandleBusinessResponse \/ HandleErrorResponse

ServerStep ==
    \/ ReplayRejected \/ SessionRejected \/ ProcessLogin \/ ProcessLogout
    \/ ProcessTokenRenew \/ ProcessBusiness

SocketStep ==
    \/ OnConnected \/ Encrypted \/ ConnectFails \/ OnSslErrors \/ Closed

Next ==
    \/ Login \/ Business \/ Logout
    \/ RenewToken \/ RenewTimerIgnored \/ Reconnect
    \/ SocketStep \/ Drop
    \/ ServerStep \/ Terminated \/ Expires
    \/ ClientReceive

Spec == Init /\ [][Next]_vars

(***************************************************************************)
(* A connection attempt ends one way or the other, started timers fire,    *)
(* the server answers and the client reads.  Nothing obliges the user, and *)
(* the connection may break as often as it likes.                          *)
(***************************************************************************)
Fairness ==
    /\ WF_vars(SocketStep)
    /\ WF_vars(Reconnect)
    /\ WF_vars(ServerStep)
    /\ WF_vars(ClientReceive)

FairSpec == Spec /\ Fairness

-----------------------------------------------------------------------------
(***************************************************************************)
(* Properties that hold.                                                   *)
(***************************************************************************)

Asking(kind) == \E p \in InFlight(requests) : p.kind = kind
Answered(kind) == \E p \in InFlight(replies) : p.kind = kind

\* Between renewals, and unless a logout is on its way, an authenticated client
\* holds the very token of the session its connection has on the server: no
\* late, repeated or foreign answer to a login or to a renewal that was given
\* up is taken for the current one.
TokenAgreement ==
    state = "Authenticated" /\ sock = "up" /\ pendingRenew = 0
    /\ ~Asking("logout") /\ ~Answered("logout")
        => token = session.token

\* While a client is authenticated a renewal is scheduled, being retried, or
\* watched: whatever is lost or refused, the session is not left to expire
\* in silence.
RenewalScheduled == state = "Authenticated" => renewTimer

\* Once the client has told the user that the session is over, nothing that
\* still arrives on the connection makes it authenticated with what it held.
ExpiredIsOver == notified => token = 0 /\ state # "Authenticated"

\* A login request that was written cannot keep the client waiting for ever: it
\* is answered, the connection breaks, or the session is ended under it.  The
\* exception is an Error reply to the login itself (the replay guard refused
\* it): handleErrorResponse leaves m_pendingLoginRequestId and the LoggingIn
\* state as they are.
LoginRefusedByGuard ==
    \E p \in InFlight(replies) : p.kind = "error" /\ p.id = pendingLogin

LoginSettles ==
    state = "LoggingIn" /\ (\E p \in InFlight(requests) : p.id = pendingLogin)
        ~> state # "LoggingIn" \/ LoginRefusedByGuard

\* A login that is queued, by the user or because a connection was lost, is
\* sent, or given up visibly, after any sequence of broken and refused
\* connections.
LoginIsTried ==
    (loginQueued /\ reconnectEnabled /\ known
     /\ state \in {"Disconnected", "Connecting"})
        ~> state = "LoggingIn" \/ ~loginQueued \/ ~reconnectEnabled

=============================================================================
