--------------------------- MODULE SessionRouting ---------------------------
(***************************************************************************)
(* The server's session table and its online routing.                      *)
(*                                                                         *)
(* Every accepted connection has a handler thread (RequestHandler, one     *)
(* QThread each).  A handler authenticates its connection, creates and     *)
(* deletes rows of the sessions table, and tells the main thread about it  *)
(* with queued signals.  The main thread (Server) keeps the routing maps   *)
(* and is the only one that reads or writes them.  All queued signals of   *)
(* all handlers end up in the single event queue of the main thread, in    *)
(* the order they were emitted: `inbox'.                                   *)
(*                                                                         *)
(* A request handler runs to completion on its own thread, but its         *)
(* database calls and its emits interleave with those of the other         *)
(* handlers.  Requests with more than one such point are split there, and  *)
(* op[h] says where the handler of connection h stands.                    *)
(***************************************************************************)
EXTENDS Integers, Sequences

CONSTANTS
    Users,      \* accounts
    Devices,    \* device ids a client may log in with
    Conns,      \* connections, each served by one handler and never reused
    MaxSession, \* bound: rows ever inserted into the sessions table
    MaxQueue,   \* bound: events waiting when a message push is emitted
    NoUser,     \* m_authenticatedUserId = 0
    NoDevice,   \* an absent deviceId
    NoConn      \* a session id without a handler in m_sessionHandlers

ASSUME SessionConstants ==
    /\ MaxSession \in Nat
    /\ MaxQueue \in Nat
    /\ NoUser \notin Users
    /\ NoDevice \notin Devices
    /\ NoConn \notin Conns

VARIABLES
    row,        \* sessions table; a deleted row keeps its columns, unread
    nextSid,    \* AUTOINCREMENT: ids are never reused
    phase,      \* lifecycle of each connection and its handler thread
    auth,       \* RequestHandler::m_authenticatedUserId
    cur,        \* RequestHandler::m_currentSessionId (0: none)
    dev,        \* RequestHandler::m_currentDeviceId
    op,         \* request in progress on the handler thread
    kick,       \* a disconnectClient() call is posted to the handler
    inbox,      \* event queue of the main thread
    online,     \* Server::m_onlineSessions
    handlerOf,  \* Server::m_sessionHandlers
    userOf,     \* Server::m_handlerUsers
    key,        \* history: session id of the last login on the connection
    terminated  \* history: session ids deleted by a terminate request

tableVars   == <<row, nextSid>>
handlerVars == <<phase, auth, cur, dev, op, kick, key>>
serverVars  == <<online, handlerOf, userOf>>
vars == <<tableVars, handlerVars, inbox, serverVars, terminated>>

Sids == 1 .. MaxSession
Idle == [step |-> "idle", sid |-> 0]

\* A column set for ids that have not been handed out yet.
Unissued == [user |-> NoUser, device |-> NoDevice, conn |-> NoConn,
             live |-> FALSE, expired |-> FALSE]

Rows == [user : Users \cup {NoUser}, device : Devices \cup {NoDevice},
         conn : Conns \cup {NoConn}, live : BOOLEAN, expired : BOOLEAN]

Ops == [step : {"idle", "login", "renewDelete", "renewCreate",
                "termDelete", "termLogout", "termKick"},
        sid : 0 .. MaxSession]

Events == [type : {"in", "out", "terminated", "message", "finished"},
           conn : Conns, user : Users \cup {NoUser}, sid : 0 .. MaxSession]

Event(type, h, u, s) == [type |-> type, conn |-> h, user |-> u, sid |-> s]

TypeOK ==
    /\ row \in [Sids -> Rows]
    /\ nextSid \in 1 .. MaxSession + 1
    /\ phase \in [Conns -> {"new", "open", "closed", "failed"}]
    /\ auth \in [Conns -> Users \cup {NoUser}]
    /\ cur \in [Conns -> 0 .. MaxSession]
    /\ dev \in [Conns -> Devices \cup {NoDevice}]
    /\ op \in [Conns -> Ops]
    /\ kick \in [Conns -> BOOLEAN]
    /\ key \in [Conns -> 0 .. MaxSession]
    /\ inbox \in Seq(Events)
    /\ online \in [Users -> SUBSET Sids]
    /\ handlerOf \in [Sids -> Conns \cup {NoConn}]
    /\ userOf \in [Conns -> Users \cup {NoUser}]
    /\ terminated \subseteq Sids

Init ==
    /\ row = [s \in Sids |-> Unissued]
    /\ nextSid = 1
    /\ phase = [h \in Conns |-> "new"]
    /\ auth = [h \in Conns |-> NoUser]
    /\ cur = [h \in Conns |-> 0]
    /\ dev = [h \in Conns |-> NoDevice]
    /\ op = [h \in Conns |-> Idle]
    /\ kick = [h \in Conns |-> FALSE]
    /\ key = [h \in Conns |-> 0]
    /\ inbox = <<>>
    /\ online = [u \in Users |-> {}]
    /\ handlerOf = [s \in Sids |-> NoConn]
    /\ userOf = [h \in Conns |-> NoUser]
    /\ terminated = {}

-----------------------------------------------------------------------------
(***************************************************************************)
(* Helpers of the handler side.                                            *)
(***************************************************************************)

Emit(e) == inbox' = Append(inbox, e)

\* INSERT INTO sessions; the new row's id is nextSid.
CreateSession(h, u, d) ==
    /\ nextSid <= MaxSession
    /\ row' = [row EXCEPT ![nextSid] =
                  [user |-> u, device |-> d, conn |-> h,
                   live |-> TRUE, expired |-> FALSE]]
    /\ nextSid' = nextSid + 1

\* Faulty variant: without AUTOINCREMENT the greatest id is handed out again.
DeleteSessionFreesId(s) ==
    /\ row' = [row EXCEPT ![s].live = FALSE]
    /\ nextSid' = IF s = nextSid - 1 THEN s ELSE nextSid

\* DELETE FROM sessions WHERE id = s; deleting a missing row succeeds too.
DeleteSession(s) ==
    /\ row' = [row EXCEPT ![s].live = FALSE]
    /\ UNCHANGED nextSid

\* The handler is at the point where it takes the next packet.
Ready(h) == phase[h] = "open" /\ op[h] = Idle

\* validateSession() for a request that carries the connection's own token:
\* a request with any other token is refused and changes nothing.
SessionValid(h) ==
    /\ cur[h] # 0 /\ auth[h] # NoUser
    /\ row[cur[h]].live
    /\ row[cur[h]].user = auth[h]

Validated(h) == SessionValid(h) /\ ~row[cur[h]].expired

Advance(h, step, s) == op' = [op EXCEPT ![h] = [step |-> step, sid |-> s]]
Finish(h) == op' = [op EXCEPT ![h] = Idle]

-----------------------------------------------------------------------------
(***************************************************************************)
(* Handler threads.                                                        *)
(***************************************************************************)

\* run(): database and socket are set up and exec() starts.
Accept(h) ==
    /\ phase[h] = "new"
    /\ phase' = [phase EXCEPT ![h] = "open"]
    /\ UNCHANGED <<tableVars, auth, cur, dev, op, kick, key, inbox,
                   serverVars, terminated>>

\* run(): either set-up fails.  It is the only place that emits finished().
InitFails(h) ==
    /\ phase[h] = "new"
    /\ phase' = [phase EXCEPT ![h] = "failed"]
    /\ Emit(Event("finished", h, NoUser, 0))
    /\ UNCHANGED <<tableVars, auth, cur, dev, op, kick, key, serverVars,
                   terminated>>

\* A login request with the right password: the session row is inserted.  The
\* client always names its device.
\* Nothing asks whether the connection is already logged in.
LoginCreate(h, u, d) ==
    /\ Ready(h)
    /\ CreateSession(h, u, d)
    /\ Advance(h, "login", nextSid)
    /\ UNCHANGED <<phase, auth, cur, dev, kick, key, inbox, serverVars,
                   terminated>>

\* Faulty variant: userLoggedIn is emitted for the account logged in before.
LoginFinishStaleUser(h) ==
    LET s == op[h].sid IN
    /\ op[h].step = "login"
    /\ Emit(Event("in", h, auth[h], s))
    /\ auth' = [auth EXCEPT ![h] = row[s].user]
    /\ cur' = [cur EXCEPT ![h] = s]
    /\ dev' = [dev EXCEPT ![h] = row[s].device]
    /\ key' = [key EXCEPT ![h] = s]
    /\ Finish(h)
    /\ UNCHANGED <<tableVars, phase, kick, serverVars, terminated>>

\* ... then the connection's state is set and userLoggedIn is emitted.
LoginFinish(h) ==
    LET s == op[h].sid IN
    /\ op[h].step = "login"
    /\ auth' = [auth EXCEPT ![h] = row[s].user]
    /\ cur' = [cur EXCEPT ![h] = s]
    /\ dev' = [dev EXCEPT ![h] = row[s].device]
    /\ key' = [key EXCEPT ![h] = s]
    /\ Emit(Event("in", h, row[s].user, s))
    /\ Finish(h)
    /\ UNCHANGED <<tableVars, phase, kick, serverVars, terminated>>

\* Faulty variant: the connection's state is cleared before the signal.
LogoutClearsFirst(h) ==
    /\ Ready(h) /\ Validated(h)
    /\ DeleteSession(cur[h])
    /\ auth' = [auth EXCEPT ![h] = NoUser]
    /\ cur' = [cur EXCEPT ![h] = 0]
    /\ Emit(Event("out", h, auth'[h], cur'[h]))
    /\ key' = [key EXCEPT ![h] = 0]
    /\ UNCHANGED <<phase, dev, op, kick, serverVars, terminated>>

Logout(h) ==
    /\ Ready(h) /\ Validated(h)
    /\ DeleteSession(cur[h])
    /\ Emit(Event("out", h, auth[h], cur[h]))
    /\ auth' = [auth EXCEPT ![h] = NoUser]
    /\ cur' = [cur EXCEPT ![h] = 0]
    /\ key' = [key EXCEPT ![h] = 0]
    /\ UNCHANGED <<phase, dev, op, kick, serverVars, terminated>>

\* token_renew is validated without the expiry check, and reads the row once
\* more before it replaces it.
RenewCheck(h) ==
    /\ Ready(h) /\ SessionValid(h)
    /\ Advance(h, "renewDelete", cur[h])
    /\ UNCHANGED <<tableVars, phase, auth, cur, dev, kick, key, inbox,
                   serverVars, terminated>>

\* Faulty variant: renewal announces the end of the old session only.
RenewDeleteLogsOut(h) ==
    /\ op[h].step = "renewDelete"
    /\ DeleteSession(op[h].sid)
    /\ Emit(Event("out", h, auth[h], op[h].sid))
    /\ Advance(h, "renewCreate", op[h].sid)
    /\ UNCHANGED <<phase, auth, cur, dev, kick, key, serverVars, terminated>>

RenewDelete(h) ==
    /\ op[h].step = "renewDelete"
    /\ DeleteSession(op[h].sid)
    /\ Advance(h, "renewCreate", op[h].sid)
    /\ UNCHANGED <<phase, auth, cur, dev, kick, key, inbox, serverVars,
                   terminated>>

\* No signal tells the main thread that the session id has changed.
RenewCreate(h) ==
    /\ op[h].step = "renewCreate"
    /\ CreateSession(h, auth[h], dev[h])
    /\ cur' = [cur EXCEPT ![h] = nextSid]
    /\ Finish(h)
    /\ UNCHANGED <<phase, auth, dev, kick, key, inbox, serverVars, terminated>>

\* Faulty variant: createSession()'s -1 is stored unchecked.
RenewFailsUnchecked(h) ==
    /\ op[h].step = "renewCreate"
    /\ cur' = [cur EXCEPT ![h] = -1]
    /\ Finish(h)
    /\ UNCHANGED <<tableVars, phase, auth, dev, kick, key, inbox, serverVars,
                   terminated>>

\* createSession() fails: the old row is gone, m_currentSessionId still names it.
RenewFails(h) ==
    /\ op[h].step = "renewCreate"
    /\ Finish(h)
    /\ UNCHANGED <<tableVars, phase, auth, cur, dev, kick, key, inbox,
                   serverVars, terminated>>

\* terminate_session names a session id, a device id, or both; the first own
\* row that matches either is taken.  Rows are listed newest first with a
\* resolution of one second, so any match may be the first.
TerminateResolve(h, s, d) ==
    LET matches == {t \in Sids : /\ row[t].live /\ row[t].user = auth[h]
                                 /\ t = s \/ (d # NoDevice /\ row[t].device = d)}
    IN
    /\ Ready(h) /\ Validated(h)
    /\ s # 0 \/ d # NoDevice
    /\ s # cur[h]
    /\ \E t \in matches : Advance(h, "termDelete", t)
    /\ UNCHANGED <<tableVars, phase, auth, cur, dev, kick, key, inbox,
                   serverVars, terminated>>

TerminateDelete(h) ==
    /\ op[h].step = "termDelete"
    /\ DeleteSession(op[h].sid)
    /\ terminated' = terminated \cup {op[h].sid}
    /\ Advance(h, "termLogout", op[h].sid)
    /\ UNCHANGED <<phase, auth, cur, dev, kick, key, inbox, serverVars>>

TerminateLogout(h) ==
    /\ op[h].step = "termLogout"
    /\ Emit(Event("out", h, auth[h], op[h].sid))
    /\ Advance(h, "termKick", op[h].sid)
    /\ UNCHANGED <<tableVars, phase, auth, cur, dev, kick, key, serverVars,
                   terminated>>

TerminateKick(h) ==
    /\ op[h].step = "termKick"
    /\ Emit(Event("terminated", h, auth[h], op[h].sid))
    /\ Finish(h)
    /\ UNCHANGED <<tableVars, phase, auth, cur, dev, kick, key, serverVars,
                   terminated>>

\* Any handler that notifies user u (send_message, ack_message, ...).
Push(h, u) ==
    /\ Ready(h) /\ Validated(h)
    /\ Len(inbox) < MaxQueue
    /\ Emit(Event("message", h, u, 0))
    /\ UNCHANGED <<tableVars, handlerVars, serverVars, terminated>>

\* Faulty variant: the handler ends without a signal.
LeaveSilently(h) ==
    /\ Ready(h)
    /\ phase' = [phase EXCEPT ![h] = "closed"]
    /\ key' = [key EXCEPT ![h] = 0]
    /\ kick' = [kick EXCEPT ![h] = FALSE]
    /\ UNCHANGED <<tableVars, auth, cur, dev, op, inbox, serverVars, terminated>>

\* run() after exec(): the socket is gone.  The session row stays.
Leave(h) ==
    /\ Ready(h)
    /\ phase' = [phase EXCEPT ![h] = "closed"]
    /\ key' = [key EXCEPT ![h] = 0]
    /\ kick' = [kick EXCEPT ![h] = FALSE]
    /\ IF cur[h] # 0
       THEN Emit(Event("out", h, auth[h], cur[h]))
       ELSE UNCHANGED inbox
    /\ UNCHANGED <<tableVars, auth, cur, dev, op, serverVars, terminated>>

\* The peer closes, sends an invalid frame, or stays silent for 90 seconds.
PeerLeaves(h) == ~kick[h] /\ Leave(h)

\* The posted disconnectClient() call runs on the handler thread.
Kicked(h) == kick[h] /\ Leave(h)

\* expires_at passes.
Expire(s) ==
    /\ row[s].live /\ ~row[s].expired
    /\ row' = [row EXCEPT ![s].expired = TRUE]
    /\ UNCHANGED <<nextSid, handlerVars, inbox, serverVars, terminated>>

-----------------------------------------------------------------------------
(***************************************************************************)
(* Main thread: one queued signal at a time.                               *)
(***************************************************************************)

Take(type) ==
    /\ inbox # <<>>
    /\ Head(inbox).type = type
    /\ inbox' = Tail(inbox)

\* Faulty variant: only an account's first session is routed.
OnUserLoggedInOnce ==
    LET e == Head(inbox) IN
    /\ Take("in")
    /\ IF online[e.user] = {}
       THEN /\ online' = [online EXCEPT ![e.user] = {e.sid}]
            /\ handlerOf' = [handlerOf EXCEPT ![e.sid] = e.conn]
       ELSE UNCHANGED <<online, handlerOf>>
    /\ userOf' = [userOf EXCEPT ![e.conn] = e.user]
    /\ UNCHANGED <<tableVars, handlerVars, terminated>>

OnUserLoggedIn ==
    LET e == Head(inbox) IN
    /\ Take("in")
    /\ online' = [online EXCEPT ![e.user] = @ \cup {e.sid}]
    /\ handlerOf' = [handlerOf EXCEPT ![e.sid] = e.conn]
    /\ userOf' = [userOf EXCEPT ![e.conn] = e.user]
    /\ UNCHANGED <<tableVars, handlerVars, terminated>>

\* The branch for session id 0 has no emitter; see EventsNameOwner.
OnUserLoggedOut ==
    LET e == Head(inbox) IN
    /\ Take("out")
    /\ e.sid # 0
    /\ online' = [online EXCEPT ![e.user] = @ \ {e.sid}]
    /\ handlerOf' = [handlerOf EXCEPT ![e.sid] = NoConn]
    /\ UNCHANGED <<tableVars, handlerVars, userOf, terminated>>

OnSessionTerminated ==
    LET e == Head(inbox)
        h == handlerOf[e.sid] IN
    /\ Take("terminated")
    /\ IF h # NoConn /\ phase[h] = "open"
       THEN kick' = [kick EXCEPT ![h] = TRUE]
       ELSE UNCHANGED kick
    /\ UNCHANGED <<tableVars, phase, auth, cur, dev, op, key, serverVars,
                   terminated>>

\* sendRawData() on the handler of every session in online[user].
OnMessageForUser ==
    /\ Take("message")
    /\ UNCHANGED <<tableVars, handlerVars, serverVars, terminated>>

OnHandlerFinished ==
    LET h == Head(inbox).conn
        gone == {s \in Sids : handlerOf[s] = h} IN
    /\ Take("finished")
    /\ userOf' = [userOf EXCEPT ![h] = NoUser]
    /\ IF userOf[h] # NoUser /\ online[userOf[h]] # {}
       THEN /\ online' = [online EXCEPT ![userOf[h]] = @ \ gone]
            /\ handlerOf' = [s \in Sids |->
                                IF s \in gone THEN NoConn ELSE handlerOf[s]]
       ELSE UNCHANGED <<online, handlerOf>>
    /\ UNCHANGED <<tableVars, handlerVars, terminated>>

-----------------------------------------------------------------------------
HandlerStep(h) ==
    \/ LoginFinish(h)
    \/ RenewDelete(h) \/ RenewCreate(h) \/ RenewFails(h)
    \/ TerminateDelete(h) \/ TerminateLogout(h) \/ TerminateKick(h)
    \/ Kicked(h)

Request(h) ==
    \/ Accept(h) \/ InitFails(h) \/ PeerLeaves(h)
    \/ \E u \in Users, d \in Devices : LoginCreate(h, u, d)
    \/ Logout(h)
    \/ RenewCheck(h)
    \/ \E s \in 0 .. MaxSession, d \in Devices \cup {NoDevice} :
          TerminateResolve(h, s, d)
    \/ \E u \in Users : Push(h, u)

ServerStep ==
    \/ OnUserLoggedIn \/ OnUserLoggedOut \/ OnSessionTerminated
    \/ OnMessageForUser \/ OnHandlerFinished

Next ==
    \/ \E h \in Conns : Request(h) \/ HandlerStep(h)
    \/ ServerStep
    \/ \E s \in Sids : Expire(s)

Spec == Init /\ [][Next]_vars

(***************************************************************************)
(* A request that has started is run to its end by its thread, and the     *)
(* main thread's event loop keeps taking events.  Clients owe nothing.     *)
(***************************************************************************)
Fairness ==
    /\ \A h \in Conns : WF_vars(HandlerStep(h))
    /\ WF_vars(ServerStep)

FairSpec == Spec /\ Fairness

-----------------------------------------------------------------------------
(***************************************************************************)
(* Properties that hold.                                                   *)
(***************************************************************************)

Queued(type, s) ==
    \E i \in 1 .. Len(inbox) : inbox[i].type = type /\ inbox[i].sid = s

Routed(h, s) == s \in online[row[s].user] /\ handlerOf[s] = h

\* onMessageForUser pushes a user's messages to the handlers of the sessions
\* in m_onlineSessions.  Each of those sessions is one of that user's, and is
\* routed to the connection that logged it in, whatever the order in which
\* logins, terminations and disconnects of several connections were queued.
RoutesBelongToOwner ==
    \A s \in Sids :
        /\ \A u \in Users : s \in online[u] => row[s].user = u
        /\ handlerOf[s] # NoConn => handlerOf[s] = row[s].conn

\* Every login, logout and termination on its way to the main thread names a
\* real session (onUserLoggedOut treats id 0 as "all sessions of the user")
\* together with the account that owns it, even when it was emitted for
\* another connection's session.
EventsNameOwner ==
    \A i \in 1 .. Len(inbox) :
        inbox[i].type \in {"in", "out", "terminated"} =>
            /\ inbox[i].sid # 0
            /\ inbox[i].user = row[inbox[i].sid].user

\* Two connections never hold the same session id in m_currentSessionId, so
\* a deleted session's connection cannot be revived by another one's login.
NoSharedSession ==
    \A g, h \in Conns : g # h /\ cur[g] = cur[h] => cur[g] = 0

\* A connection with a valid session is reachable: the session id it logged in
\* with is routed to it, or the login is still queued.  This is what keeps
\* pushes flowing after any number of renewals, none of which updates the
\* routing maps.  It fails only for a connection whose login session was
\* deleted by terminate_session while the connection was renewing it.
LiveReachable ==
    \A h \in Conns :
        phase[h] = "open" /\ SessionValid(h) /\ key[h] \notin terminated =>
            /\ key[h] # 0
            /\ Queued("in", key[h]) \/ Routed(h, key[h])

\* A login that created its session row ends up in the routing maps.
LoginRouted ==
    \A h \in Conns, s \in Sids :
        op[h] = [step |-> "login", sid |-> s] ~> handlerOf[s] = h

\* The session id a connection held when it closed is removed from the routing
\* maps for good.  The id it logged in with need not be: once the session has
\* been renewed, no signal names that id any more.
LeaverUnrouted ==
    \A h \in Conns, s \in Sids :
        phase[h] = "closed" /\ cur[h] = s ~> [](handlerOf[s] = NoConn)

-----------------------------------------------------------------------------
(***************************************************************************)
(* What the documents promise and the code does not keep.                  *)
(***************************************************************************)

\* No handler and no queued event has anything left to do.
Quiet ==
    /\ inbox = <<>>
    /\ \A h \in Conns : op[h].step = "idle" /\ ~kick[h]

\* docs/PROTOCOL.md: the connection of a terminated session is closed by the
\* server.
TerminatedIsDisconnected ==
    Quiet => \A h \in Conns : phase[h] = "open" => cur[h] \notin terminated

\* docs/SECURITY.md: a session that terminate_session deleted is invalid at
\* once, so the connection that held it is not authenticated again unless it
\* logs in.
TerminatedStaysOut ==
    [][\A h \in Conns :
          cur[h] \in terminated /\ op[h].step # "login" => ~Validated(h)']_vars
=============================================================================
