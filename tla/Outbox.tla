------------------------------- MODULE Outbox -------------------------------
(***************************************************************************)
(* The client's outbox of private messages and the server's idempotent     *)
(* send.                                                                   *)
(*                                                                         *)
(* A message gets its clientMessageId (here: a number, in the order of     *)
(* composition) when it is composed and stays in the outbox, in memory and *)
(* on disk, until its send request is acknowledged.  For every message the *)
(* client first fetches a key bundle of the recipient; the keys serve one  *)
(* message.  All messages have the same recipient, and the user may edit a  *)
(* message this recipient got before: an edit is encrypted with a bundle,   *)
(* too, and shares the one slot for key requests.  The server serves every  *)
(* connection on a thread of its own and goes on with what it has received *)
(* after the client has lost the connection, so that a send request and    *)
(* its repetition can be processed at the same time.                       *)
(*                                                                         *)
(* How a connection comes about and how its session ends is the subject of *)
(* ClientSession: here a login succeeds in one step and registers the      *)
(* device's keys, and a logout waits for the requests before it.            *)
(***************************************************************************)
EXTENDS Integers, Sequences, FiniteSets, Functions

CONSTANTS
    Accounts,    \* accounts used on the client's device
    NoUser,      \* nobody is logged in
    MaxItem,     \* bound: messages composed and edits, together
    MaxConn,     \* bound: connections; numbers are not used again
    MaxTimer     \* bound: timers after refused key requests that run at once

ASSUME OutboxConstants ==
    /\ NoUser \notin Accounts
    /\ {MaxItem, MaxConn} \subseteq Nat
    /\ MaxTimer \in Nat \ {0}

VARIABLES
    user,        \* m_username; its LocalStore is open
    authed,      \* m_state is Authenticated
    conn,        \* the client's connection (0: none)
    fetching,    \* m_pendingFetchKeysRequestId # 0
    backoff,     \* m_fetchBackoffUntil of the recipient lies ahead
    timers,      \* single-shot timers that are running, of each kind
    edit,        \* m_pendingEditMessageId # 0, for a message to the recipient
    edits,       \* edits so far
    outbox,      \* m_outbox
    sending,     \* values of m_pendingSendByRequestId
    replies,     \* server to client on the client's connection
    disk,        \* outbox table of each account's LocalStore
    nextConn,    \* next connection number
    queue,       \* client to server on every connection
    account,     \* account each connection is logged in to
    op,          \* send request in progress on each handler thread
    rows,        \* messages table: id |-> sender and clientMessageId
    announced,   \* ids of the messages in the sync_events of both users
    composer,    \* history: who composed the message
    discarded,   \* history: messages the client gave up
    missed,      \* history: a message waits, and nothing will flush the outbox
    refused      \* history: the replay guard refused a request on this connection

editVars   == <<edit, edits>>
fetchVars  == <<fetching, backoff, timers, editVars, missed>>
clientVars == <<user, authed, conn, fetchVars, outbox, sending, disk>>
serverVars == <<account, op, rows, announced>>
historyVars == <<composer, discarded, refused>>
vars == <<clientVars, replies, nextConn, queue, serverVars, historyVars>>

Items == 1 .. MaxItem
Conns == 1 .. MaxConn
Idle == [step |-> "idle", item |-> 0, sender |-> NoUser, row |-> 0]

Kinds == {"sync", "fetch", "send", "edit"}
TimerKinds == {"fetch", "send"}
Request(kind, i) == [kind |-> kind, item |-> i]
Reply(kind, code, i, keys) ==
    [kind |-> kind, code |-> code, item |-> i, keys |-> keys]

Composed == {i \in Items : composer[i] # NoUser}

TypeOK ==
    /\ user \in Accounts \cup {NoUser} /\ authed \in BOOLEAN
    /\ conn \in 0 .. MaxConn /\ nextConn \in 1 .. MaxConn + 1
    /\ {fetching, backoff, edit, missed} \subseteq BOOLEAN
    /\ timers \in [TimerKinds -> 0 .. MaxTimer] /\ edits \in Nat
    /\ outbox \in Seq(Items) /\ sending \subseteq Items
    /\ replies \in Seq([kind : Kinds, code : {"ok", "failed", "invalid", "refused"},
                        item : 0 .. MaxItem, keys : SUBSET Items])
    /\ disk \in [Accounts -> SUBSET Items]
    /\ queue \in [Conns -> Seq([kind : Kinds, item : 0 .. MaxItem])]
    /\ account \in [Conns -> Accounts \cup {NoUser}]
    /\ op \in [Conns -> [step : {"idle", "insert", "announce"},
                         item : 0 .. MaxItem,
                         sender : Accounts \cup {NoUser}, row : Nat]]
    /\ rows \in Seq([sender : Accounts, key : Items])
    /\ announced \subseteq DOMAIN rows
    /\ composer \in [Items -> Accounts \cup {NoUser}]
    /\ discarded \subseteq Items /\ refused \in BOOLEAN

Init ==
    /\ user = NoUser /\ authed = FALSE /\ conn = 0 /\ nextConn = 1
    /\ fetching = FALSE /\ backoff = FALSE
    /\ timers = [t \in TimerKinds |-> 0]
    /\ edit = FALSE /\ edits = 0 /\ missed = FALSE
    /\ outbox = <<>> /\ sending = {} /\ replies = <<>>
    /\ disk = [a \in Accounts |-> {}]
    /\ queue = [c \in Conns |-> <<>>]
    /\ account = [c \in Conns |-> NoUser]
    /\ op = [c \in Conns |-> Idle]
    /\ rows = <<>> /\ announced = {}
    /\ composer = [i \in Items |-> NoUser]
    /\ discarded = {} /\ refused = FALSE

-----------------------------------------------------------------------------
(***************************************************************************)
(* The client.                                                             *)
(***************************************************************************)

\* A set of messages in the order in which they were composed.
InOrder(D) ==
    [k \in 1 .. Cardinality(D) |->
        CHOOSE i \in D : Cardinality({j \in D : j < i}) = k - 1]

\* The other messages of the outbox, in the order they had.
Without(box, S) ==
    LET kept == InOrder({n \in DOMAIN box : box[n] \notin S})
    IN  [k \in DOMAIN kept |-> box[kept[k]]]

Waiting == \E i \in Range(outbox) : i \notin sending

\* A message waits, and no timer will flush the outbox.
Unserved == Waiting /\ \A t \in TimerKinds : timers[t] = 0

\* flushOutbox() of an authenticated client, at the end of a handler that has
\* written `written' and left the fetch slot as given: one bundle is fetched
\* at a time, for a message that is not in flight.
FlushOutbox(written, isFetching) ==
    LET fetch == ~isFetching /\ ~backoff' /\ Waiting'
        more  == IF fetch THEN <<Request("fetch", 0)>> ELSE <<>>
    IN  /\ queue' = [queue EXCEPT ![conn'] = @ \o written \o more]
        /\ fetching' = (isFetching \/ fetch)
        /\ missed' = (~isFetching /\ backoff' /\ Unserved')

\* sendMessage(): the disk copy comes first.
Compose(i) ==
    /\ user # NoUser
    /\ i \notin Composed /\ (i - 1 \in Items => i - 1 \in Composed)
    /\ edits + Cardinality(Composed) < MaxItem
    /\ composer' = [composer EXCEPT ![i] = user]
    /\ disk' = [disk EXCEPT ![user] = @ \cup {i}]
    /\ outbox' = Append(outbox, i)
    /\ UNCHANGED <<user, authed, conn, backoff, timers, editVars, sending>>
    /\ IF authed
       THEN FlushOutbox(<<>>, fetching)
       ELSE UNCHANGED <<queue, fetching, missed>>
    /\ UNCHANGED <<replies, nextConn, serverVars, discarded, refused>>

\* editMessage(): the request for a bundle does not wait for the slot; the answer
\* to one that is under way will be ignored.
EditMessage ==
    /\ authed
    /\ edits + Cardinality(Composed) < MaxItem
    /\ edits' = edits + 1
    /\ edit' = TRUE
    /\ fetching' = TRUE
    /\ queue' = [queue EXCEPT ![conn] = Append(@, Request("fetch", 0))]
    /\ UNCHANGED <<user, authed, conn, backoff, timers, missed, outbox, sending, disk,
                   replies, nextConn, serverVars, historyVars>>

\* A login, of the user or of the client after it has lost its connection:
\* openLocalStore() merges the messages on disk and asks for the events, then
\* the outbox is flushed.
Login(a) ==
    LET merged == InOrder(disk[a] \ Range(outbox)) IN
    /\ ~authed
    /\ user \in {NoUser, a}
    /\ IF conn = 0
       THEN /\ nextConn <= MaxConn
            /\ conn' = nextConn /\ nextConn' = nextConn + 1
       ELSE /\ queue[conn] = <<>> /\ replies = <<>>
            /\ UNCHANGED <<conn, nextConn>>
    /\ user' = a /\ authed' = TRUE
    /\ account' = [account EXCEPT ![conn'] = a]
    /\ outbox' = outbox \o merged
    /\ UNCHANGED <<backoff, timers, editVars, sending, disk>>
    /\ FlushOutbox(<<Request("sync", 0)>>, fetching)
    /\ UNCHANGED <<replies, op, rows, announced, historyVars>>

\* resetAuthState(): the disk copies go, the messages in memory and the edit stay.
ResetAuthState ==
    /\ user' = NoUser /\ authed' = FALSE
    /\ fetching' = FALSE
    /\ backoff' = FALSE /\ missed' = FALSE
    /\ disk' = [a \in Accounts |-> IF a = user THEN {} ELSE disk[a]]
    /\ discarded' = discarded \cup Range(outbox)
                              \cup UNION {disk[a] : a \in Accounts \cap {user}}
    /\ UNCHANGED <<timers, editVars, outbox>>

\* The answer to a logout, which comes after all others.
Logout ==
    /\ authed
    /\ queue[conn] = <<>> /\ op[conn] = Idle /\ replies = <<>>
    /\ ResetAuthState
    /\ account' = [account EXCEPT ![conn] = NoUser]
    /\ UNCHANGED <<conn, sending, replies, nextConn, queue, op, rows, announced,
                   composer, refused>>

\* Faulty variant: the requests in flight are not forgotten.
OnDisconnectedKeeps ==
    /\ conn' = 0 /\ authed' = FALSE
    /\ fetching' = FALSE
    /\ replies' = <<>> /\ refused' = FALSE
    /\ UNCHANGED <<user, backoff, timers, editVars, missed, outbox, sending, disk>>

\* onDisconnected()
OnDisconnected ==
    /\ conn' = 0 /\ authed' = FALSE
    /\ fetching' = FALSE
    /\ sending' = {} /\ replies' = <<>> /\ refused' = FALSE
    /\ UNCHANGED <<user, backoff, timers, editVars, missed, outbox, disk>>

\* The connection breaks; the last one of the bound does not.
Drop ==
    /\ conn # 0 /\ nextConn <= MaxConn
    /\ OnDisconnected
    /\ UNCHANGED <<nextConn, queue, serverVars, composer, discarded>>

\* What the lost connection had not delivered may never arrive.
Lose(c) ==
    /\ c # conn /\ queue[c] # <<>>
    /\ queue' = [queue EXCEPT ![c] = <<>>]
    /\ UNCHANGED <<clientVars, replies, nextConn, serverVars, historyVars>>

\* The client is killed: memory is lost, the LocalStore is not.
ClientCrash ==
    /\ user # NoUser /\ nextConn <= MaxConn
    /\ user' = NoUser /\ authed' = FALSE /\ conn' = 0
    /\ fetching' = FALSE
    /\ backoff' = FALSE /\ timers' = [t \in TimerKinds |-> 0]
    /\ edit' = FALSE /\ missed' = FALSE
    /\ outbox' = <<>> /\ sending' = {} /\ replies' = <<>> /\ refused' = FALSE
    /\ UNCHANGED <<edits, disk, nextConn, queue, serverVars, composer, discarded>>

-----------------------------------------------------------------------------
(***************************************************************************)
(* Replies and timers.                                                     *)
(***************************************************************************)

Arrives(kind, code) ==
    /\ conn # 0 /\ replies # <<>>
    /\ Head(replies).kind = kind /\ Head(replies).code = code
    /\ UNCHANGED <<nextConn, serverVars, composer>>

Receive(kind, code) == Arrives(kind, code) /\ replies' = Tail(replies)

\* The client remembers the id of the last key request and of the last edit
\* request: no other one is under way when its answer comes.
Latest ==
    Head(replies).kind \notin {r.kind : r \in Range(Tail(replies)) \cup Range(queue[conn])}

ReceiveLatest(kind, code) == Receive(kind, code) /\ Latest

\* Removes messages from the outbox, in memory and on disk.
Settle(S) ==
    /\ outbox' = Without(outbox, S)
    /\ disk' = [disk EXCEPT ![user] = @ \ S]

\* A message the server has in the event stream needs no acknowledgement.
IngestSyncEvents ==
    /\ Receive("sync", "ok")
    /\ Settle(Head(replies).keys)
    /\ UNCHANGED <<user, authed, conn, fetchVars, sending, queue, discarded,
                   refused>>

\* An earlier request of this kind is not matched any more.
AnswerIgnored ==
    /\ \E kind \in {"fetch", "edit"}, code \in {"ok", "failed"} : Receive(kind, code)
    /\ ~Latest
    /\ UNCHANGED <<user, authed, conn, fetchVars, outbox, sending, disk, queue,
                   discarded, refused>>

\* The bundle serves the first message that is not in flight.
HandleFetchKeysResponse ==
    LET idle == Without(outbox, sending) IN
    /\ ReceiveLatest("fetch", "ok") /\ ~edit
    /\ backoff' = FALSE
    /\ UNCHANGED <<user, authed, conn, timers, editVars>>
    /\ IF idle = <<>>
       THEN /\ UNCHANGED <<outbox, disk, sending, discarded>>
            /\ FlushOutbox(<<>>, FALSE)
       ELSE \/ /\ sending' = sending \cup {Head(idle)}
               /\ UNCHANGED <<outbox, disk, discarded>>
               /\ FlushOutbox(<<Request("send", Head(idle))>>, FALSE)
            \/ /\ Settle({Head(idle)})     \* encryption fails
               /\ discarded' = discarded \cup {Head(idle)}
               /\ UNCHANGED sending
               /\ FlushOutbox(<<>>, FALSE)
    /\ UNCHANGED refused

\* An edit that is not answered yet takes the bundle, and the outbox is not
\* flushed.
BundleServesEdit ==
    /\ ReceiveLatest("fetch", "ok") /\ edit
    /\ fetching' = FALSE /\ backoff' = FALSE
    /\ \/ /\ queue' = [queue EXCEPT ![conn] = Append(@, Request("edit", 0))]
          /\ UNCHANGED edit
       \/ edit' = FALSE /\ UNCHANGED queue   \* encryption fails
    /\ missed' = Unserved
    /\ UNCHANGED <<user, authed, conn, timers, edits, outbox, sending, disk, discarded,
                   refused>>

\* The recipient has no keys yet, or the request was refused: back off.
FetchFailed ==
    /\ ReceiveLatest("fetch", "failed") /\ ~edit
    /\ backoff' = TRUE
    /\ timers' = [timers EXCEPT !["fetch"] = IF @ < MaxTimer THEN @ + 1 ELSE @]
    /\ UNCHANGED <<user, authed, conn, editVars, outbox, sending, disk, discarded,
                   refused>>
    /\ FlushOutbox(<<>>, FALSE)

\* The edit is given up, whoever asked for the bundle: no timer and no flush.
EditFetchFailed ==
    /\ ReceiveLatest("fetch", "failed") /\ edit
    /\ fetching' = FALSE /\ edit' = FALSE
    /\ missed' = Unserved
    /\ UNCHANGED <<user, authed, conn, backoff, timers, edits, outbox, sending, disk,
                   queue, discarded, refused>>

\* handleEditMessageResponse(): done or failed, the edit is over.
HandleEditMessageResponse ==
    /\ \E code \in {"ok", "failed"} : ReceiveLatest("edit", code)
    /\ edit' = FALSE
    /\ UNCHANGED <<user, authed, conn, fetching, backoff, timers, edits, missed, outbox,
                   sending, disk, queue, discarded, refused>>

\* Faulty variant: every answer removes the message from the outbox.
HandleSendMessageResponseAlways ==
    LET i == Head(replies).item IN
    /\ \E code \in {"ok", "failed"} : Receive("send", code)
    /\ sending' = sending \ {i}
    /\ Settle({i})
    /\ UNCHANGED <<user, authed, conn, fetchVars, queue, discarded, refused>>

\* Faulty variant: a message that was refused is never tried again.
HandleSendMessageResponseOnce ==
    LET i == Head(replies).item IN
    /\ \/ /\ Receive("send", "ok")
          /\ sending' = sending \ {i}
          /\ Settle({i})
       \/ /\ Receive("send", "failed")
          /\ UNCHANGED <<sending, outbox, disk>>
    /\ UNCHANGED <<user, authed, conn, fetchVars, queue, discarded, refused>>

HandleSendMessageResponse ==
    LET i == Head(replies).item IN
    /\ \/ /\ Receive("send", "ok")
          /\ Settle({i})
          /\ UNCHANGED timers
       \/ /\ Receive("send", "failed")
          /\ timers' = [timers EXCEPT !["send"] = 1]
          /\ UNCHANGED <<outbox, disk>>
    /\ sending' = sending \ {i}
    /\ UNCHANGED <<user, authed, conn, fetching, backoff, editVars, missed, queue,
                   discarded, refused>>

\* handleErrorResponse(): the session is over, and the client disconnects;
\* what else was on the way is lost.
SessionInvalid ==
    /\ \E kind \in Kinds : Arrives(kind, "invalid")
    /\ ResetAuthState
    /\ conn' = 0 /\ sending' = {} /\ replies' = <<>> /\ refused' = FALSE
    /\ UNCHANGED queue

\* handleErrorResponse(): any other error frees the slot of the last key request;
\* a message in flight stays in flight, an edit stays unanswered, and nothing is
\* tried again.
RequestRefused ==
    /\ \E kind \in Kinds : Receive(kind, "refused")
    /\ fetching' = (fetching /\ ~(Head(replies).kind = "fetch" /\ Latest))
    /\ UNCHANGED <<user, authed, conn, backoff, timers, editVars, missed, outbox, sending,
                   disk, queue, discarded, refused>>

BackoffEnds ==
    /\ backoff
    /\ backoff' = FALSE
    /\ UNCHANGED <<user, authed, conn, fetching, timers, editVars, missed, outbox, sending,
                   disk, replies, nextConn, queue, serverVars, historyVars>>

\* A timer is coarse, and the back-off is compared in whole seconds: the timer may
\* fire before the back-off has ended, and is not started again.
TimerFires(t) ==
    /\ timers[t] > 0
    /\ timers' = [timers EXCEPT ![t] = @ - 1]
    /\ UNCHANGED <<user, authed, conn, backoff, editVars, outbox, sending, disk>>
    /\ IF authed
       THEN FlushOutbox(<<>>, fetching)
       ELSE UNCHANGED <<queue, fetching, missed>>
    /\ UNCHANGED <<replies, nextConn, serverVars, historyVars>>

-----------------------------------------------------------------------------
(***************************************************************************)
(* Handler threads: requests of a connection in order, a send request in   *)
(* three steps that interleave with those of other connections.            *)
(***************************************************************************)

Answer(c, kind, code, i, keys) ==
    replies' = IF c = conn THEN Append(replies, Reply(kind, code, i, keys))
                           ELSE replies

Serve(c, kind) ==
    /\ op[c] = Idle
    /\ queue[c] # <<>> /\ Head(queue[c]).kind = kind
    /\ queue' = [queue EXCEPT ![c] = Tail(@)]
    /\ UNCHANGED <<clientVars, nextConn, rows>>

Valid(c, kind) ==
    /\ Serve(c, kind) /\ account[c] # NoUser
    /\ UNCHANGED historyVars

\* validateSession() fails.
NotAuthenticated(c) ==
    /\ account[c] = NoUser
    /\ \E kind \in Kinds : Serve(c, kind) /\ Answer(c, kind, "invalid", 0, {})
    /\ UNCHANGED <<account, op, announced, historyVars>>

\* checkReplayProtection() fails.
GuardRefuses(c) ==
    /\ \E kind \in Kinds : Serve(c, kind) /\ Answer(c, kind, "refused", 0, {})
    /\ refused' = (refused \/ c = conn)
    /\ UNCHANGED <<account, op, announced, composer, discarded>>

ProcessSyncEvents(c) ==
    /\ Valid(c, "sync")
    /\ Answer(c, "sync", "ok", 0,
              {rows[m].key : m \in {n \in announced : rows[n].sender = account[c]}})
    /\ UNCHANGED <<account, op, announced>>

ProcessFetchKeys(c, code) ==
    /\ Valid(c, "fetch")
    /\ Answer(c, "fetch", code, 0, {})
    /\ UNCHANGED <<account, op, announced>>

\* processEditMessageRequest(): the edited message is none of these.
ProcessEditMessage(c, code) ==
    /\ Valid(c, "edit")
    /\ Answer(c, "edit", code, 0, {})
    /\ UNCHANGED <<account, op, announced>>

Stored(a, i) == {m \in DOMAIN rows : rows[m] = [sender |-> a, key |-> i]}

\* The rate limit is hit, or a claimed key has been taken back meanwhile.
SendRefused(c) ==
    /\ Valid(c, "send")
    /\ Answer(c, "send", "failed", Head(queue[c]).item, {})
    /\ UNCHANGED <<account, op, announced>>

\* Faulty variant: the events are written before the message.
SendCheckAnnounces(c) ==
    /\ Valid(c, "send")
    /\ announced' = announced \cup {Len(rows) + 1}
    /\ op' = [op EXCEPT ![c] = [step |-> "insert", item |-> Head(queue[c]).item,
                                sender |-> account[c], row |-> 0]]
    /\ UNCHANGED <<account, replies>>

\* Faulty variant: the request is acknowledged before it is processed.
SendCheckEarlyAck(c) ==
    /\ Valid(c, "send")
    /\ Answer(c, "send", "ok", Head(queue[c]).item, {})
    /\ op' = [op EXCEPT ![c] = [step |-> "insert", item |-> Head(queue[c]).item,
                                sender |-> account[c], row |-> 0]]
    /\ UNCHANGED <<account, announced>>

\* A message with this key is there already: it is acknowledged at once.
SendCheck(c) ==
    LET i == Head(queue[c]).item IN
    /\ Valid(c, "send")
    /\ IF Stored(account[c], i) # {}
       THEN Answer(c, "send", "ok", i, {}) /\ UNCHANGED op
       ELSE /\ op' = [op EXCEPT ![c] = [step |-> "insert", item |-> i,
                                        sender |-> account[c], row |-> 0]]
            /\ UNCHANGED replies
    /\ UNCHANGED <<account, announced>>

\* Faulty variant: the idempotency key is looked up before the transaction only.
SendInsertUnchecked(c) ==
    /\ op[c].step = "insert"
    /\ rows' = Append(rows, [sender |-> op[c].sender, key |-> op[c].item])
    /\ op' = [op EXCEPT ![c].step = "announce", ![c].row = Len(rows) + 1]
    /\ UNCHANGED <<clientVars, replies, nextConn, queue, account, announced,
                   historyVars>>

\* DatabaseManager::sendMessage() in its transaction: an existing row with the
\* key is taken for the new one.
SendInsert(c) ==
    LET old == Stored(op[c].sender, op[c].item) IN
    /\ op[c].step = "insert"
    /\ IF old = {}
       THEN rows' = Append(rows, [sender |-> op[c].sender, key |-> op[c].item])
       ELSE UNCHANGED rows
    /\ \E m \in IF old = {} THEN {Len(rows) + 1} ELSE old :
          op' = [op EXCEPT ![c].step = "announce", ![c].row = m]
    /\ UNCHANGED <<clientVars, replies, nextConn, queue, account, announced,
                   historyVars>>

SendFails(c) ==
    /\ op[c].step = "insert"
    /\ op' = [op EXCEPT ![c] = Idle]
    /\ Answer(c, "send", "failed", op[c].item, {})
    /\ UNCHANGED <<clientVars, nextConn, queue, account, rows, announced,
                   historyVars>>

\* appendSyncEvent() for both users, the push, and the acknowledgement.
SendAnnounce(c) ==
    /\ op[c].step = "announce"
    /\ announced' = announced \cup {op[c].row}
    /\ op' = [op EXCEPT ![c] = Idle]
    /\ Answer(c, "send", "ok", op[c].item, {})
    /\ UNCHANGED <<clientVars, nextConn, queue, account, rows, historyVars>>

\* The session is terminated from elsewhere or expires.
SessionEnds(c) ==
    /\ account[c] # NoUser
    /\ account' = [account EXCEPT ![c] = NoUser]
    /\ UNCHANGED <<clientVars, replies, nextConn, queue, op, rows, announced,
                   historyVars>>

\* The server process dies and starts again.
ServerCrash ==
    /\ conn # 0 /\ nextConn <= MaxConn
    /\ OnDisconnected
    /\ queue' = [c \in Conns |-> <<>>]
    /\ op' = [c \in Conns |-> Idle]
    /\ account' = [c \in Conns |-> NoUser]
    /\ UNCHANGED <<nextConn, rows, announced, composer, discarded>>

-----------------------------------------------------------------------------
ClientReceive ==
    \/ IngestSyncEvents
    \/ HandleFetchKeysResponse \/ BundleServesEdit \/ FetchFailed \/ EditFetchFailed
    \/ HandleEditMessageResponse \/ AnswerIgnored
    \/ HandleSendMessageResponse
    \/ SessionInvalid \/ RequestRefused

Refusal(c) ==
    \/ GuardRefuses(c) \/ SendRefused(c) \/ SendFails(c)
    \/ ProcessFetchKeys(c, "failed") \/ ProcessEditMessage(c, "failed")

Granted(c) ==
    \/ NotAuthenticated(c) \/ ProcessSyncEvents(c)
    \/ ProcessFetchKeys(c, "ok") \/ ProcessEditMessage(c, "ok")
    \/ SendCheck(c) \/ SendInsert(c) \/ SendAnnounce(c)

Next ==
    \/ \E i \in Items : Compose(i)
    \/ EditMessage
    \/ \E a \in Accounts : Login(a)
    \/ Logout \/ Drop \/ ClientCrash \/ ServerCrash
    \/ ClientReceive
    \/ BackoffEnds \/ \E t \in TimerKinds : TimerFires(t)
    \/ \E c \in Conns : Lose(c) \/ Refusal(c) \/ Granted(c) \/ SessionEnds(c)

Spec == Init /\ [][Next]_vars

(***************************************************************************)
(* The client's event loop and the thread that serves its connection keep  *)
(* running, a client that has lost its connection logs in again, and the   *)
(* server refuses what it keeps being asked only finitely often in a row.  *)
(***************************************************************************)
Fairness ==
    /\ WF_vars(ClientReceive)
    /\ WF_vars(BackoffEnds)
    /\ \A t \in TimerKinds : WF_vars(TimerFires(t))
    /\ \A a \in Accounts : WF_vars(user = a /\ Login(a))
    /\ WF_vars(conn # 0 /\ (Refusal(conn) \/ Granted(conn)))
    /\ SF_vars(conn # 0 /\ ProcessFetchKeys(conn, "ok"))
    /\ SF_vars(conn # 0 /\ SendCheck(conn))
    /\ SF_vars(conn # 0 /\ SendInsert(conn))

FairSpec == Spec /\ Fairness

-----------------------------------------------------------------------------
(***************************************************************************)
(* Properties that hold.                                                   *)
(***************************************************************************)

\* docs/PROTOCOL.md, docs/SECURITY.md: repeating a send, after a lost answer, a
\* lost connection or a crash, and also while the first request is still being
\* processed by the handler of the lost connection, does not store the message
\* a second time.
StoredOnce ==
    \A m, n \in DOMAIN rows : rows[m] = rows[n] => m = n

\* A message leaves the client's disk only when the server has it, unless it
\* was given up: no crash or lost connection makes it disappear.
NothingLost ==
    \A i \in Composed \ discarded :
        i \in disk[composer[i]] \/ Stored(composer[i], i) # {}

\* A message that flushOutbox() skips as being in flight really is: its request,
\* the handler that works on it or the answer still exists on this connection,
\* unless the session has ended or the replay guard refused a request.
InFlightIsReal ==
    \A i \in sending :
        /\ conn # 0
        /\ \/ refused \/ account[conn] = NoUser
           \/ Request("send", i) \in Range(queue[conn])
           \/ op[conn].item = i
           \/ \E r \in Range(replies) : r.kind = "send" /\ r.item = i

\* What is in the outbox of a user who stays logged in is stored in the end, as
\* long as the server does not refuse for ever what it keeps being asked.  Two
\* exceptions: a request that the replay guard refused (clocks that differ by more
\* than 300 seconds), which nothing repeats while the connection lasts; and a flush
\* that was missed, because the timer fired within its back-off or because an edit
\* took the bundle or the failure: then the message waits for the user's next one,
\* or for the next login.
Delivered ==
    \A i \in Items :
        i \in Range(outbox) ~> \/ \E a \in Accounts : Stored(a, i) # {}
                               \/ i \in discarded
                               \/ missed \/ refused \/ user = NoUser

Held == {i \in Composed : i \in disk[composer[i]]}
Log == [m \in DOMAIN rows |-> rows[m].key]

Abstract == INSTANCE ReliableSend WITH composed <- Composed, held <- Held,
                                       given <- discarded, log <- Log

\* The outbox and the server together implement ReliableSend.
ImplementsReliableSend == Abstract!Spec

-----------------------------------------------------------------------------
(***************************************************************************)
(* What the documents promise and the code does not keep.                  *)
(***************************************************************************)

\* NetworkManager::resetAuthState(): logging out clears the user's messages,
\* conversations and outbox.  So no message is stored as another account's.
SentByComposer ==
    \A m \in DOMAIN rows : rows[m].sender = composer[rows[m].key]
=============================================================================
