# TLA+ models of XLChat

XLChat is a Qt chat system: a server (`Chat-Server/`) with one thread per
connection and a SQLite database, a client (`Chat-Client/`) with a QML user
interface, and shared code for packets and cryptography (`CommonModule/`).  This
directory holds TLA+ models of its protocol logic, configurations that check
them with TLC, and proofs checked by TLAPS.

Paths below are relative to the repository's root; `RH` stands for
`Chat-Server/core/RequestHandler.cpp`, `DB` for
`Chat-Server/database/DatabaseManager.cpp`, `NM` for
`Chat-Client/core/NetworkManager.cpp`, `LS` for
`Chat-Client/core/LocalStore.cpp`.

Contents: [1 The system](#1-the-system) · [2 Modules](#2-modules) ·
[3 Runs](#3-runs) · [4 Fairness](#4-fairness) · [5 Proofs](#5-proofs) ·
[6 What the checks found](#6-what-the-checks-found) ·
[7 Not modelled](#7-not-modelled) · [8 Plan](#8-plan)

## 1 The system

### 1.1 Threads and how they talk

* **Server main thread** (`Chat-Server/core/Server.cpp`): accepts connections
  and keeps the routing maps `m_onlineSessions` (account -> session ids),
  `m_sessionHandlers` (session id -> handler) and `m_handlerUsers`.  It is
  driven by queued signals of the handlers, which arrive in one event queue.
* **Handler threads** (`RH`): one `QThread` per connection with its own event
  loop and its own database connection.  A request runs to completion on its
  thread, but its SQL statements and its emits interleave with those of all
  other handlers.  Few requests are transactions.
* **Client thread** (`NM`): one thread; user-interface calls, socket signals,
  timers and replies are events.  Requests are written without waiting for
  earlier answers.
* **Between them**: a TLS connection, in order, that can break at any time.
  The server goes on with what it has received of a lost connection.
* **Persistent state**: the server's database (sessions, messages,
  `sync_events`, prekeys, groups), the client's `LocalStore` (outbox, message
  cache, cursors) and `KeyStorage` (keys).

### 1.2 Components

| Component | State | Operations | Hard behaviour | What makes it correct |
|---|---|---|---|---|
| Session routing (`Server.cpp`, `RH`) | sessions table, `m_authenticatedUserId`, `m_currentSessionId`, routing maps, event queue | accept, login, logout, token_renew, terminate_session, disconnect, push; the main thread's slots | signals of several handlers in one queue; read-delete-insert without transaction; renewal unknown to the maps | a route belongs to its account; a valid session is reachable; a terminated one is out and disconnected |
| Client session (`NM`) | `m_state`, token, pending request ids, timers | login, logout, renewal with watchdog and retry, reconnection, expiry | pipelined requests, late and repeated answers, breaks | client and server hold the same token; renewal never forgotten; an ended session stays ended; logins are tried |
| Outbox and idempotent send (`NM`, `LocalStore`, `RH`, `DB`) | `m_outbox`, its table, requests in flight, fetch slot, waiting edit, back-off, timers, messages table, `sync_events` | compose, edit, flush, fetch keys, send, acknowledge, merge after restart | crash anywhere, a repetition next to the original, refusals, an edit in the same slot, a timer within its back-off, account switch | stored once, never lost, sent in the end, as its author's |
| Group membership (`RH`, `DB`) | groups, roles, requests in progress | create, invite, leave with hand-over, kick, notices | no transactions across statements; several devices per user | an owner, the limit, announcements |
| Prekeys and key bundles (`RH`, `DB`, `NM`) | identity key row, prekeys with their state, bundles handed out, stored contents | register (purge, upsert, upload), claim, reclaim after 600 s, check, consume | a claim handed out again, a new identity in the middle of another user's request, contents that are not checked, statements whose failure is only logged | one content per prekey; prekey and identity belong together |
| Event stream (`RH`, `DB`, `NM`) | `sync_events`, watermark, client cursor | append, page, prune, full resynchronisation | prune between two reads; crash between delete and watermark; pushes next to pages | no gap goes unnoticed; what arrives twice or late does no harm |
| Edits and deletions (`NM`, `LS`, `RH`, `DB`) | message row, events, pending edit, local row, decryption cache, one-time prekeys | edit, delete, open conversation, read stream, take push | push overtakes stream, lost answer, two devices' edits, envelopes readable once | devices show what the row holds; what is shown and what is cached agree; a deletion stays |
| Receipts and read position (`RH`, `DB`, `NM`) | receipts per device, `messages.status`, read position, the sender's view | acknowledge (record, move the position, count, write, push, append), join, leave, reconnect | several statements per acknowledgement, counts of different moments, push and event out of step | the status is earned, settles, reaches the sender; what was read is not unread |
| Sender keys of a group (`NM`, `LS`, `GroupE2eeCrypto`) | key in memory, rows, request slot, heal queue; a reader's chain and skipped keys | make, save, distribute, replace, encrypt; install, open ahead, open skipped | membership changes during a distribution, the device's own copies coming back, numbers in any order, unwritten rows | the key fits the members; no iteration encrypts twice; order costs nothing |
| Request gate (`NonceCache`, `RequestHandler::checkReplayProtection`) | nonces with their times | check the timestamp, check and insert, purge, evict | two readings of the clock, copies on several connections, a full cache, restart | a request passes once |
| Private conversations (`DB`) | conversations | get-or-create | query-then-insert | (no promise; in `Prekeys`) |
| Registration, search, profile; database set-up; framing; key storage; cryptography; user interface | | | mostly sequential or pure | |

`PROJECT.json` lists the components with their files and their status, and the
hazards of the code line by line, each with the properties that watch it or the
reason why none does yet.

## 2 Modules

Names of variables and actions follow the code.  Actions called *faulty
variant* are not part of any specification: they state what the code would do
with a plausible bug in it, and each property is known to reject at least one
of them.

### 2.1 `SessionRouting` (with `MCSessionRouting`, `SessionRoutingProofs`)

Each connection has a handler: `phase` is the life of its thread, `auth`,
`cur` and `dev` are its members, `op` says where a request with more than one
interleaving point stands.  `row` is the sessions table; a deleted row keeps
its columns, which nothing in the code reads, so that properties can ask whose
it was.  `inbox` is the main thread's event queue, `online`, `handlerOf` and
`userOf` its three maps.  `key` and `terminated` are history variables.

| Code | Actions |
|---|---|
| `RequestHandler::run` | `Accept`, `InitFails`, `PeerLeaves`, `Kicked` |
| `processLoginRequest` | `LoginCreate` (row inserted), `LoginFinish` (members set, `userLoggedIn`) |
| `processLogoutRequest` | `Logout` |
| `processTokenRenewRequest` | `RenewCheck`, `RenewDelete`, `RenewCreate` / `RenewFails` |
| `processTerminateSessionRequest` | `TerminateResolve`, `TerminateDelete`, `TerminateLogout`, `TerminateKick` |
| every handler that pushes | `Push` |
| `Server` slots | `OnUserLoggedIn`, `OnUserLoggedOut`, `OnSessionTerminated`, `OnMessageForUser`, `OnHandlerFinished` |

`finished` is a signal that `RequestHandler` declares itself; it hides
`QThread::finished`, and only the failed set-up emits it.  A handler that ends
normally is therefore never taken out of `m_handlerUsers` nor deleted: the
model's `Leave` emits `out` and nothing else.

Requests with no effect on this state (a refused login, a wrong token) are not
actions.

### 2.2 `ClientSession` (with `ClientSessionProofs`)

One client and its current connection.  `requests` and `replies` are the two
directions of the connection; a break empties both, and `session` is what the
connection's handler holds on the server.  Tokens and request ids are numbers
that are used again when nothing refers to them any more: the program's are
never equal, and the model needs no bound on how often a client renews or
reconnects.  `sock` follows the Qt socket: the TCP signal `connected` comes
before the TLS handshake is over, `disconnectFromHost()` leaves a socket that
is still `closing` while buffered replies are read.

`NotifySessionExpired`, `ResetAuthState`, `ConnectToServer`,
`SendLoginRequest` are operators used by the handlers that call the functions
of the same name.  `ProcessTokenRenew` is one step here: what other
connections can do between its statements is in `SessionRouting`, and its
outcome for this client (`ok`, `failed`, `invalid`) is kept.

### 2.3 `Outbox` and `ReliableSend` (with `MCOutbox`, `OutboxProofs`)

Private messages from one device to one recipient.  A message is a number in
the order of composition, which stands for its `clientMessageId`.  The client
keeps it in `outbox` and on `disk`, fetches a key bundle per message (one
fetch at a time), sends it, and lets go of it when it is acknowledged or seen
among its own messages in the event stream.  `FlushOutbox` is the end of every
client handler that calls `flushOutbox()`.  On the server a send request is
`SendCheck` (look-up by key), `SendInsert` (the transaction, which looks again),
`SendAnnounce` (events, push, answer); those of the lost connection and of the
new one interleave, the server may die between any two, and the rows survive.

The user may also edit a message that the recipient got before.  What an edit
does to the message is the subject of `MessageEdits`; here it matters because it
uses the one slot for key requests (`m_pendingFetchKeysRequestId`) without
waiting for it.

| Code | Action |
|---|---|
| `editMessage` (`NM:2962-2996`) | `EditMessage`: a key request of its own; the answer to one already on the way will not be matched (`AnswerIgnored`) |
| `handleFetchKeysResponse`, a bundle while an edit waits (`NM:1208-1221`) | `BundleServesEdit`: the edit takes it, whoever asked, and the outbox is not flushed |
| the same, a failure while an edit waits (`NM:1163-1169`) | `EditFetchFailed`: no back-off, no timer, no flush |
| the same, without an edit | `HandleFetchKeysResponse`, `FetchFailed` |
| `handleEditMessageResponse` | `HandleEditMessageResponse` |
| the two `QTimer::singleShot` calls (`NM:1186-1193`, `NM:2250-2258`) | `TimerFires` |

`timers` counts the timers that are running, of each kind.  They are not tied to
`backoff`: a timer may fire before the back-off has ended, and is not started
again.  A handler that leaves a message waiting with no timer running, no key
request on the way and the slot free has *missed* the flush, and `missed` stays
until a later one comes through.

`ReliableSend` says what client and server promise together, in terms of the
messages composed, held by the client, given up, and logged by the server.
`Outbox` implements it under a refinement mapping that is defined at its end:
a message is *held* while it is on its author's disk.

A login is one step here, since `ClientSession` is about how it comes about.
A `SessionInvalid` answer ends the connection in the same step, with what else
was on the way on it.

`Without` (`m_outbox` after some of it is taken out) and `InOrder` (the stored
messages in the order of composition) are written as functions, which the proofs
can reason about; `MCOutbox` has TLC compare them with `SelectSeq` and
`SetToSortSeq` on small arguments.

### 2.4 `GroupMembership` (with `MCGroupMembership`, `GroupMembershipProofs`)

One group; `role` is the member table.  Each request is split at its SQL
statements: `Invite` then `InviteCount`/`InviteInsert` per user, `Leave` then
`LeaveSuccessor`, `LeaveTransfer`, `RemoveMember`, `Kick` then `KickMyRole`,
`KickTargetRole`, `RemoveMember`, and after each change `PostSystemMessage`
and `NotifyChanged`, which read the members anew.  Every statement may fail
where the code has a path for that.  `owed` records who has still to be told of
a change, `mishaps` what went wrong on the way, so that a property can say
under which circumstances it holds.

### 2.5 `MessageEdits` (with `MessageEditsProofs`)

One private message from the moment it is stored: its row, the log
`sync_events` of both users, and what each device of the two users keeps.  A
device that edits fetches the peer's keys, makes an envelope and submits it;
the handler writes the row (`HandleEdit`) and then, member by member, the log
and the pushes (`Announce`); the answer follows the last one.  `HandleSync` and
`ReadEvents` are the two reads of a page, `PruneDelete` and `PruneMark` the two
statements of the hourly cleaning.

On the device, `store` is the row of `LocalStore.messages`, `cache` the
decryption cache, `used` the envelopes whose one-time key is gone, `edit` the
text waiting in `m_pendingEditContent`.  `TakeMessage`, `TakeEdit` and
`TakeDelete` say what an envelope or a deletion does to them wherever it comes
from.  A page is a set of places in the log, and `TakePage` takes what is at them
one after the other.  `slips` records what crossed or was lost around a device's
changes, so that a property can name the circumstances under which it holds.

Approximations: the handler's read of the row and the `UPDATE` are one step
(the `UPDATE` alone decides); asking for keys and their answer are one step; a
push to the device that made the change is left out, since it ignores it; a
device comes back only after the handler of its lost connection has finished;
the decryption cache in memory and the one on disk are one, so that the empty
text the former holds after a deleted message was opened is missing; pushes and
answers of a connection may pass each other in both directions.  Receipts, the
edited-at mark, the read cursor that `sync_messages` moves and edits of group
messages are not in this module.

### 2.6 `Receipts` (with `ReceiptsProofs`)

All messages of one sender in one conversation.  `ack_message` is split at its
SQL statements: `AckStart` (the row and the membership), `AckRecord`,
`AckCursor`, the three counts (`AckExpected`, `AckReads`, `AckAggregate`),
`AckUpdate`, `AckPush`, `AckAppend`; every device of every recipient has a
handler, and members leave and join in between (`MemberMoves`).  The sender's
client takes pushes (`StatusDelivered`) as long as its connection has a route,
and reads the events from where it has got to (`SenderSyncs`) after it came
back; both write the local row, whatever it holds.  `RouteEvent` is
`userLoggedIn` in the same queue as the pushes, since a push that is ahead of
it finds no route; the pushes that are queued when the connection breaks are lost.
`EventDue` says that the events after the sender's position still bring the
status.  `crossed` (*acks*, *sync*, *push*) and `moves` are history: under which
circumstances a status may be off.

Left out: `read_cursor` events for the reader's own devices and the badge they
lower; failing statements.  A message is stored before the module begins.

### 2.7 `Prekeys` (with `ServerProofs`)

The prekeys of one device.  `register_keys` is `RegisterPurge`,
`RegisterUpsert`, `RegisterUpload` on the device's own handler; a bundle is
`Claim` (one transaction, which first takes back what was claimed more than 600
seconds ago: `Reclaimed`) and `BundleIdentity` on the handler of another user.
What was encrypted with the bundle comes back as a message (`SendCheck`,
`FindConversation`, `CreateConversation`, `StoreMessage`), as an edit
(`StoreEdit`) or as a distribution (`StoreDistribution`,
`ConsumeDistribution`).  Time is only that a claim may get old
(`ClaimGetsOld`).  `contents` keeps with each content the prekey and the
identity keys it was made with, so that properties can compare them.

Every statement may fail, with what the code makes of it.  `upsertIdentityKey()`
goes on when the purge fails, or the query before it (`DB:1771-1783`):
`RegisterPurge` has this outcome, and `kept` remembers the prekeys it left beside
a new identity key.  When the identity key or the prekeys cannot be written the
request ends there (`RegisterFails`); when the conversation or the message cannot,
the bundle is lost (`BundleDropped`).  The result of `consumePrekeys()` is not looked at,
so a message may be stored without its prekey being consumed: because
the update failed, or because the claim had lapsed since the check.  `unconsumed`
remembers these prekeys, `raced` those two messages passed the check with.  A
reclaim that fails is the same as a claim that is not old yet.

### 2.8 `RequestGate` (with `ServerProofs`)

One clock, requests with a timestamp of a client whose clock may be off, and
copies of them on any connection at any time.  `CheckTimestamp` and
`CheckAndInsert` are the two halves of `checkReplayProtection()`: the second
takes the mutex of the cache and reads the clock again.  `Purged` and `Evicted`
are what `checkAndInsert()` removes when the cache is half full and when it is
full.  `GateRestart` empties the cache.

### 2.9 `SenderKeys` (with `SenderKeyProofs`)

The device that sends: `device` is its memory, its rows of `sender_keys` and
its requests on the way, and operators that return the devices a function of
`NetworkManager` may leave behind (`HealGroupSenderKey`, `DrainHealQueue`,
`FlushGroup`, `EncryptGroupMessage`, `BuildDistribution`, `SaveSenderKey`) are
composed by the handlers, as in the code.  One key request at a time, for
whichever group, so the account's other groups are a group "other" that
occupies the slot.  The server lists the members of the moment
(`FetchGroupKeysRequest`), or refuses; the distribution is stored or lost
(`SendDistributionRequest`); afterwards the device may get its own distribution
and messages back by synchronisation (`OwnDistribution`, `OwnMessage`), which
overwrites its row.  `listed`, `missed`, `device.sealed` and `device.unsaved`
are history.

### 2.10 `SenderRatchet` (with `SenderKeyProofs`)

The device that reads, for one key.  Numbers arrive in any order and
repeatedly; `OpenAhead` moves the chain and keeps the message keys it goes
over, `OpenSkipped` uses one of them, `Refuse` is a number that is neither.
`Save` is the end of `decryptGroupMessageObject`: content, chain and skipped
keys are three writes that fail independently.  The message keys themselves are
cryptography; which numbers have one is what the model keeps.

### 2.11 How they fit together

`SessionRouting` is the server under all sessions; `ClientSession` is one
client against one of its handlers; `Outbox` runs on a session that
`ClientSession` has brought about (its `Login`, `Drop`, `SessionEnds` and
`SessionInvalid` are the outcomes of that module); `GroupMembership` uses
authenticated handlers; `MessageEdits` starts where `Outbox` ends, with a
message stored and announced, and its devices come and go like those of
`ClientSession`; `Receipts` starts there too.  `Prekeys` is the server's side of
the key requests that `Outbox`, `MessageEdits` and `SenderKeys` make and that
they take as answered or refused.  The changes and notices of `GroupMembership`
are `MembershipChange` and `GroupChanged` of `SenderKeys`, whose keys a
`SenderRatchet` receives.  `RequestGate` is in front of every handler and
appears in the others as a refusal.

They are separate state machines because each has an interleaving of its own
and the product would be out of reach.  `MCServer` and `MCGroups` each put
several of them, which share no variable, into one run: a behaviour is one of
one part (`part`), so the states of the parts add up instead of multiplying.
Two lemmas about the shape of these compositions (`PartsBehave`,
`GroupPartsBehave`) carry what is proved of a part over to the run.

## 3 Runs

All with `CHECK_DEADLOCK FALSE` except those of `ClientSession`: connections,
messages, and requests are used up in the others, so the system of the model
really stops.

| Run | Instance | Properties | Shows |
|---|---|---|---|
| `session_routing` (`MCServer`) | routing: 2 accounts, 1 device, 2 connections, 2 session rows; receipts: 2 recipients with 2 devices, 2 messages, 2 acknowledgements, 2 reconnections or 1 with a membership change; prekeys: 2 senders, 2 prekeys, 2 identities, 3 bundles; gate: 2 nonces, 2 handlers, 6 units of time | `PartsTypeOK`, `RoutesBelongToOwner`, `NoSharedSession`, `LiveReachable`, `StatusEarned`, `StatusSettles`, `ReadIsNotUnread`, `OneTimeUse`, `NoMixedBundle`, `PassesOnce` | every interleaving of the handlers' statements and the main thread, part by part |
| `session_routing_live` | 1 account, 2 connections, 2 rows | `LoginRouted`, `LeaverUnrouted` | signals take effect |
| `session_terminated` | as above | `TerminatedIsDisconnected` | **violated**, see 6.1 |
| `session_renew_race` | 3 rows | `TerminatedStaysOut` | **violated**, see 6.2 |
| `client_session` | 2 packets on the way | `TypeOK`, `TokenAgreement`, `RenewalScheduled`, `ExpiredIsOver`, `LoginSettles`, `LoginIsTried` | any number of breaks, renewals, logins |
| `outbox` | 1 account, 2 messages and edits together, 2 connections, 1 timer of each kind | `TypeOK`, `StoredOnce`, `NothingLost`, `InFlightIsReal`, `ImplementsReliableSend`, `Delivered` | safety, refinement and delivery with crashes, losses, refusals, early timers and edits in the fetch slot |
| `outbox_switch` | 2 accounts, 1 message or edit | `SentByComposer` | **violated**, see 6.4 |
| `group_membership` (`MCGroups`) | membership: 4 users, 2 connections, limit 2, 5 requests; keys: 1 reader, 2 keys, 2 encryptions, 1 change; ratchet: 5 numbers, 3 steps ahead, 2 skipped keys | `PartsTypeOK`, `OwnedUnlessRaced`, `SingleOwner`, `MemberLimit`, `Announced`, `KeyFitsMembers`, `NoIterationTwice`, `OrderCostsNothing` | two requests at a time with crash or failure anywhere; key replacement against losses and repetitions; numbers in any order |
| `message_edits` | 2 devices of the author, 1 of the reader, pages of 3, 2 free actions | `TypeOK`, `EditsArrive`, `OwnEditShown`, `DeletesArrive`, `ReadableAgain`, `GapsAnnounced`, `ShownIsCached`, `DeletedStays` | pushes against pages and answers, lost connections, logouts, pruning, crashes |
| `edits_deletion` | 1 device each, pages of 2 | `DeletionReachesAll` | **violated**, see 6.5 |
| `edits_overtaken` | as above | `EditReachesReaders` | **violated**, see 6.6 |
| `status_forward` | 1 recipient, 1 device, 1 message, 2 acknowledgements, 1 reconnection | `ShownOnlyForward` | **violated**, see 6.3 |

### Bounds and why they are enough

* `session_routing`, routing.  `MaxSession = 2` lets a connection log in and renew, or
  log in twice, or two connections log in and one terminate the other.
  `MaxQueue = 1` only limits pushes; login, logout and termination signals are
  unbounded.  Longer histories are covered by the proofs (section 5), which
  have no bounds.  The renewal race needs a third row, which its run has.
  The two accounts and the two connections are interchangeable in these
  invariants, and so are they in the other parts of the run (recipients and
  their devices, senders, nonces and handlers), hence the symmetry; the liveness
  run has none.
* `session_routing`, receipts.  Two acknowledgements are what can overlap, of
  one message or two, of two devices of one user or of two users; the sender
  comes back twice in the middle of them, so that a second connection can lose
  what the first has overtaken.  `MaxMoves = 1` lets a reader leave or
  join between two counts.  `MaxBreaks = 2` bounds both together: a change of
  members lifts what `StatusSettles` says, so it needs no second reconnection.
  `ReceiptsProofs` has no bounds.
* `session_routing`, prekeys.  Three bundles of two prekeys: one is claimed, gets
  old, is claimed again and so once more; a message is stored without consuming its
  prekey, and the prekey is claimed again; a claim lapses between the check of
  a message and its storing.  (What the prekey of such a lapsed claim is used
  for next would take a fourth bundle; the failed update leads to the same
  state with three.)  Two senders are needed for two messages to pass the check
  together.  `ServerProofs` has no bounds.
* `session_routing`, gate.  `Tolerance = 1` and `Ttl = 2` keep the ratio of the
  code (300 and 600 seconds), so that an entry ends exactly when its timestamp
  does; `MaxEntries = 1` fills the cache with one of two requests.
  `ServerProofs` has no bounds here either.
* `client_session`.  `MaxInFlight = 2`: a renewal and a request behind it, or
  an answer and its repetition.  Numbers are used again, so the length of a
  behaviour is not bounded.  `ClientSessionProofs` is for every `MaxInFlight`.
* `outbox`.  `MaxItem = 2` bounds messages and edits together: two messages, one
  of each, or two edits.  Two messages are enough for one to overtake the other,
  for two to be merged from disk, and for one bundle to serve the second message; a
  message and an edit for the edit to take the message's bundle or failure,
  or to make its key request unmatched.  Two
  connections are enough for a request and its repetition to be processed at once, and
  for a crash and a recovery.  `MaxTimer = 1` merges further key timers with the
  one that runs; with 2 the properties hold as well.  The last connection of the bound does not
  break: the network is assumed to stay up for long enough at some point.  For
  safety and the refinement `OutboxProofs` has no bounds.
* `group_membership`.  A limit of 2 with 4 users lets concurrent invitations
  pass it; 5 requests let a group be made and filled and then have two
  overlapping changes that meet what an earlier one has left.
  `GroupMembershipProofs` has no bounds.
* `group_membership`, keys.  Two keys are an old and a new one; two encryptions
  under one key are what could meet, and `MaxMade = 3` lets both happen after a
  replacement.  `MaxWire = 2` holds a distribution and the next request.  One
  reader is a member or not.  `SenderKeyProofs` has these numbers as parameters.
* `group_membership`, ratchet.  Five numbers with at most three steps ahead and
  two skipped keys: the limits are reached from both sides.
  `SenderKeyProofs` has no bounds here either.
* `message_edits`.  `MaxActs = 2` bounds edits, deletions, openings, breaks,
  logouts, crashes and prunings together; every reaction to them is unbounded.
  Two of them are what each known crossing needs (two edits, an edit and a
  break, an opening and a deletion, a logout and a login), and the reader's own
  login and its first page come on top.  Pages of 3 are filled by two changes
  and the message itself, so that a second page is asked for.  `MaxEnvelopes`
  bounds how often a waiting edit is submitted anew.  With one device of each
  user and three free actions the properties hold as well, and
  `MessageEditsProofs` has no bounds.

## 4 Fairness

* `SessionRouting`: weak fairness of a request that has started and of the
  main thread.  A handler thread runs a request to its end and Qt's event loops
  keep delivering.  A client owes nothing.
* `ClientSession`: a connection attempt ends one way or the other, the
  reconnect timer fires, the server answers while the connection stands, the
  client reads.  Breaking, expiring, terminating and everything the user does
  are not fair, so `LoginSettles` and `LoginIsTried` hold whatever the network
  does.
* `Outbox`: weak fairness of the client's event loop, of its timers (that they fire,
  not that they fire late enough), of the
  server on the *current* connection, and of the login that follows a lost
  connection (the reconnection of `ClientSession`).  Strong fairness of three
  outcomes, of the answer to a key request, of the look-up and of the insertion
  of a send: a server that is asked again and again does not refuse for ever
  (the recipient gets keys, the rate window passes, the database recovers).
  Without it nothing could be delivered, and the code promises no more.
* The other modules: only safety.

## 5 Proofs

### 5.1 `SessionRoutingProofs`

It proves for every set of accounts, devices and
connections and for every bound, from the assumption `SessionConstants` alone
(the null values are not members, the bounds are natural numbers):

| Theorem | Property |
|---|---|
| `TypeCorrect` | `TypeOK` |
| `RouteOwnership` | `RoutesBelongToOwner` |
| `EventOwnership` | `EventsNameOwner` |
| `SessionsNotShared` | `NoSharedSession` |
| `Reachability` | `LiveReachable` |

None of them is inductive.  A route is right because the event that made it
was; the event is right because of what the request that emitted it remembered
(`op[h].sid`); that is right because of what the connection held.  `IInv` says
all of it: `RowInv` (a row in use names an account and an accepted
connection), `LiveInv` (only issued ids are live), `ConnInv` (the ids a connection holds
are its own rows and its account's), `OpInv` (what a running request knows of
its session), `QueueInv` (each queued event names a row and its account; a
logout in the queue is for a session that is over), `RouteInv` (the maps
against the table) and `KeyInv` (the login session of a connection is routed
or about to be).  `QueueInv` carries the argument for `Reachability`: a
queued logout can only be for a session that was terminated or that its
connection has left behind, so it never removes the route a connection lives
on; `LoginFinish` is the step to see this at, since it makes a new id current while
logouts of older ones may be queued.

The proof has one lemma per conjunct of `IInv` and one case per action, and a
few lemmas on the queue (`EmitQueue`, `TakeQueue`), on the table and on what a
step leaves alone.

### 5.2 `ServerProofs`: the request gate

For any number of nonces and handlers, any size of the cache and any clock,
from `GateConstants` alone, of which the argument uses `Ttl >= 2 * Tolerance`
(in the code 600 and 300, with nothing to spare): `GatePassesOnce` (the property
`PassesOnce`) and `GateTypeCorrect`.

`PassesOnce` counts; what makes it true is `Account`: a request that has passed
is `Guarded`, by an entry that is not older than its timestamp allows
(`seen[n] >= stamp[n] - Tolerance`), or by the clock, which its timestamp is too
far behind.  An entry that expires hands over from the one to the other
(`ExpiredIsTooOld`).  `GateWithin` carries the first half of the gate into the
second: a request whose second half reads the same clock was within the
tolerance, so it is neither too old nor, if it has passed, without an entry.

### 5.3 `SenderKeyProofs`

*The device that sends*, for any finite set of readers and any number of keys,
encryptions, membership changes and requests, from `SenderKeyConstants` alone:
`IterationsAreUsedOnce` (the property `NoIterationTwice`), `KeysFollowMembers`
(`KeyFitsMembers`) and `SenderKeyTypeCorrect`.

Neither property is inductive.  `NoIterationTwice` counts; what makes it true is
`Ahead`: the key in memory, and every row that has its private part, is at or
past all that was encrypted with it, so the next iteration is new wherever the
key is taken from.  This is where the device's own copies matter: when they come
back they may set a row back, but always without the private part.  `Ahead` also
says that the latest row, if it can be used, is that of the key in memory: a
restart goes on with the same key.  `KeyFitsMembers` is about a device that has
nothing left to do; `ReplacedInTime` says for every moment that the key is that of
the members, or its replacement is due, by a notice that was not taken in or by a
request in the slot or the queue.  A new key is for the members of the answer, which
`AnswerFits` compares with the present ones, and that the slot is taken by the
one request on the way or answered is `OneRequest`.  Both say except where
the code gives up (*missed*) or a row was not written (*unsaved*).

The functions of the client have a lemma each (`KeyHealed`, `QueueDrained`,
`GroupFlushed`, `IterationTaken`, `DistributionBuilt`, `RowOverwritten`): they keep
`GoodDevice`, and all but the one that makes a key go on with the key in use
and forget no replacement (`Follows`), which composes as the functions do
(`FollowsOn`).  `FollowStep` turns that into the invariant for the handlers that do
nothing else.

*The device that reads*, for any number of messages and any limits: `RatchetKeepsEveryKey` (the property
`OrderCostsNothing`).  That a refused number is accounted for follows from
`PassedIsKnown`, every number up to the chain is opened, kept or gone, and this
rests on the order in `decryptMessage` of taking over the keys that were
skipped before and adding those the chain now goes over.  The two ways to open
share one lemma, `SaveKeepsAccount`, which goes through the outcomes of the
writes.

*The parts of `MCGroups`*: all types are kept in the run (`GroupPartsTyped`, the
property `PartsTypeOK`), since a behaviour of it is one of each of its parts (the lemma
`GroupPartsBehave`).

### 5.4 `ServerProofs`: prekeys, and the parts together

For any number of senders, prekeys, identities and bundles, from
`PrekeyConstants` alone: `PrekeyUsedOnce` (the property `OneTimeUse`),
`PrekeyMatchesIdentity` (`NoMixedBundle`) and `PrekeyTypes` (`PrekeyTypeOK`).

The first two are about stored contents, and what decides them happens before.
`PrekeyInv` follows a prekey from its upload: while it is live, that is unused
or claimed, it belongs to the identity key in the table, unless a failed purge has
*kept* it (`LiveRowsInv`; a registration
purges before it changes that row, and changes the row before it uploads,
`RegisterInv`).  A bundle remembers what its prekey was uploaded with, and, if
the prekey is still live when it is looked at, has read the same identity key
after the claim (`BundleInv`): this is what the check of a message turns into
`NoMixedBundle`.  For `OneTimeUse` it takes who else can still store something
with a prekey, or has (`HolderInv`): whenever two hold it, or one holds it and a
content is stored, it was claimed twice; if both are messages that passed the
check, one of the races happened.  A message that is stored ends its prekey unless
it was not consumed (`ContentInv`).  A failed registration leaves the invariant as it
is: whatever was done before it stopped is what the next one starts from.

Time and other users' claims only take from a prekey (`Ages`): it keeps its
identity and its claims, and is never live again once it is not.  So bundles
and contents that a step leaves alone keep their part of the invariant
(`RememberedStays`, `MeetsStays`, `UsedUpStays`), and a bundle that goes on
towards its end meets nobody new (`Recedes`).  What is left is one lemma for each
of the steps that matter: `ClaimStep`, `SendStep` and `StoreStep`.

`PrekeyTypes` bounds two numbers that nothing in the code looks at (`CountsInv`):
a prekey has been claimed at most as often as bundles were fetched, and the
private conversations, with those that are about to be created, are at most one for
each handler.

The lemma `PartsBehave` takes a behaviour of `MCServer` to one of each of its parts, so the
theorems of `SessionRoutingProofs`, `ReceiptsProofs` and this module hold of
the run `session_routing` as well; with their type theorems it gives
`PartsTyped` (`PartsTypeOK`).

### 5.5 `ClientSessionProofs`

For any number of packets on the way, from `MaxInFlight` being a positive
number: `ClientTypeCorrect` (`TypeOK`), `TokenAgrees` (`TokenAgreement`),
`RenewalIsScheduled` (`RenewalScheduled`) and `ExpiryIsFinal`
(`ExpiredIsOver`).

The connection is looked at as one `Line` of packets, the replies and behind
them the requests: the client adds at its end (`Joins`), the server turns a
request into a reply where it stands (`Turns`), the client takes replies off the
front (`Leaves`).  `ClientInv` says what the order of this line is (`Ordered`):
no two packets have one id, the login whose answer is awaited is behind all
other logins, and behind a login there is nothing that needs a session; the
renewal whose answer is awaited is behind all other renewals (`RenewLast`).  With
that it can say what the answers mean: an awaited login that succeeded has given
the connection its present session (`LoginMeans`); a renewal that succeeded has
done so too, and then no request on the way can still succeed; one that failed
has left no session (`RenewMeans`).  `TokenAgreement` is what remains when the
last answer has been taken (`Agreed`, which also covers a logout that the
server has yet to process).  `Wired` ties the state of the client to that of
its socket: a client can be authenticated with its socket closing, and nothing
is promised then.

That types are correct is not obvious here either: `NextRequestId` and
`FreshToken` must find a free number.  `NumberLeft` counts: the fields and
the packets on the way hold at most `MaxInFlight + 2` of the `MaxInFlight + 3`
numbers.

### 5.6 `OutboxProofs`

For any number of messages and connections and, except for the refinement,
any set of accounts, from `OutboxConstants` alone: `OutboxTypeCorrect`
(`TypeOK`), `SentStoredOnce` (`StoredOnce`), `NoMessageLost` (`NothingLost`),
`InFlightIsAnswered` (`InFlightIsReal`) and `OutboxIsReliable`
(`ImplementsReliableSend`).

What the client believes must be backed by something on the other side:
`OutboxInv` says that a message in memory is on its composer's disk or given up
(`Kept`), that every answer which confirms a message is true (`Confirmed`: the
row is there, and rows stay), that a handler which is about to announce holds
the row of its message (`Asked`), and that each message in flight has a request,
an operation or an answer on the present connection, unless the server refused
something or ended the session (`Tracked`).  None of these holds without
the others: `NothingLost` fails with an untrue confirmation, and a confirmation is
true because of what `Asked` says of the operation that produced it.  `Linked`
and `Unused` keep the handlers of earlier connections, which go on working, apart
from the present one.

The key slot, the waiting edit and the timers are not part of this argument, as no
safety property depends on them: their types are an invariant of their own
(`SlotInvariant`), and the steps that touch only them and the requests on the
way share a few lemmas (`RequestAdded`, `QuietReply`, `UnaskedStep`).

`OutboxIsReliable` has the hypothesis that there is one account on the device.
It is needed: with two, a message that is in memory at a change of accounts may be
stored for both (6.4), and the log then has it twice.  The mapping is that of
`Outbox`; `MappedStep` takes each action to a step of `ReliableSend` or to
none.  Most actions map to none; `Compose`, the insertion, the three ways to
let go of a message and a reset are the steps.

### 5.7 `GroupMembershipProofs`

For any finite sets of users and connections and any limit and number of
requests, from `GroupConstants` alone: `GroupTypeCorrect` (`TypeOK`),
`GroupKeepsLimit` (`MemberLimit`), `GroupChangesAnnounced` (`Announced`),
`GroupStaysOwned` (`OwnedUnlessRaced`) and `GroupHasOneOwner` (`SingleOwner`).

`GroupInv` has one part for each.  `Flows`: which request a handler can be in
the middle of at each step; `TypeOK` is not inductive without it.  `Room`: a
handler that has counted and not yet inserted takes a place already, so that
members and insertions to come together exceed the limit by at most the
connections but one; a count that lets an insertion pass is what establishes it, and
it is the only one that needs to look.  `Debts`: who is owed a notice is a
member, and what is owed to anybody is still to be sent by the step the
handler is at.  `Succession`: while no statement failed unnoticed and no leave
overlapped another change, a leave is alone with the group, and each request
knows at each of its steps what it has found out about the owners (the
target of a kick is none, the successor is a member, when the row of the leaving
owner is deleted there is another owner or nobody else).  `OneOwner`: how many
owners there can be besides the one who is leaving.

### 5.8 `ReceiptsProofs`

For any finite sets of recipients and devices and any number of messages,
acknowledgements, moves and breaks, from `ReceiptConstants` alone:
`StatusIsEarned` (`StatusEarned`), `ReadStaysRead` (`ReadIsNotUnread`),
`StatusComesToRest` (`StatusSettles`) and `ReceiptTypes` (`ReceiptTypeOK`).

A status is computed from three counts of three different moments, between
which receipts are written and members come and go.  What carries over from one
to the next is `CountsMean`: the number of recipients was never below that of the
members who have stayed all along (`Stayed`), and once the count of readers has
reached it, all who stayed have read, or somebody who moved has; receipts are
only ever added and the set of those who stayed only shrinks, so what is earned
stays earned (`EarnedStays`).  `EnoughMeansAll` is the counting argument: as
many readers as that, none of whom moved, are all who stayed.  `StatusInv` needs of
the types only those of the rows and the handlers' locals (`RowsTyped`).

`StatusSettles` is about a system at rest, and `SettleInv` says for every moment
what leads there.  *The row* (`StatusFollows`): as long as the acknowledgements of
a message do not overlap, what the one handler at work has counted is what the
receipts say, and the row has the status that follows from them as soon as it is
done.  *The sender* (`ShownFollows`): once a status is pushed, either the last
push of the message that will find a route carries it (`Coming`), or there is no
such push and the sender shows it, or will with its next synchronisation
(`EventDue`).  The two ways meet in every order: a push behind `userLoggedIn` in
the queue finds a route and one ahead of it does not (`RouteQueued`), a
synchronisation may find the event before or after the push, and a broken
connection loses the pushes but not the events.  The two crossings in which the
sender is left with less are *sync* and *push*; the invariant failed on both
before they were named.  `SenderTyped` bounds the sender's position by the stream,
and the stream by the acknowledgements that are over.

### 5.9 `MessageEditsProofs`

For any finite sets of the author's and the reader's devices, any length of a page
but 0 and any number of actions and envelopes, from `EditConstants` alone:

| Theorem | Property |
|---|---|
| `EditTypes` | `TypeOK` |
| `EditsReachReaders` | `EditsArrive` |
| `OwnEditsShown` | `OwnEditShown` |
| `DeletionsArrive` | `DeletesArrive` |
| `ReadAgain` | `ReadableAgain` |
| `NoSilentGaps` | `GapsAnnounced` |
| `CacheFollowsEdits` | `ShownIsCached` |
| `DeletionsStay` | `DeletedStays` |

The invariants are layers, each of which is inductive with those below it:

* `TypeInv`, the types with what is so at every moment of a log, a handler and the
  two directions of a connection.
* `FlightInv`: a device has one edit on its way at most; it is in the requests,
  with the handler or in the answers, and as long as it is, its text waits.
* `LocalInv`: a row shows what the cache has, and shows it unless it is deleted; a
  device that has used up an envelope has a text in its cache.  `ShownInv` is these
  three.
* `PageInv`: the page in an answer has every event between its ends, unless the
  log was pruned between the two reads; `StreamInv`: what the stream holds up to
  a device's cursor has had its effect on the device (`Seen`).  With them the end
  of the stream says something about the row (`AllSeen`).
* `OwnCacheInv`: while the answer to the edit which the server holds is
  outstanding, its text waits on the device that made it, and afterwards it is in the
  cache.
* `DeleteInv`: as long as the row is not deleted, nothing anywhere says so.
* `FreshInv`: no envelope is announced twice; `OrderInv`: without a race or a crash the
  last edit announced is that of the row, or the handler has still to announce it.
* `ReaderInv`: a device of the reader has, of all that it has used, the text of the
  latest announced; an edit comes to it once and in order unless it was *overtaken*.

What a device has after a page is a fold over the places of the page.  No
induction is needed to reason about it: the places up to which a claim holds are a
set, and if the claim failed somewhere there would be a first place where it
does (`Least`); `UpTo` is this argument, once, and `Trace` the
sequence of what the device has in between.

### 5.10 What is only model-checked

* Liveness: `LoginRouted`, `LeaverUnrouted`, `LoginSettles`, `LoginIsTried`,
  `Delivered`.  It rests on fairness, which the prover cannot handle.
* Of `Without` and `InOrder` it is proved which messages they keep, not their
  order, which no safety property is about.

Every invariant and every other action property that a passing run checks is a
theorem.

## 6 What the checks found

### 6.1 `terminate_session` does not disconnect (`session_terminated`)

`RH:614-616` emits `userLoggedOut` and then `sessionTerminated`.
`Server::onUserLoggedOut` removes the id from `m_sessionHandlers`, and
`Server::onSessionTerminated` looks the handler up there, finds none and never
calls `disconnectClient()`.  docs/PROTOCOL.md:192 says that the server closes
the connection.  Every request of the terminated connection is refused from
then on, but it stays open.

### 6.2 A renewal undoes a termination (`session_renew_race`)

`processTokenRenewRequest` reads the row, deletes it and inserts a new one, in
three statements and without looking at what the deletion found.  A
termination in between is answered "Session terminated" and the terminated
device holds a new session.  docs/SECURITY.md:58 says a terminated session is
invalid at once.

### 6.3 A read message goes back to delivered (`status_forward`)

The recipient's device acknowledges a message as delivered and then as read, and
the sender gets both pushes and shows "read".  The pushes do not move its position
in the event stream.  Its connection breaks, it comes back and reads the stream
from where it had got to: the page has the event "delivered", and the one of "read"
is not appended yet.  The sender shows "delivered" again.  (If both events are
in the page, it does so until it takes the second.)

`updateMessageStatus` (`LS:683`) sets status and rank whatever the row holds, and
both `handleMessageStatusUpdate` (`NM:2358`) and `ingestSyncEvents` (`NM:2552`) call
it; only `upsertMessage` (`LS:597`) compares the ranks.  The comment at `LS:39`
and docs/ARCHITECTURE.md:106, which names both ways, have the status only move
forward.

### 6.4 Messages of the previous account are sent (`outbox_switch`)

`resetAuthState()` clears the stored outbox, not `m_outbox`.  What was waiting
at logout is sent after the next login on that device, and the server stores it
as a message of the account that logged in.

### 6.5 A device goes on showing what it deleted (`edits_deletion`)

`ingestSyncEvents` and the push handlers skip a deletion that names the device
itself as origin, since the answer has marked the message (`NM:2619`).  If the
connection breaks after the server has deleted and announced, and before the
answer is read, nothing else marks it: the device reads its events to the end
and shows the message, every other device shows it as deleted.  The same holds
after a logout and a login, when the stream is read from the beginning.  The
documents say that the stream makes up for what was lost (docs/PROTOCOL.md:433,
docs/SECURITY.md:53).  Edits have the same gap (the exception *unanswered* of
`OwnEditShown`).

### 6.6 An older edit replaces a newer one (`edits_overtaken`)

A reader logs in while the message is edited twice: the push of the second edit
arrives first and is decrypted, the first edit then comes with the page, is
decrypted too and replaces it; the second edit, when the stream reaches it,
can no longer be decrypted, for its one-time key is used up, and is dropped.  Row
and cache of the reader stay on the first edit.  docs/PROTOCOL.md:710 has the
double delivery in mind and promises that the readable text is kept.

### 6.7 What is done to the decryption cache

docs/SECURITY.md:52 says that the handling of edit and deletion events and answers
first drops the old decryption cache of the message (`m_decryptCache` and
`clearDecryptedContent`) and then decrypts the new content or marks the
deletion; docs/ARCHITECTURE.md:97 and 99 say so of edits.  The code does otherwise in
all cases but one, and where it concerns edits its comments say why:

| Case | Documents | Code |
|---|---|---|
| another member's edit, by push or stream | cleared, then decrypted | decrypted, then overwritten (`decryptEditContent`, `NM:1510-1547`); nothing is dropped when it cannot be decrypted (comments at `NM:1507`, `NM:2597` and `NM:3092`) |
| own edit, by its answer | cleared, then overwritten | the same (`NM:3066-3073`) |
| a deletion, by answer, push or stream | cleared, then marked | marked only (`NM:3116-3153`, `LS:735`); both caches keep the text |

The model has what the code does (`TakeEdit`, `OwnEditDone`, `TakeDelete`).  For edits
the purpose the documents give, that the text before the edit is not shown
afterwards, is met in the other way: `ShownIsCached` says that row and cache agree
in every state, whatever crossed.  For deletions there is no such
property to state: the cache keeps the text of a message that is shown as deleted,
and when the mark is lost, with a logout or a full resynchronisation, an opened
conversation brings the message back from the cache.  `DeletedStays` therefore
ends with the login.

### 6.8 Smaller observations, without a run of their own

* A connection that renewed its session and closes names the new id in
  `userLoggedOut` (`RH:141`): the id it logged in with stays in the maps for
  the life of the server.  `LeaverUnrouted` is about the id held on leaving.
* `terminate_session` compares only a given `sessionId` with the current
  session (`RH:597`); a `deviceId` may resolve to the caller's own, which
  docs/PROTOCOL.md says can only be ended by logout.
* A request that was written while a renewal is in flight carries the old token and
  reaches the server after the renewal has replaced it.  Its `SessionInvalid`
  comes after the renewal's answer, and the client ends the session it has just
  renewed (`NM:2028`).
* An `Error` answer to a login (a clock that is off by more than 300 s) is not
  matched with the login: the client stays in `LoggingIn` until the connection
  breaks (the exception in `LoginSettles`).
* A logout whose connection breaks before the answer is undone: the client
  reconnects and logs in again (`NM:161-193`).
* A reconnection attempt that fails before the TCP connection stands is the
  last one: no `disconnected()` follows, and nothing starts the timer again
  (`NM:217-231`).
* An `Error` answer to a send leaves the message in flight as long as the
  connection lasts (the exceptions in `InFlightIsReal` and `Delivered`).
* The outbox can be left waiting without anything that would flush it (*missed* in
  `Delivered`), in two ways.  The end of the key-fetch back-off is kept in
  whole seconds, and the timer that flushes when it is over is a coarse one,
  which Qt may fire up to 5% early: it then finds the back-off still running
  (`NM:981`) and is not started again.  And a waiting edit of the same peer takes
  the bundle that was fetched for a message, or its failure, and the handler
  returns without a flush (`NM:1165-1168`, `NM:1210-1220`).  The message then waits
  for the user's next message, for another key event or for a login.
  Apart from this and from the `Error` answer above, everything that can happen
  to a message of a user who stays logged in leads to its delivery, as long as
  the server does not refuse for ever; that is what `Delivered` says.
* A second edit of a message overwrites `m_pendingEditContent` while the first
  is unanswered; the answer to the first then stores the second text on that device,
  whatever becomes of the second edit (*overlapped* in `OwnEditShown`).
* Edits of two devices are ordered by the `UPDATE` of the row and announced in
  another order (*raced*); a crash between the two announces nothing
  (*unannounced*).
* A waiting edit survives a break and even a logout, and the next key bundle of
  that peer is used for it (`NM:1210`).
* `sync_messages` carries `deleted` and `edited` so that a device can rebuild
  them (comment at `RH:1083`), but `upsertMessage` stores neither, and the
  decryption cache is asked first: an edit is not seen this way by who has the old
  text, and a deleted message comes back after a full resynchronisation.
* The copy of an edit for its author is made for the editing device only
  (`NM:1343-1367`); docs/PROTOCOL.md:710 says the author's other devices can read
  it.  In the model only the readers and the editing device can.
* The events deleted by `pruneSyncEvents` may be more than the watermark says,
  and a crash before the watermark leaves it behind (`hole` in `GapsAnnounced`
  is about the time between two reads and this one).  A cursor of 0 is never told.
* If the server dies between the commit of a message and its `sync_events`
  rows, the repeated send is acknowledged by the look-up and the rows are never
  written: the recipient learns of the message from `sync_messages` only.
* A group can lose its owner: a leave whose successor leaves or is kicked at
  the same time, the last member leaving on one device while inviting on
  another, or an `updateMemberRole()` that fails unnoticed (`RH:1581`).
  `OwnedUnlessRaced` names exactly these cases; the comment at `RH:1547` gives
  the avoidance of groups without an owner as the purpose of the hand-over.
* Receipts: acknowledgements that overlap may leave the older status in the row
  or show it to the sender, since `updateMessageStatus` is unconditional on both
  sides (*acks* in `StatusSettles`; see 6.3).  A sender who synchronises between a
  push and its event misses both until the next change (*sync*), and so does one
  whose connection breaks while a push that a synchronisation has overtaken is
  still queued (*push*).  Receipts of members who
  have left are counted against those there are now, and the first
  acknowledgement of someone who joined later sets "read" back to "delivered"
  (`StatusEarned`, and the condition on `moves`).  An acknowledgement of an
  older message lowers the badge of the reader's other devices (`LS:764`).  A
  client that opens a conversation acknowledges only the last incoming message
  as read, and does not acknowledge what it got by synchronisation as delivered.
* Prekeys: a claim is not bound to who claimed.  The prekey of an edit is neither
  checked nor consumed (`RH:2097`): after 600 seconds it is handed out again
  and what is encrypted with it cannot be read; the comment at `RH:1875` describes this
  fault as corrected for distributions.  `OneTimeUse` names the ways in which one
  prekey gets two contents.  One of them is a claim that another request takes
  back between check and storing: the message is stored, `consumePrekeys()`
  finds nothing to consume, or its update fails, and nothing looks at its result
  (`RH:889`), so the prekey goes to somebody else (*unconsumed*).  When the purge of
  the old prekeys fails during a registration with a new identity key,
  `upsertIdentityKey()` logs a warning and writes the new key (`DB:1780-1803`):
  the old prekeys go out with it and pass the check, and the comment at
  `DB:1761` says what becomes of a message encrypted with one (*kept* in `NoMixedBundle`).  If the answer to a registration is lost, the server
  may be left without prekeys until the next one.  Two first messages may create
  two private conversations (`DB:1074`).
* Gate: an eviction, a restart, or one unit of time between the two halves can
  let a copy pass a second time (*forgotten* and *late* in `PassesOnce`); the
  comment at `NonceCache.h:8` says clearing at a restart is avoided, but the
  cache is in memory only.  The rate windows (`RateWindow.h`) are fixed, so up
  to twice the limit passes around a boundary.
* Sender keys: the key is not replaced when a change arrives while an older list
  of members is on its way, when the connection breaks before, when the request
  is refused for good or nobody has prekeys, and after a full
  resynchronisation (*missed* in `KeyFitsMembers`).  A row that is not written
  brings back an older key, or an older iteration (*unsaved*).  A distribution
  that is lost is not sent again (`NM:1740`; it is not in the outbox): what is
  encrypted with the key stays unreadable until the next one.  The device's own
  distribution, when it comes back, overwrites its row without the private part:
  this forces a new key after a reconnection, and is also what keeps the reset
  iteration from being used (the mutant of `NoIterationTwice` keeps the private
  part).  A crash between the chain and the skipped keys loses the keys in
  between (*dropped* in `OrderCostsNothing`).
* Concurrent invitations can pass the member limit (`MemberLimit` bounds by how
  much), and an invitation that fails half-way announces nothing (`Announced`).

## 7 Not modelled

* *Outcomes instead of mechanisms*: password checks, TLS, the replay guard and
  rate windows appear where a model needs them as a refusal that can happen at any
  time; encryption as a step that can fail.
* *Rate windows* (`RateWindow.h`): two numbers and a comparison, without an
  order of events to get wrong; see 6.8.
* *The events `read_cursor` and the local badge*: what they carry is decided by
  `AckCursor` of `Receipts`; their delivery is that of every other event.
* *The device's own user leaving the group*: `SenderKeys` keeps it a member; the
  client forgets its key then, and after a leave of its own the rows too.
* *Quotas and the trust-on-first-use fingerprint of a peer*: refusals before the
  statements that `Prekeys` models, and on the client.
* *Packet framing* (`PacketCodec`): a length check and a copy, whose one failure
  closes the connection.
* *Destruction of a handler's worker while the main thread pushes to it*
  (`RH:44`, `RH:145`): undefined behaviour in C++; the model drops a push to a
  handler that has ended.
* *Registration, search, profile, configuration, logging, start-up and
  migrations, user interface*: single steps or sequential code without
  protocol state.
* *Cryptography*: outside what a state model can say.

Failures and crashes that these models leave out, and their places in the code:

* a crash of the server between the row of a message's status and its event
  (`RH:1010-1034`), or between the receipt and the read position (`RH:974-977`),
  and a failing statement in between: `Receipts` takes an acknowledgement to run to its
  end;
* an outbox row that cannot be written (`addOutboxItem`, `NM:866`, whose result is
  ignored): the message is then in memory only, and `NothingLost` does not cover it;
* a crash of the client between its writes of row, decryption cache and cursor:
  `MessageEdits` has them in one step (`SenderRatchet` has its three writes
  separately).

## 8 Plan

Models: packet framing as a function over byte counts; the `read_cursor` events
and the badge in `Receipts`; failing statements and a crash in the middle of an
acknowledgement there (section 7).  Each comes with its invariant in the proof
module of its component.
