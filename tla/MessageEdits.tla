---------------------------- MODULE MessageEdits -----------------------------
(***************************************************************************)
(* One private message, edited and deleted by its sender, as the server    *)
(* and every device of the two users see it.                               *)
(*                                                                         *)
(* The server keeps the message's row and the log sync_events.  A change   *)
(* is written to the row, then to the log of each member, who is also      *)
(* pushed the event if online; a push can be lost, the log is read from a  *)
(* cursor at the next login.  Old events are pruned.  A device keeps the   *)
(* plaintext it could decrypt: an envelope holds one copy per device of    *)
(* the peer, readable once (one-time prekeys), and one for the device that *)
(* made it.  The local store loses the message at logout, the decryption   *)
(* cache stays.                                                            *)
(*                                                                         *)
(* The message has just been sent and logged when the model begins, and    *)
(* only its origin is online.  Texts are numbers (0 is none), envelopes    *)
(* are indices into made.                                                  *)
(***************************************************************************)
EXTENDS Integers, Sequences, FiniteSets

CONSTANTS
    Authors,     \* devices of the message's sender
    Readers,     \* devices of the peer
    Origin,      \* the device that sent the message
    PageLimit,   \* events in a page of sync_events
    MaxActs,     \* bound: edits, deletions, openings, disconnections, logouts,
                 \* crashes and prunings in all
    MaxEnvelopes \* bound: envelopes made before an edit is submitted again

ASSUME EditConstants ==
    /\ Authors \cap Readers = {} /\ Origin \in Authors
    /\ IsFiniteSet(Authors \cup Readers)
    /\ PageLimit \in Nat \ {0} /\ MaxActs \in Nat /\ MaxEnvelopes \in Nat

VARIABLES
    row,         \* messages: the envelope stored (0 if deleted) and deleted
    log,         \* sync_events of both users; the index is seq
    pruned,      \* events up to here have been removed from the log
    watermark,   \* sync_meta.pruned_below_seq
    marking,     \* watermark the prune in progress has yet to write, 0 if none
    made,        \* envelopes made: their text and the device that made them
    texts,       \* number of texts written
    online,      \* devices with an authenticated connection
    inbox,       \* requests on each connection not yet handled
    job,         \* change or page each handler thread is working on
    replies,     \* responses on the way to each device
    pushes,      \* events pushed to each device, on the way
    store,       \* LocalStore.messages: the row of the message
    cache,       \* decrypt_cache: text of the message, 0 if none
    used,        \* envelopes whose one-time prekey the device has used up
    cursor,      \* LocalStore sync_seq
    edit,        \* m_pendingEditContent, 0 if none
    acts,        \* actions counted against MaxActs
    slips        \* history: what crossed or was lost around each device's changes

serverVars == <<row, log, pruned, watermark, marking, job>>
netVars == <<online, inbox, replies, pushes>>
localVars == <<store, cache, used, cursor>>
uiVars == <<edit, made, texts>>
vars == <<serverVars, netVars, localVars, uiVars, acts, slips>>

Devices == Authors \cup Readers
Users == {"author", "reader"}
UserOf(d) == IF d \in Authors THEN "author" ELSE "reader"
DevicesOf(u) == {d \in Devices : UserOf(d) = u}

Envelopes == 1 .. Len(made)
NoRow == [has |-> FALSE, text |-> 0, deleted |-> FALSE]
NoJob == [kind |-> "none", arg |-> 0, todo |-> {}]
Slips == {"overtaken", "raced", "unanswered", "overlapped", "unannounced", "hole"}

\* Remembers slip at the devices in D.
SlipAt(D, slip) ==
    slips' = [d \in Devices |-> IF d \in D THEN slips[d] \cup {slip} ELSE slips[d]]

\* Events of d's user in the log from low + 1 to high.
OwnEvents(d, low, high) == {i \in low + 1 .. high : log[i].to = UserOf(d)}

TypeOK ==
    /\ row \in [env : 0 .. Len(made), deleted : BOOLEAN]
    /\ row.deleted <=> row.env = 0
    /\ \A i \in DOMAIN log :
          log[i] \in [to : Users, kind : {"other", "message", "edit", "delete"},
                      env : 0 .. Len(made), by : Authors]
    /\ watermark \in 0 .. pruned /\ marking \in 0 .. pruned
    /\ pruned \in 0 .. Len(log)
    /\ \A e \in Envelopes : made[e] \in [text : 1 .. texts, by : Authors]
    /\ texts \in 1 .. MaxActs + 1 /\ acts \in 0 .. MaxActs
    /\ online \subseteq Devices
    /\ \A d \in Devices :
        /\ job[d].kind \in {"none", "edit", "delete", "sync"}
        /\ job[d].todo \subseteq Users
        /\ \A i \in DOMAIN pushes[d] : pushes[d][i] \in 1 .. Len(log)
        /\ d \notin online =>
              inbox[d] = <<>> /\ replies[d] = <<>> /\ pushes[d] = <<>>
        /\ store[d] \in [has : BOOLEAN, text : 0 .. texts, deleted : BOOLEAN]
        /\ ~store[d].has => store[d] = NoRow
        /\ store[d].text # 0 => cache[d] # 0
        /\ cache[d] \in 0 .. texts /\ edit[d] \in 0 .. texts
        /\ used[d] \subseteq Envelopes
        /\ cursor[d] \in 0 .. Len(log)
        /\ slips[d] \subseteq Slips

Init ==
    /\ row = [env |-> 1, deleted |-> FALSE]
    /\ made = <<[text |-> 1, by |-> Origin]>> /\ texts = 1
    /\ log = << [to |-> "reader", kind |-> "other", env |-> 0, by |-> Origin],
                [to |-> "author", kind |-> "other", env |-> 0, by |-> Origin],
                [to |-> "reader", kind |-> "message", env |-> 1, by |-> Origin],
                [to |-> "author", kind |-> "message", env |-> 1, by |-> Origin] >>
    /\ pruned = 0 /\ watermark = 0 /\ marking = 0
    /\ online = {Origin}
    /\ inbox = [d \in Devices |-> <<>>] /\ replies = [d \in Devices |-> <<>>]
    /\ pushes = [d \in Devices |-> <<>>]
    /\ job = [d \in Devices |-> NoJob]
    /\ store = [d \in Devices |->
                  IF d = Origin THEN [NoRow EXCEPT !.has = TRUE, !.text = 1] ELSE NoRow]
    /\ cache = [d \in Devices |-> IF d = Origin THEN 1 ELSE 0]
    /\ used = [d \in Devices |-> {}] /\ cursor = [d \in Devices |-> IF d \in Readers THEN 1 ELSE 2]
    /\ edit = [d \in Devices |-> 0]
    /\ acts = 0 /\ slips = [d \in Devices |-> {}]

----------------------------------------------------------------------------
(* What a device does with an envelope or an event.  Its local state is a  *)
(* record [row, cache, used] here, so that a page can be folded over it.   *)

Local(d) == [row |-> store[d], cache |-> cache[d], used |-> used[d]]

Keep(d, local) ==
    /\ store' = [store EXCEPT ![d] = local.row]
    /\ cache' = [cache EXCEPT ![d] = local.cache]
    /\ used' = [used EXCEPT ![d] = local.used]

\* decryptIncomingContent: the copy for the device that made the envelope
\* can be read again and again, a copy for a reader once.
Opens(d, local, e) ==
    e # 0 /\ (made[e].by = d \/ (d \in Readers /\ e \notin local.used))

SpendPrekey(d, local, e) ==
    IF d \in Readers THEN [local EXCEPT !.used = @ \cup {e}] ELSE local

\* Mutant: a known row is replaced whole, the deleted flag with it.
UpsertReplaces(local, text) ==
    IF text = 0
    THEN IF local.row.text # 0 THEN local ELSE [local EXCEPT !.row.has = TRUE]
    ELSE [local EXCEPT !.row = [has |-> TRUE, text |-> text, deleted |-> FALSE],
                       !.cache = text]

\* LocalStore::upsertMessage: no text never replaces one; the deleted flag
\* of a known row stays as it is.
Upsert(local, text) ==
    IF text = 0
    THEN IF local.row.text # 0 THEN local ELSE [local EXCEPT !.row.has = TRUE]
    ELSE [local EXCEPT !.row.has = TRUE, !.row.text = text, !.cache = text]

\* decryptMessageObject, then upsertMessage: the cache is asked first.
TakeMessage(d, local, e) ==
    IF local.cache # 0 THEN Upsert(local, local.cache)
    ELSE IF Opens(d, local, e)
    THEN Upsert([SpendPrekey(d, local, e) EXCEPT !.cache = made[e].text], made[e].text)
    ELSE Upsert(local, 0)

\* Mutant: the cache is asked first, as for a message.
TakeEditCached(d, local, e) ==
    IF local.cache # 0 THEN Upsert(local, local.cache)
    ELSE TakeMessage(d, local, e)

\* decryptEditContent: past the cache; what cannot be read changes no text.
TakeEdit(d, local, e) ==
    IF ~Opens(d, local, e) THEN local
    ELSE LET text == made[e].text IN
         [SpendPrekey(d, local, e) EXCEPT
            !.cache = text, !.row.text = IF local.row.has THEN text ELSE @]

\* LocalStore::markMessageDeleted updates a known row; the cache stays.
TakeDelete(local) ==
    IF local.row.has THEN [local EXCEPT !.row.text = 0, !.row.deleted = TRUE]
    ELSE local

\* Mutant: the user alone is compared.
OwnChangeOfUser(d, event) == UserOf(event.by) = UserOf(d)

\* A device skips the changes it made itself.
OwnChange(d, event) == event.by = d

TakeEvent(d, local, event) ==
    CASE event.kind = "other" -> local
      [] event.kind = "message" -> TakeMessage(d, local, event.env)
      [] event.kind = "edit" ->
            IF OwnChange(d, event) THEN local ELSE TakeEdit(d, local, event.env)
      [] event.kind = "delete" ->
            IF OwnChange(d, event) THEN local ELSE TakeDelete(local)

\* A page is a set of places in the log, taken in their order.
TakePage(d, page) ==
    LET upTo[i \in 0 .. Len(log)] ==
            IF i = 0 THEN Local(d)
            ELSE IF i \in page THEN TakeEvent(d, upTo[i - 1], log[i])
            ELSE upTo[i - 1]
    IN upTo[Len(log)]

----------------------------------------------------------------------------
(* Requests of the devices.                                                *)

Request(kind, arg) == [kind |-> kind, arg |-> arg]
Send(d, request) == inbox' = [inbox EXCEPT ![d] = Append(@, request)]

Requested(d, kind) == \E i \in DOMAIN inbox[d] : inbox[d][i].kind = kind

\* A deletion or an opening is not repeated before it is answered.
Pending(d, kind) ==
    \/ Requested(d, kind) \/ job[d].kind = kind
    \/ \E i \in DOMAIN replies[d] : replies[d][i].kind = kind

\* The reconnection delay lets the old handler thread finish its request.
Login(d) ==
    /\ d \notin online /\ job[d].kind = "none"
    /\ online' = online \cup {d}
    /\ Send(d, Request("sync", cursor[d]))
    /\ UNCHANGED <<serverVars, replies, pushes, localVars, uiVars, acts, slips>>

\* editMessage on a private message: the text waits for the peer's keys.
EditMessage(d) ==
    /\ d \in online \cap Authors /\ store[d].has /\ ~store[d].deleted
    /\ acts < MaxActs /\ acts' = acts + 1
    /\ texts' = texts + 1
    /\ edit' = [edit EXCEPT ![d] = texts']
    /\ Send(d, Request("fetch", 0))
    /\ SlipAt(IF edit[d] # 0 THEN {d} ELSE {}, "overlapped")
    /\ UNCHANGED <<serverVars, online, replies, pushes, localVars, made>>

\* flushOutbox for another message to the same peer; it matters here only
\* because handleFetchKeysResponse serves a waiting edit first.
FlushOutbox(d) ==
    /\ d \in online \cap Authors /\ ~Requested(d, "fetch") /\ edit[d] # 0
    /\ Len(made) < MaxEnvelopes
    /\ Send(d, Request("fetch", 0))
    /\ UNCHANGED <<serverVars, online, replies, pushes, localVars, edit, made,
                   texts, acts, slips>>

DeleteMessage(d) ==
    /\ d \in online \cap Authors /\ store[d].has /\ ~store[d].deleted
    /\ ~Pending(d, "delete")
    /\ acts < MaxActs /\ acts' = acts + 1
    /\ Send(d, Request("delete", 0))
    /\ UNCHANGED <<serverVars, online, replies, pushes, localVars, uiVars, slips>>

\* syncMessages from the first message, when the user opens the conversation.
OpenConversation(d) ==
    /\ d \in online
    /\ ~Pending(d, "open")
    /\ acts < MaxActs /\ acts' = acts + 1
    /\ Send(d, Request("open", 0))
    /\ UNCHANGED <<serverVars, online, replies, pushes, localVars, uiVars, slips>>

----------------------------------------------------------------------------
(* The server: one handler thread per connection, one request at a time.   *)

Reply(kind, arg, ok, page) ==
    [kind |-> kind, arg |-> arg, ok |-> ok, page |-> page]

Respond(d, reply) ==
    replies' = IF d \in online THEN [replies EXCEPT ![d] = Append(@, reply)] ELSE replies

Handling(d, kind) ==
    /\ job[d].kind = "none" /\ inbox[d] # <<>> /\ Head(inbox[d]).kind = kind
    /\ inbox' = [inbox EXCEPT ![d] = Tail(@)]

StartJob(d, kind, arg, todo) ==
    job' = [job EXCEPT ![d] = [kind |-> kind, arg |-> arg, todo |-> todo]]

\* The row is read first, but what decides is the condition deleted = 0 of
\* the UPDATE; both refusals are the same to the client.
HandleEdit(d) ==
    /\ Handling(d, "edit")
    /\ LET e == Head(inbox[d]).arg IN
       IF row.deleted
       THEN /\ Respond(d, Reply("edit", e, FALSE, {}))
            /\ UNCHANGED <<row, job, slips>>
       ELSE /\ row' = [row EXCEPT !.env = e]
            /\ StartJob(d, "edit", e, Users)
            /\ SlipAt(IF \E c \in Devices : job[c].kind = "edit" THEN Devices ELSE {},
                      "raced")
            /\ UNCHANGED replies
    /\ UNCHANGED <<log, pruned, watermark, marking, online, pushes, localVars,
                   uiVars, acts>>

HandleDelete(d) ==
    /\ Handling(d, "delete")
    /\ row' = [env |-> 0, deleted |-> TRUE]
    /\ StartJob(d, "delete", 0, Users)
    /\ UNCHANGED <<log, pruned, watermark, marking, online, replies, pushes,
                   localVars, uiVars, acts, slips>>

\* appendSyncEvent for one member and the push to that member's devices; the
\* answer follows the last one.  The push to d itself is left out: d would
\* skip it (OwnChange).
Announce(d, u) ==
    /\ u \in job[d].todo
    /\ log' = Append(log, [to |-> u, kind |-> job[d].kind, env |-> job[d].arg, by |-> d])
    /\ pushes' = [c \in Devices |->
                    IF c \in (online \cap DevicesOf(u)) \ {d}
                    THEN Append(pushes[c], Len(log')) ELSE pushes[c]]
    /\ IF job[d].todo = {u}
       THEN /\ job' = [job EXCEPT ![d] = NoJob]
            /\ Respond(d, Reply(job[d].kind, job[d].arg, TRUE, {}))
       ELSE /\ job' = [job EXCEPT ![d].todo = @ \ {u}]
            /\ UNCHANGED replies
    /\ UNCHANGED <<row, pruned, watermark, marking, online, inbox, localVars,
                   uiVars, acts, slips>>

HandleOpen(d) ==
    /\ Handling(d, "open")
    /\ Respond(d, Reply("open", row.env, TRUE, {}))
    /\ UNCHANGED <<serverVars, online, pushes, localVars, uiVars, acts, slips>>

\* maxSyncEventSeq is 0 on an empty log, the watermark then stands in.
MaxSeq == IF Len(log) > pruned THEN Len(log) ELSE 0
FullSyncSeq == IF MaxSeq > watermark THEN MaxSeq ELSE watermark

\* Mutant: no cursor is ever behind.
BehindWatermarkNever(after) == FALSE

\* A cursor behind the watermark is told to start over.
BehindWatermark(after) == after > 0 /\ after < watermark

HandleSync(d) ==
    /\ Handling(d, "sync")
    /\ LET after == Head(inbox[d]).arg IN
       IF BehindWatermark(after)
       THEN /\ Respond(d, Reply("full", FullSyncSeq, TRUE, {}))
            /\ UNCHANGED <<job, slips>>
       ELSE /\ StartJob(d, "sync", after, {})
            /\ SlipAt(IF watermark < pruned THEN {d} ELSE {}, "hole")
            /\ UNCHANGED replies
    /\ UNCHANGED <<row, log, pruned, watermark, marking, online, pushes,
                   localVars, uiVars, acts>>

\* getSyncEvents: the user's next events that are still there, at most
\* PageLimit of them.
EventsAfter(d, after) ==
    LET mine == {i \in OwnEvents(d, after, Len(log)) : i > pruned}
    IN {i \in mine : Cardinality({j \in mine : j < i}) < PageLimit}

ReadEvents(d) ==
    /\ job[d].kind = "sync"
    /\ Respond(d, Reply("sync", job[d].arg, TRUE, EventsAfter(d, job[d].arg)))
    /\ job' = [job EXCEPT ![d] = NoJob]
    /\ UNCHANGED <<row, log, pruned, watermark, marking, online, inbox, pushes,
                   localVars, uiVars, acts, slips>>

\* pruneSyncEvents: the clock is read for the cutoff and again for the
\* DELETE, which can remove more; the watermark is written last.
PruneDelete ==
    /\ marking = 0
    /\ \E cutoff \in pruned + 1 .. Len(log) : \E last \in cutoff .. Len(log) :
          pruned' = last /\ marking' = cutoff
    /\ acts < MaxActs /\ acts' = acts + 1
    /\ SlipAt({d \in Devices : job[d].kind = "sync"}, "hole")
    /\ UNCHANGED <<row, log, watermark, job, netVars, localVars, uiVars>>

PruneMark ==
    /\ marking # 0
    /\ watermark' = IF watermark < marking THEN marking ELSE watermark
    /\ marking' = 0
    /\ UNCHANGED <<row, log, pruned, job, netVars, localVars, uiVars, acts, slips>>

----------------------------------------------------------------------------
(* Answers and pushes arrive, each kind in order.  Pushes pass through the *)
(* server's main thread; between the two any order is allowed.             *)

Answer(d, kind) ==
    /\ replies[d] # <<>> /\ Head(replies[d]).kind = kind
    /\ replies' = [replies EXCEPT ![d] = Tail(@)]

\* fetch_keys and handleFetchKeysResponse in one: the answer says nothing
\* of the message.  Only the last request's answer is taken; a refusal ends
\* the waiting edit.
FetchKeys(d) ==
    /\ replies[d] = <<>> /\ job[d].kind = "none"
    /\ inbox[d] # <<>> /\ Head(inbox[d]).kind = "fetch"
    /\ LET rest == Tail(inbox[d])
           last == \A i \in DOMAIN rest : rest[i].kind # "fetch"
       IN \/ /\ last /\ edit[d] # 0
             /\ made' = Append(made, [text |-> edit[d], by |-> d])
             /\ inbox' = [inbox EXCEPT ![d] = Append(rest, Request("edit", Len(made')))]
             /\ UNCHANGED edit
          \/ /\ inbox' = [inbox EXCEPT ![d] = rest]
             /\ edit' = [edit EXCEPT ![d] = IF last THEN 0 ELSE @]
             /\ UNCHANGED made
    /\ UNCHANGED <<serverVars, online, replies, pushes, localVars, texts, acts,
                   slips>>

\* Mutants: the cached text is dropped and not written again; the row keeps
\* the text before the edit; the cache does.
OwnEditDoneUncached(d) ==
    [Local(d) EXCEPT
        !.row.text = IF store[d].has /\ edit[d] # 0 THEN edit[d] ELSE @,
        !.cache = 0]

OwnEditDoneCacheOnly(d) == [Local(d) EXCEPT !.cache = edit[d]]

OwnEditDoneRowOnly(d) ==
    [Local(d) EXCEPT !.row.text = IF store[d].has /\ edit[d] # 0 THEN edit[d] ELSE @]

\* handleEditMessageResponse, own: stores whatever text is waiting now.  On
\* a connection at most one edit is sent and not answered.
OwnEditDone(d) ==
    [Local(d) EXCEPT
        !.row.text = IF store[d].has /\ edit[d] # 0 THEN edit[d] ELSE @,
        !.cache = edit[d]]

ReceiveEdit(d) ==
    /\ Answer(d, "edit")
    /\ IF Head(replies[d]).ok THEN Keep(d, OwnEditDone(d))
       ELSE UNCHANGED <<store, cache, used>>
    /\ edit' = [edit EXCEPT ![d] = 0]
    /\ UNCHANGED <<serverVars, online, inbox, pushes, cursor, made,
                   texts, acts, slips>>

ReceiveDelete(d) ==
    /\ Answer(d, "delete")
    /\ Keep(d, TakeDelete(Local(d)))
    /\ UNCHANGED <<serverVars, online, inbox, pushes, cursor, uiVars, acts, slips>>

\* ingestSyncEvents; a full page asks for the next one.
LastSeq(reply) ==
    IF reply.page = {} THEN reply.arg
    ELSE CHOOSE i \in reply.page : \A j \in reply.page : j <= i

ReceiveEvents(d) ==
    /\ Answer(d, "sync")
    /\ LET reply == Head(replies[d]) IN
       /\ Keep(d, TakePage(d, reply.page))
       /\ cursor' = [cursor EXCEPT ![d] = IF LastSeq(reply) > @ THEN LastSeq(reply) ELSE @]
       /\ IF Cardinality(reply.page) >= PageLimit
          THEN Send(d, Request("sync", LastSeq(reply)))
          ELSE UNCHANGED inbox
    /\ UNCHANGED <<serverVars, online, pushes, uiVars, acts, slips>>

ReceiveFull(d) ==
    /\ Answer(d, "full")
    /\ cursor' = [cursor EXCEPT ![d] = IF Head(replies[d]).arg > @ THEN Head(replies[d]).arg ELSE @]
    /\ UNCHANGED <<serverVars, online, inbox, pushes, store, cache, used, uiVars,
                   acts, slips>>

\* Reading envelope e now leaves an earlier edit in the log to be read later.
Overtakes(d, e) ==
    /\ Opens(d, Local(d), e)
    /\ \E i \in OwnEvents(d, cursor[d], Len(log)) :
          /\ log[i].kind = "edit" /\ log[i].env # e /\ Opens(d, Local(d), log[i].env)
          /\ ~ \E j \in OwnEvents(d, cursor[d], i) : log[j].env = e

\* handleSyncMessagesResponse: edited and deleted flags are not stored.
ReceiveOpen(d) ==
    /\ Answer(d, "open")
    /\ LET e == Head(replies[d]).arg IN
       /\ Keep(d, TakeMessage(d, Local(d), e))
       /\ SlipAt(IF cache[d] = 0 /\ Overtakes(d, e) THEN {d} ELSE {}, "overtaken")
    /\ UNCHANGED <<serverVars, online, inbox, pushes, cursor, uiVars, acts>>

\* The push of a change: requestId 0.
ReceivePush(d) ==
    /\ pushes[d] # <<>>
    /\ pushes' = [pushes EXCEPT ![d] = Tail(@)]
    /\ LET event == log[Head(pushes[d])] IN
       /\ Keep(d, TakeEvent(d, Local(d), event))
       /\ SlipAt(IF event.kind = "edit" /\ Overtakes(d, event.env) THEN {d} ELSE {},
                 "overtaken")
    /\ UNCHANGED <<serverVars, online, inbox, replies, cursor, uiVars, acts>>

----------------------------------------------------------------------------
(* Connections end.  A handler thread finishes the request it is on.       *)

\* Changes of d that are in the row but not yet known to d as done.
Unanswered(d) ==
    \/ job[d].kind = "edit"
    \/ \E i \in DOMAIN replies[d] : replies[d][i].kind = "edit" /\ replies[d][i].ok

Drop(D) ==
    /\ online' = online \ D
    /\ inbox' = [d \in Devices |-> IF d \in D THEN <<>> ELSE inbox[d]]
    /\ replies' = [d \in Devices |-> IF d \in D THEN <<>> ELSE replies[d]]
    /\ pushes' = [d \in Devices |-> IF d \in D THEN <<>> ELSE pushes[d]]
    /\ UNCHANGED <<made, texts>>

\* The client loses its connection; restarted, it also forgets the edit.
Disconnect(d) ==
    /\ d \in online /\ acts < MaxActs /\ acts' = acts + 1
    /\ Drop({d})
    /\ SlipAt(IF Unanswered(d) THEN {d} ELSE {}, "unanswered")
    /\ \E restarted \in BOOLEAN :
          edit' = [edit EXCEPT ![d] = IF restarted THEN 0 ELSE @]
    /\ UNCHANGED <<serverVars, localVars>>

\* Mutant: clearUserData takes the decryption cache with it.
ClearedCacheToo(d) == 0

\* The answer to logout comes after all others; then resetAuthState and
\* clearUserData.  A waiting edit is kept, and so is the decryption cache.
ClearedCache(d) == cache[d]

Logout(d) ==
    /\ d \in online /\ inbox[d] = <<>> /\ replies[d] = <<>> /\ job[d].kind = "none"
    /\ acts < MaxActs /\ acts' = acts + 1
    /\ Drop({d})
    /\ store' = [store EXCEPT ![d] = NoRow]
    /\ cursor' = [cursor EXCEPT ![d] = 0]
    /\ cache' = [cache EXCEPT ![d] = ClearedCache(d)]
    /\ UNCHANGED <<serverVars, used, edit, slips>>

ServerCrash ==
    /\ acts < MaxActs /\ acts' = acts + 1
    /\ online # {} \/ marking # 0 \/ \E d \in Devices : job[d] # NoJob
    /\ Drop(Devices)
    /\ slips' = [d \in Devices |-> slips[d]
          \cup (IF Unanswered(d) THEN {"unanswered"} ELSE {})
          \cup (IF \E c \in Devices : job[c].todo # {} THEN {"unannounced"} ELSE {})]
    /\ job' = [d \in Devices |-> NoJob] /\ marking' = 0
    /\ UNCHANGED <<row, log, pruned, watermark, localVars, edit>>

Next ==
    \/ \E d \in Devices :
          \/ Login(d) \/ EditMessage(d) \/ FlushOutbox(d) \/ DeleteMessage(d)
          \/ OpenConversation(d)
          \/ HandleEdit(d) \/ HandleDelete(d) \/ HandleOpen(d)
          \/ HandleSync(d) \/ ReadEvents(d)
          \/ \E u \in Users : Announce(d, u)
          \/ FetchKeys(d) \/ ReceiveEdit(d) \/ ReceiveDelete(d) \/ ReceiveEvents(d)
          \/ ReceiveFull(d) \/ ReceiveOpen(d) \/ ReceivePush(d)
          \/ Disconnect(d) \/ Logout(d)
    \/ PruneDelete \/ PruneMark \/ ServerCrash

Spec == Init /\ [][Next]_vars

----------------------------------------------------------------------------
(* Properties.                                                             *)

\* d is online with nothing on the way to or from it, and no change is half
\* made on the server.
Quiet(d) ==
    /\ d \in online /\ inbox[d] = <<>> /\ replies[d] = <<>> /\ pushes[d] = <<>>
    /\ \A c \in Devices : job[c].kind = "none"

\* d has also read its event stream to the end.
CaughtUp(d) == Quiet(d) /\ OwnEvents(d, cursor[d], Len(log)) = {}

\* A reader that has read the stream to the end shows the text of the row,
\* unless it read a later edit before an earlier one, the edits of two
\* devices crossed, or the server crashed before announcing an edit
\* (handleEditMessageResponse and ingestSyncEvents together).
EditsArrive ==
    \A d \in Readers :
        CaughtUp(d) /\ pruned = 0 /\ ~row.deleted
            /\ slips[d] \cap {"overtaken", "raced", "unannounced"} = {}
        => store[d].has /\ store[d].text = made[row.env].text

\* The device whose edit the server holds shows that edit, unless the answer
\* was lost or it began another edit before the first was answered.
OwnEditShown ==
    \A d \in Authors :
        /\ Quiet(d) /\ store[d].has /\ ~row.deleted
        /\ made[row.env].by = d /\ cache[d] # 0
        /\ slips[d] \cap {"unanswered", "overlapped", "raced"} = {}
        => store[d].text \in {0, made[row.env].text}

\* A device that has read the stream to the end shows the message as deleted
\* if another device deleted it (message_deleted in ingestSyncEvents).
DeletesArrive ==
    \A d \in Devices :
        /\ CaughtUp(d) /\ pruned = 0 /\ store[d].has
        /\ \E i \in OwnEvents(d, 0, Len(log)) : log[i].kind = "delete" /\ log[i].by # d
        => store[d].deleted

\* What a device could read once it can read again after every logout and
\* login (the decryption cache outlives clearUserData).
ReadableAgain ==
    \A d \in Devices :
        CaughtUp(d) /\ pruned = 0 /\ (cache[d] # 0 \/ used[d] # {})
        => store[d].deleted \/ store[d].text # 0

\* The text a device shows is the one in its decryption cache, whatever answers,
\* pushes and pages of overlapping edits came in between.  An opened conversation
\* and the stream ask the cache before the envelope (decryptMessageObject): a text
\* from before an edit, left in the cache, would come back.  docs/SECURITY.md and
\* docs/ARCHITECTURE.md have the cache cleared first; decryptEditContent overwrites
\* it, and a deletion leaves it as it is.
ShownIsCached ==
    \A d \in Devices : store[d].text \in {0, cache[d]}

\* A message shown as deleted is not shown again by anything that arrives.
DeletedStays ==
    [][\A d \in Devices :
        store[d].deleted => store'[d].deleted \/ d \notin online']_vars

\* A page for a cursor that was not behind the watermark leaves no event of
\* the user out, unless events were removed between the handler's look at the
\* watermark and at the log, or without being written to the watermark.
GapsAnnounced ==
    \A d \in Devices : \A i \in DOMAIN replies[d] :
        LET reply == replies[d][i] IN
        reply.kind = "sync" /\ reply.arg > 0 /\ "hole" \notin slips[d]
        => \A s \in OwnEvents(d, reply.arg, LastSeq(reply)) :
              s \in reply.page

\* What the documents promise: a device that has read its event stream to
\* the end shows a deletion, whatever pushes and answers were lost.
DeletionReachesAll ==
    \A d \in Devices :
        CaughtUp(d) /\ pruned = 0 /\ "unannounced" \notin slips[d]
        => store[d].deleted = row.deleted

\* The same for an edit and the devices that can read it.
EditReachesReaders ==
    \A d \in Readers :
        /\ CaughtUp(d) /\ pruned = 0 /\ "unannounced" \notin slips[d]
        /\ ~row.deleted
        => store[d].text = made[row.env].text
=============================================================================
