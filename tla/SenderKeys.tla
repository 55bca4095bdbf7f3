----------------------------- MODULE SenderKeys -----------------------------
(***************************************************************************)
(* The sender keys one device makes for a group, and how it replaces them  *)
(* when the members change.                                                *)
(*                                                                         *)
(* The device asks the server for the members' prekeys, makes a new key,   *)
(* keeps it in memory and in its local store, and sends it to those it got *)
(* prekeys of.  One such request is open at a time, for whichever group;   *)
(* groups that have to wait are queued.  What the client keeps in memory   *)
(* goes with the connection, the local store stays.                        *)
(*                                                                         *)
(* A member without prekeys is passed over by the server and the device    *)
(* alike; the members here are those that have some.                       *)
(* The other groups of the account are one, "other"; only its place in the *)
(* slot and in the queue is modelled.  The device's user stays a member.   *)
(* What a reader does with a key is SenderRatchet; how an encrypted        *)
(* message gets to the server is Outbox.                                   *)
(***************************************************************************)
EXTENDS Integers, FiniteSets, Sequences

CONSTANTS
    Readers,     \* the users that are, become or were members
    MaxKey,      \* bound: keys made
    MaxSealed,   \* bound: encryptions
    MaxMade,     \* bound: keys and encryptions together
    MaxChanges,  \* bound: membership changes
    MaxWire      \* bound: requests on the way

ASSUME SenderKeyConstants ==
    /\ IsFiniteSet(Readers)
    /\ MaxKey \in Nat /\ MaxSealed \in Nat /\ MaxMade \in Nat
    /\ MaxChanges \in Nat /\ MaxWire \in Nat

VARIABLES
    device,      \* the client, its store and its requests on the way; see below
    answer,      \* answer to the request of the slot, on its way to the device
    members,     \* conversation_members of the group, without the device's user
    unheard,     \* group_changed notices and events the device has not taken in
    distributed, \* keys whose distribution is among the group's messages
    listed,      \* history: the members when the prekeys for each key were claimed
    missed,      \* history: the device gave up replacing a key of other members
    changes      \* number of membership changes so far

senderKeyVars == <<device, answer, members, unheard, distributed, listed, missed, changes>>

Keys == 1 .. MaxKey
Iterations == 1 .. MaxSealed
Groups == {"group", "other"}
NoKey == [id |-> 0, iteration |-> 0]
NoRow == [iteration |-> -1, private |-> FALSE]
NoAnswer == [kind |-> "none", to |-> {}]

\* connected, e2eeReady, healQueue: m_state, m_e2eeReady, m_healQueue; slot:
\* m_fetchGroupKeysTargetConvId; retry: a timer will call drainHealQueue;
\* memory: m_groupSenderKeys; rows, latest: the device's own sender_keys rows
\* and the one with the greatest rowid; wire: what was sent, in order; sealed,
\* count: history of the encryptions; unsaved: history, a row was not written.
DeviceInit ==
    [connected |-> FALSE, e2eeReady |-> FALSE, slot |-> "none", healQueue |-> {},
     retry |-> FALSE, memory |-> NoKey, rows |-> [k \in Keys |-> NoRow],
     latest |-> 0, wire |-> <<>>, sealed |-> {}, count |-> 0, unsaved |-> FALSE]

SenderKeyTypeOK ==
    /\ device.connected \in BOOLEAN /\ device.e2eeReady \in BOOLEAN
    /\ device.slot \in Groups \cup {"none"} /\ device.healQueue \subseteq Groups
    /\ device.retry \in BOOLEAN /\ device.unsaved \in BOOLEAN
    /\ device.memory \in [id : Keys \cup {0}, iteration : Iterations \cup {0}]
    /\ device.rows \in [Keys -> [iteration : Iterations \cup {0, -1}, private : BOOLEAN]]
    /\ device.latest \in Keys \cup {0}
    /\ device.wire \in Seq([fetch : Groups \cup {"none"}, key : Keys \cup {0}])
    /\ Len(device.wire) <= MaxWire
    /\ device.sealed \subseteq Keys \X Iterations /\ device.count \in 0 .. MaxSealed
    /\ answer \in [kind : {"none", "keys", "empty", "busy", "refused"}, to : SUBSET Readers]
    /\ members \subseteq Readers /\ missed \in BOOLEAN
    /\ unheard \in 0 .. MaxChanges /\ changes \in 0 .. MaxChanges
    /\ distributed \subseteq Keys
    /\ listed \in Seq(SUBSET Readers) /\ Len(listed) <= MaxKey

SenderKeyInit ==
    /\ device = DeviceInit /\ answer = NoAnswer
    /\ members \in SUBSET Readers
    /\ unheard = 0 /\ distributed = {} /\ listed = <<>> /\ missed = FALSE /\ changes = 0

-----------------------------------------------------------------------------
\* What the client's functions do to the device d: the devices they may leave.

SendFetchGroupKeys(d, g) ==
    [d EXCEPT !.slot = g, !.wire = Append(@, [fetch |-> g, key |-> 0])]

DrainHealQueue(d) ==
    IF d.connected /\ d.e2eeReady /\ d.slot = "none" /\ d.healQueue # {}
    THEN {SendFetchGroupKeys([d EXCEPT !.healQueue = @ \ {g}], g) : g \in d.healQueue}
    ELSE {d}

\* Faulty variant: a group that has to wait is not queued.
HealUnqueued(d, g) ==
    IF d.slot = g \/ d.healQueue = Groups \/ ~d.e2eeReady \/ d.slot # "none"
    THEN d
    ELSE SendFetchGroupKeys(d, g)

\* A group whose request is on its way or that is queued already is skipped.
HealGroupSenderKey(d, g) ==
    IF d.slot = g \/ g \in d.healQueue THEN d
    ELSE IF ~d.e2eeReady \/ d.slot # "none" THEN [d EXCEPT !.healQueue = @ \cup {g}]
    ELSE SendFetchGroupKeys(d, g)

\* saveSenderKey replaces the row and gives it the greatest rowid.  Nobody
\* looks at its result; a copy that is not written changes nothing.  (Bound:
\* one own key or iteration is not written; the properties except it anyway.)
SaveSenderKey(d, k, iteration, private) ==
    LET written == [d EXCEPT !.latest = k,
                       !.rows[k] = [iteration |-> iteration, private |-> private]]
    IN  {written} \cup (IF private /\ ~d.unsaved THEN {[d EXCEPT !.unsaved = TRUE]} ELSE {})

\* The key in use: in memory, else the latest row if it has the private part.
SenderKey(d) ==
    IF d.memory # NoKey THEN d.memory
    ELSE IF d.latest # 0 /\ d.rows[d.latest].private
         THEN [id |-> d.latest, iteration |-> d.rows[d.latest].iteration]
         ELSE NoKey

GenerateSenderKey(k) == [id |-> k, iteration |-> 0]
EncryptMessage(key) == [key EXCEPT !.iteration = @ + 1]

\* The iteration is counted up and saved before anything is sent.
EncryptGroupMessage(d) ==
    LET key == EncryptMessage(SenderKey(d))
    IN  {[s EXCEPT !.memory = key, !.count = @ + 1,
                   !.sealed = @ \cup {<<key.id, key.iteration>>}] :
            s \in SaveSenderKey(d, key.id, key.iteration, TRUE)}

\* flushOutbox for the group; the outbox may have nothing for it.
FlushGroup(d) ==
    {d} \cup
    (IF ~d.connected \/ ~d.e2eeReady THEN {}
     ELSE IF SenderKey(d) # NoKey THEN EncryptGroupMessage(d)
     ELSE IF d.slot = "none" THEN {SendFetchGroupKeys(d, "group")}
     ELSE {})

\* The new key is saved and in use before its distribution is on its way.
BuildDistribution(d, k) ==
    {[s EXCEPT !.memory = GenerateSenderKey(k),
               !.wire = Append(@, [fetch |-> "none", key |-> k])] :
        s \in SaveSenderKey(d, k, 0, TRUE)}

Bounded(d) ==
    /\ Len(d.wire) <= MaxWire /\ d.count <= MaxSealed
    /\ d.count + Len(listed) <= MaxMade

-----------------------------------------------------------------------------
LoggedIn ==
    /\ ~device.connected
    /\ device' = [device EXCEPT !.connected = TRUE]
    /\ UNCHANGED <<answer, members, unheard, distributed, listed, missed, changes>>

\* Everything but the store goes; what was under way is lost.
Disconnected ==
    /\ device.connected
    /\ device' = [DeviceInit EXCEPT !.retry = device.retry, !.rows = device.rows,
                                    !.latest = device.latest, !.sealed = device.sealed,
                                    !.count = device.count, !.unsaved = device.unsaved]
    /\ answer' = NoAnswer
    /\ missed' = (missed \/ "group" \in device.healQueue \/ device.slot = "group")
    /\ UNCHANGED <<members, unheard, distributed, listed, changes>>

\* The identity is registered: the outbox is flushed, then the queue drained.
KeysRegistered ==
    /\ device.connected /\ ~device.e2eeReady
    /\ \E f \in FlushGroup([device EXCEPT !.e2eeReady = TRUE]) :
           device' \in DrainHealQueue(f)
    /\ Bounded(device')
    /\ UNCHANGED <<answer, members, unheard, distributed, listed, missed, changes>>

\* A message is composed, acknowledged or retried.
FlushOutbox ==
    /\ device' \in FlushGroup(device) \ {device} /\ Bounded(device')
    /\ UNCHANGED <<answer, members, unheard, distributed, listed, missed, changes>>

\* An edit is encrypted with the key there is.
EditMessage ==
    /\ device.connected /\ SenderKey(device) # NoKey
    /\ device' \in EncryptGroupMessage(device) /\ Bounded(device')
    /\ UNCHANGED <<answer, members, unheard, distributed, listed, missed, changes>>

\* Notices by push or, after a login, a batch of events: one replacement.
GroupChanged ==
    /\ device.connected
    /\ \E n \in 1 .. unheard : unheard' = unheard - n
    /\ device' = HealGroupSenderKey(device, "group") /\ Bounded(device')
    /\ missed' = (missed \/ (device.slot = "group" /\ answer.kind = "keys"
                             /\ answer.to # members))
    /\ UNCHANGED <<answer, members, distributed, listed, changes>>

OtherGroupChanged ==
    /\ device.connected
    /\ device' = HealGroupSenderKey(device, "other") /\ device' # device /\ Bounded(device')
    /\ UNCHANGED <<answer, members, unheard, distributed, listed, missed, changes>>

\* The events were removed from the stream: the client starts afresh, and
\* that replaces no key.
NeedsFullSync ==
    /\ device.connected /\ unheard > 0
    /\ unheard' = 0 /\ missed' = TRUE
    /\ UNCHANGED <<device, answer, members, distributed, listed, changes>>

RetryTimer ==
    /\ device.retry
    /\ device' \in DrainHealQueue([device EXCEPT !.retry = FALSE]) /\ Bounded(device')
    /\ UNCHANGED <<answer, members, unheard, distributed, listed, missed, changes>>

-----------------------------------------------------------------------------
\* The answer of the slot.  A new key is made for the members it lists.
GroupKeysFetched ==
    LET freed == [device EXCEPT !.slot = "none"]
    IN  /\ device.slot = "group" /\ answer.kind = "keys"
        /\ Len(listed) < MaxKey /\ Len(listed) + device.count < MaxMade
        /\ \E built \in BuildDistribution(freed, Len(listed) + 1) :
               device' \in DrainHealQueue(built)
        /\ Bounded(device')
        /\ listed' = Append(listed, answer.to) /\ answer' = NoAnswer
        /\ UNCHANGED <<members, unheard, distributed, missed, changes>>

\* No prekeys at all, or a refusal that stays: the replacement is given up.
GroupKeysRefused ==
    /\ device.slot = "group" /\ answer.kind \in {"empty", "refused"}
    /\ device' \in DrainHealQueue([device EXCEPT !.slot = "none"]) /\ Bounded(device')
    /\ answer' = NoAnswer /\ missed' = TRUE
    /\ UNCHANGED <<members, unheard, distributed, listed, changes>>

\* A passing failure: the group is queued again and a timer drains the queue.
FetchBusy ==
    /\ device.slot # "none" /\ answer.kind = "busy"
    /\ device' = [device EXCEPT !.slot = "none", !.retry = TRUE,
                                !.healQueue = @ \cup {device.slot}]
    /\ answer' = NoAnswer
    /\ UNCHANGED <<members, unheard, distributed, listed, missed, changes>>

OtherKeysAnswered ==
    /\ device.slot = "other" /\ answer.kind \in {"keys", "empty", "refused"}
    /\ device' \in DrainHealQueue([device EXCEPT !.slot = "none"]) /\ Bounded(device')
    /\ answer' = NoAnswer
    /\ UNCHANGED <<members, unheard, distributed, listed, missed, changes>>

\* Faulty variant: the private part of a row is kept.
OwnDistributionMerged(k) ==
    /\ device.connected /\ k \in distributed
    /\ device' \in SaveSenderKey(device, k, 0, device.rows[k].private)
    /\ UNCHANGED <<answer, members, unheard, distributed, listed, missed, changes>>

\* The device's own distribution comes back by synchronisation.  It can open
\* its own copy, and replaces its row by the key without the private part.
OwnDistribution(k) ==
    /\ device.connected /\ k \in distributed
    /\ device' \in SaveSenderKey(device, k, 0, FALSE)
    /\ UNCHANGED <<answer, members, unheard, distributed, listed, missed, changes>>

\* Its own messages come back too, and opening one leaves the row without the
\* private part: at the message's number, or where it was when the message is
\* an earlier one whose key was kept (whether it was is left open).
OwnMessage(k, n) ==
    /\ device.connected /\ <<k, n>> \in device.sealed
    /\ device.rows[k] # NoRow
    /\ LET reached == device.rows[k].iteration
       IN  device' \in SaveSenderKey(device, k, IF n > reached THEN n ELSE reached, FALSE)
    /\ UNCHANGED <<answer, members, unheard, distributed, listed, missed, changes>>

-----------------------------------------------------------------------------
\* The connection's handler takes the requests in order.
FetchGroupKeysRequest ==
    /\ device.wire # <<>> /\ Head(device.wire).key = 0
    /\ device' = [device EXCEPT !.wire = Tail(@)]
    /\ \E kind \in {"keys", "empty", "busy", "refused"} :
           answer' = [kind |-> kind, to |-> IF kind = "keys" THEN members ELSE {}]
    /\ missed' = (missed /\ ~(Head(device.wire).fetch = "group" /\ answer'.kind = "keys"))
    /\ UNCHANGED <<members, unheard, distributed, listed, changes>>

\* The distribution is stored as a message of the group, or that fails.
SendDistributionRequest ==
    /\ device.wire # <<>> /\ Head(device.wire).key # 0
    /\ device' = [device EXCEPT !.wire = Tail(@)]
    /\ distributed' \in {distributed, distributed \cup {Head(device.wire).key}}
    /\ UNCHANGED <<answer, members, unheard, listed, missed, changes>>

\* Somebody is invited, kicked or leaves; every member's devices are told.
MembershipChange(u) ==
    /\ changes < MaxChanges /\ changes' = changes + 1
    /\ members' = IF u \in members THEN members \ {u} ELSE members \cup {u}
    /\ unheard' = unheard + 1
    /\ UNCHANGED <<device, answer, distributed, listed, missed>>

SenderKeyNext ==
    \/ LoggedIn \/ Disconnected \/ KeysRegistered \/ FlushOutbox \/ EditMessage
    \/ GroupChanged \/ OtherGroupChanged \/ NeedsFullSync \/ RetryTimer
    \/ GroupKeysFetched \/ GroupKeysRefused \/ FetchBusy \/ OtherKeysAnswered
    \/ \E k \in Keys : OwnDistribution(k) \/ \E n \in Iterations : OwnMessage(k, n)
    \/ FetchGroupKeysRequest \/ SendDistributionRequest
    \/ \E u \in Readers : MembershipChange(u)

SenderKeySpec == SenderKeyInit /\ [][SenderKeyNext]_senderKeyVars

-----------------------------------------------------------------------------
\* Nothing is left to do: every change was heard and no request waits.
Settled ==
    /\ device.connected /\ unheard = 0
    /\ device.slot # "group" /\ "group" \notin device.healQueue

\* A change of the members replaces the key: once the device has settled, the
\* key it encrypts with was made for exactly the present members.  The code
\* gives up in the cases of missed (the change came while an older list was
\* on its way, the connection broke before the new key, the request was
\* refused or found no prekeys, the events were pruned), and an unwritten row
\* can bring back an older key.  (NetworkManager.cpp:1980-1983)
KeyFitsMembers ==
    \/ ~Settled \/ SenderKey(device) = NoKey \/ missed \/ device.unsaved
    \/ listed[SenderKey(device).id] = members

\* No iteration of a key encrypts twice, whatever overwrites the key's row and
\* whenever memory is lost, unless a row could not be written: the copy that
\* comes back resets the iteration, and only its missing private part keeps
\* it from being used.
NoIterationTwice == device.unsaved \/ Cardinality(device.sealed) = device.count
=============================================================================
