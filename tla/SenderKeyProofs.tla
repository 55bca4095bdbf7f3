--------------------------- MODULE SenderKeyProofs ---------------------------
(***************************************************************************)
(* Theorems about the sender keys of a group: SenderKeys on the device     *)
(* that sends, for any number of readers, keys, messages and changes, and  *)
(* SenderRatchet on one that reads, for every length of the chain and      *)
(* every value of the two limits; and their composition with the           *)
(* membership of the group in MCGroups.                                    *)
(***************************************************************************)
EXTENDS MCGroups, GroupMembershipProofs

-----------------------------------------------------------------------------
(***************************************************************************)
(* The device that sends: the inductive invariant.                         *)
(***************************************************************************)
Packets == [fetch : Groups \cup {"none"}, key : Keys \cup {0}]
OwnRows == [iteration : Int, private : BOOLEAN]

DeviceRecords ==
    [connected : BOOLEAN, e2eeReady : BOOLEAN, slot : Groups \cup {"none"},
     healQueue : SUBSET Groups, retry : BOOLEAN, memory : [id : Nat, iteration : Nat],
     rows : [Keys -> OwnRows], latest : Keys \cup {0}, wire : Seq(Packets),
     sealed : SUBSET (Keys \X Nat), count : Nat, unsaved : BOOLEAN]

\* Only keys that were made are in use, and no iteration is ahead of the number
\* of encryptions.
Known(d, n) ==
    /\ d.memory = NoKey \/ (d.memory.id \in Keys /\ d.memory.id <= n)
    /\ d.memory.iteration <= d.count
    /\ \A k \in Keys : /\ d.rows[k].private => k <= n /\ d.rows[k].iteration >= 0
                       /\ d.rows[k].iteration >= -1 /\ d.rows[k].iteration <= d.count
    /\ \A p \in d.sealed : p[1] <= n /\ p[2] >= 1 /\ p[2] <= d.count

\* Memory and the rows that can be used are not behind what was encrypted, and a
\* row that would be taken after a restart is that of the key in memory.
Ahead(d) == ~d.unsaved =>
    /\ IsFiniteSet(d.sealed) /\ Cardinality(d.sealed) = d.count
    /\ \A p \in d.sealed : /\ p[1] = d.memory.id => p[2] <= d.memory.iteration
                           /\ d.rows[p[1]].private => p[2] <= d.rows[p[1]].iteration
    /\ d.memory # NoKey /\ d.latest # 0 /\ d.rows[d.latest].private => d.memory.id = d.latest

\* The slot is taken by the one request that is on the way or answered.
OneRequest(d, kind) ==
    /\ d.slot = "none" => kind = "none"
    /\ \A i \in DOMAIN d.wire : d.wire[i].key = 0 =>
          d.slot # "none" /\ d.wire[i].fetch = d.slot /\ kind = "none"
    /\ \A i, j \in DOMAIN d.wire : d.wire[i].key = 0 /\ d.wire[j].key = 0 => i = j

GoodDevice(d, n, kind) ==
    d \in DeviceRecords /\ Known(d, n) /\ Ahead(d) /\ OneRequest(d, kind)

WithinBounds(d) == Len(d.wire) <= MaxWire /\ d.count <= MaxSealed

\* The group has a request on the way or waits for one.
Healing(d) == d.slot = "group" \/ "group" \in d.healQueue

RestTyped ==
    /\ answer \in [kind : {"none", "keys", "empty", "busy", "refused"}, to : SUBSET Readers]
    /\ members \subseteq Readers /\ missed \in BOOLEAN
    /\ changes \in 0 .. MaxChanges /\ unheard \in 0 .. changes
    /\ distributed \subseteq Keys
    /\ listed \in Seq(SUBSET Readers) /\ Len(listed) <= MaxKey

\* The list that is on its way is that of the present members, or the device will
\* still hear of the change.
AnswerFits ==
    device.slot = "group" /\ answer.kind = "keys" /\ ~missed
        => answer.to = members \/ unheard > 0

\* The key in use is that of the present members, or its replacement is due.
ReplacedInTime ==
    ~missed /\ ~device.unsaved /\ SenderKey(device) # NoKey =>
        unheard > 0 \/ Healing(device) \/ listed[SenderKey(device).id] = members

SenderKeyInv ==
    /\ GoodDevice(device, Len(listed), answer.kind) /\ WithinBounds(device)
    /\ RestTyped /\ AnswerFits /\ ReplacedInTime
-----------------------------------------------------------------------------
(***************************************************************************)
(* What the client's functions leave behind.                               *)
(***************************************************************************)
LEMMA KeyNumbers ==
    /\ MaxKey \in Nat /\ MaxSealed \in Nat /\ MaxWire \in Nat /\ MaxChanges \in Nat
    /\ Keys \subseteq Nat /\ \A k \in Keys : k # 0 /\ k >= 1
    /\ NoKey.id = 0 /\ NoKey.iteration = 0
BY SenderKeyConstants DEF Keys, NoKey

\* Slot, queue and requests do not concern the keys.
SameKeys(d, e) ==
    /\ e.memory = d.memory /\ e.rows = d.rows /\ e.latest = d.latest
    /\ e.sealed = d.sealed /\ e.count = d.count /\ e.unsaved = d.unsaved

LEMMA SameKeysMean ==
    ASSUME NEW d, NEW e, SameKeys(d, e)
    PROVE  /\ SenderKey(e) = SenderKey(d)
           /\ \A n : Known(d, n) => Known(e, n)
           /\ Ahead(d) => Ahead(e)
BY DEF SameKeys, SenderKey, Known, Ahead

\* The device goes on with the key it has, or has none any more, and does not forget
\* a replacement.
Follows(d, e) ==
    /\ SenderKey(e) # NoKey => SenderKey(d) # NoKey /\ SenderKey(e).id = SenderKey(d).id
    /\ d.unsaved => e.unsaved
    /\ Healing(d) => Healing(e)
    /\ e.slot = d.slot \/ d.slot = "none"

LEMMA FollowsOn ==
    ASSUME NEW d, NEW e, NEW f, Follows(d, e), Follows(e, f)
    PROVE  Follows(d, f)
BY DEF Follows, Healing

LEMMA AppendsRequest ==
    ASSUME NEW w \in Seq(Packets), NEW p \in Packets, NEW v, v = Append(w, p)
    PROVE  /\ v \in Seq(Packets) /\ DOMAIN v = DOMAIN w \cup {Len(w) + 1}
           /\ Len(w) + 1 \notin DOMAIN w /\ v[Len(w) + 1] = p
           /\ \A i \in DOMAIN w : v[i] = w[i]
OBVIOUS

LEMMA RequestSent ==
    ASSUME NEW d, NEW n, NEW kind, GoodDevice(d, n, kind), d.slot = "none", NEW g \in Groups,
           NEW e, e = SendFetchGroupKeys(d, g)
    PROVE  /\ GoodDevice(e, n, kind) /\ SameKeys(d, e)
           /\ e.slot = g /\ e.healQueue = d.healQueue
<1>1. d \in DeviceRecords /\ Known(d, n) /\ Ahead(d) /\ OneRequest(d, kind)
  BY DEF GoodDevice
<1>2. PICK p : p = [fetch |-> g, key |-> 0]
  OBVIOUS
<1>3. p \in Packets /\ p.key = 0 /\ p.fetch = g
  BY <1>2 DEF Packets
<1>4. e = [d EXCEPT !.slot = g, !.wire = Append(d.wire, p)]
  BY <1>2 DEF SendFetchGroupKeys
<1>5. PICK v : v = Append(d.wire, p)
  OBVIOUS
<1>6. /\ v \in Seq(Packets) /\ DOMAIN v = DOMAIN d.wire \cup {Len(d.wire) + 1}
      /\ Len(d.wire) + 1 \notin DOMAIN d.wire /\ v[Len(d.wire) + 1] = p
      /\ \A i \in DOMAIN d.wire : v[i] = d.wire[i]
  <2>1. d.wire \in Seq(Packets)
    BY <1>1 DEF DeviceRecords
  <2>2. QED
    BY <1>3, <1>5, <2>1, AppendsRequest
<1>7. /\ e \in DeviceRecords /\ e.slot = g /\ e.wire = v /\ e.healQueue = d.healQueue
      /\ SameKeys(d, e)
  BY <1>1, <1>4, <1>5, <1>6 DEF DeviceRecords, SameKeys
<1>8. OneRequest(e, kind)
  <2>1. kind = "none" /\ \A i \in DOMAIN d.wire : d.wire[i].key # 0
    BY <1>1 DEF OneRequest
  <2>2. g # "none"
    BY DEF Groups
  <2>3. QED
    BY <1>3, <1>6, <1>7, <2>1, <2>2 DEF OneRequest
<1>9. QED
  BY <1>1, <1>7, <1>8, SameKeysMean DEF GoodDevice

\* A device whose queue, timer or connection changes.
LEMMA OtherFields ==
    ASSUME NEW d, NEW n, NEW kind, GoodDevice(d, n, kind), NEW e \in DeviceRecords,
           SameKeys(d, e), e.slot = d.slot, e.wire = d.wire
    PROVE  GoodDevice(e, n, kind)
BY SameKeysMean DEF GoodDevice, OneRequest

LEMMA QueueDrained ==
    ASSUME NEW d, NEW n, NEW kind, GoodDevice(d, n, kind), NEW e \in DrainHealQueue(d)
    PROVE  GoodDevice(e, n, kind) /\ Follows(d, e)
<1>1. CASE e = d
  BY <1>1 DEF Follows
<1>2. CASE e # d
  <2>1. PICK g \in d.healQueue : e = SendFetchGroupKeys([d EXCEPT !.healQueue = @ \ {g}], g)
    BY <1>2 DEF DrainHealQueue
  <2>2. d.slot = "none" /\ d \in DeviceRecords
    BY <1>2 DEF DrainHealQueue, GoodDevice
  <2>3. g \in Groups /\ d.healQueue \ {g} \in SUBSET Groups
    BY <2>2 DEF DeviceRecords
  <2>4. PICK c : c = [d EXCEPT !.healQueue = d.healQueue \ {g}]
    OBVIOUS
  <2>5. /\ c \in DeviceRecords /\ SameKeys(d, c) /\ c.slot = d.slot /\ c.wire = d.wire
        /\ c.healQueue = d.healQueue \ {g}
    BY <2>2, <2>3, <2>4 DEF DeviceRecords, SameKeys
  <2>6. GoodDevice(c, n, kind)
    BY <2>5, OtherFields
  <2>7. e = SendFetchGroupKeys(c, g)
    BY <2>1, <2>4
  <2>8. /\ GoodDevice(e, n, kind) /\ SameKeys(c, e) /\ e.slot = g
        /\ e.healQueue = d.healQueue \ {g}
    BY <2>2, <2>3, <2>5, <2>6, <2>7, RequestSent
  <2>9. SameKeys(d, e)
    BY <2>5, <2>8 DEF SameKeys
  <2>10. SenderKey(e) = SenderKey(d) /\ e.unsaved = d.unsaved
    BY <2>9, SameKeysMean DEF SameKeys
  <2>11. Healing(d) => Healing(e)
    BY <2>2, <2>8 DEF Healing
  <2>12. QED
    BY <2>2, <2>8, <2>10, <2>11 DEF Follows
<1>3. QED
  BY <1>1, <1>2

LEMMA KeyHealed ==
    ASSUME NEW d, NEW n, NEW kind, GoodDevice(d, n, kind), NEW g \in Groups,
           NEW e, e = HealGroupSenderKey(d, g)
    PROVE  GoodDevice(e, n, kind) /\ Follows(d, e) /\ (g = "group" => Healing(e))
<1>1. d \in DeviceRecords
  BY DEF GoodDevice
<1>2. CASE d.slot = g \/ g \in d.healQueue
  BY <1>2 DEF HealGroupSenderKey, Follows, Healing
<1>3. CASE ~(d.slot = g \/ g \in d.healQueue) /\ (~d.e2eeReady \/ d.slot # "none")
  <2>1. e = [d EXCEPT !.healQueue = d.healQueue \cup {g}]
    BY <1>3 DEF HealGroupSenderKey
  <2>2. d.healQueue \cup {g} \in SUBSET Groups
    BY <1>1 DEF DeviceRecords
  <2>3. /\ e \in DeviceRecords /\ SameKeys(d, e) /\ e.slot = d.slot /\ e.wire = d.wire
        /\ e.healQueue = d.healQueue \cup {g}
    BY <1>1, <2>1, <2>2 DEF DeviceRecords, SameKeys
  <2>4. SenderKey(e) = SenderKey(d) /\ e.unsaved = d.unsaved
    BY <2>3, SameKeysMean DEF SameKeys
  <2>5. QED
    BY <2>3, <2>4, OtherFields DEF Follows, Healing
<1>4. CASE ~(d.slot = g \/ g \in d.healQueue) /\ ~(~d.e2eeReady \/ d.slot # "none")
  <2>1. e = SendFetchGroupKeys(d, g) /\ d.slot = "none"
    BY <1>4 DEF HealGroupSenderKey
  <2>2. /\ GoodDevice(e, n, kind) /\ SameKeys(d, e)
        /\ e.slot = g /\ e.healQueue = d.healQueue
    BY <2>1, RequestSent
  <2>3. SenderKey(e) = SenderKey(d) /\ e.unsaved = d.unsaved
    BY <2>2, SameKeysMean DEF SameKeys
  <2>4. QED
    BY <2>1, <2>2, <2>3 DEF Follows, Healing
<1>5. QED
  BY <1>2, <1>3, <1>4

\* The key in use is one that was made, and nothing was encrypted with a later
\* iteration of it.
LEMMA KeyInUse ==
    ASSUME NEW d, NEW n, NEW kind, GoodDevice(d, n, kind), SenderKey(d) # NoKey
    PROVE  /\ SenderKey(d) \in [id : Nat, iteration : Nat]
           /\ SenderKey(d).id \in Keys /\ SenderKey(d).id <= n
           /\ SenderKey(d).iteration \in Nat /\ SenderKey(d).iteration <= d.count
           /\ ~d.unsaved => \A p \in d.sealed :
                 p[1] = SenderKey(d).id => p[2] <= SenderKey(d).iteration
<1>1. d \in DeviceRecords /\ Known(d, n) /\ Ahead(d)
  BY DEF GoodDevice
<1>2. CASE d.memory # NoKey
  <2>1. SenderKey(d) = d.memory /\ d.memory \in [id : Nat, iteration : Nat]
    BY <1>1, <1>2 DEF SenderKey, DeviceRecords
  <2>2. QED
    BY <1>1, <1>2, <2>1 DEF Known, Ahead
<1>3. CASE d.memory = NoKey
  <2>1. /\ d.latest # 0 /\ d.rows[d.latest].private
        /\ SenderKey(d).id = d.latest /\ SenderKey(d).iteration = d.rows[d.latest].iteration
    BY <1>3 DEF SenderKey
  <2>2. d.latest \in Keys /\ d.rows[d.latest].iteration \in Int
    BY <1>1, <2>1 DEF DeviceRecords, OwnRows
  <2>3. d.rows[d.latest].iteration \in Nat
    BY <1>1, <2>1, <2>2 DEF Known
  <2>4. SenderKey(d) = [id |-> d.latest, iteration |-> d.rows[d.latest].iteration]
    BY <1>3, <2>1 DEF SenderKey
  <2>5. d.latest \in Nat
    BY <2>2, KeyNumbers
  <2>6. SenderKey(d) \in [id : Nat, iteration : Nat]
    BY <2>3, <2>4, <2>5
  <2>7. QED
    BY <1>1, <2>1, <2>2, <2>3, <2>6 DEF Known, Ahead
<1>4. QED
  BY <1>2, <1>3

\* saveSenderKey: the row, or a copy that was not written.
KeptRow(d, k, i) == SaveSenderKey(d, k, i, TRUE)
PublicRow(d, k, i) == SaveSenderKey(d, k, i, FALSE)

Elsewhere(d, e) ==
    /\ e.slot = d.slot /\ e.healQueue = d.healQueue /\ e.wire = d.wire
    /\ e.memory = d.memory /\ e.sealed = d.sealed /\ e.count = d.count

WithRow(d, k, r) == [d EXCEPT !.latest = k, !.rows[k] = r]

LEMMA RowReplaced ==
    ASSUME NEW d \in DeviceRecords, NEW k \in Keys, NEW r \in OwnRows,
           NEW e, e = WithRow(d, k, r)
    PROVE  /\ e \in DeviceRecords /\ Elsewhere(d, e)
           /\ e.unsaved = d.unsaved /\ e.latest = k /\ e.rows[k] = r
           /\ \A j \in Keys \ {k} : e.rows[j] = d.rows[j]
<1>1. d.rows \in [Keys -> OwnRows]
  BY DEF DeviceRecords
<1>2. PICK q : q = [d.rows EXCEPT ![k] = r]
  OBVIOUS
<1>3. q \in [Keys -> OwnRows] /\ q[k] = r /\ \A j \in Keys \ {k} : q[j] = d.rows[j]
  BY <1>1, <1>2
<1>4. e = [d EXCEPT !.latest = k, !.rows = q]
  BY <1>2 DEF DeviceRecords, WithRow
<1>5. /\ e \in DeviceRecords /\ Elsewhere(d, e)
      /\ e.unsaved = d.unsaved /\ e.latest = k /\ e.rows = q
  BY <1>3, <1>4 DEF DeviceRecords, Elsewhere
<1>6. QED
  BY <1>3, <1>5

LEMMA RowSaved ==
    ASSUME NEW d \in DeviceRecords, NEW k \in Keys, NEW i \in Int,
           NEW e \in KeptRow(d, k, i)
    PROVE  /\ e \in DeviceRecords /\ Elsewhere(d, e)
           /\ \/ /\ e.unsaved = d.unsaved /\ e.latest = k
                 /\ e.rows[k].iteration = i /\ e.rows[k].private
                 /\ \A j \in Keys \ {k} : e.rows[j] = d.rows[j]
              \/ /\ ~d.unsaved /\ e.unsaved
                 /\ e.latest = d.latest /\ e.rows = d.rows
<1>1. PICK r : r = [iteration |-> i, private |-> TRUE]
  OBVIOUS
<1>2. r \in OwnRows /\ r.iteration = i /\ r.private
  BY <1>1 DEF OwnRows
<1>3. CASE e = WithRow(d, k, r)
  BY <1>2, <1>3, RowReplaced
<1>4. CASE e = [d EXCEPT !.unsaved = TRUE] /\ ~d.unsaved
  BY <1>4 DEF DeviceRecords, Elsewhere
<1>5. QED
  BY <1>1, <1>3, <1>4 DEF KeptRow, SaveSenderKey, WithRow

LEMMA PublicRowSaved ==
    ASSUME NEW d \in DeviceRecords, NEW k \in Keys, NEW i \in Int,
           NEW e \in PublicRow(d, k, i)
    PROVE  /\ e \in DeviceRecords /\ Elsewhere(d, e)
           /\ e.unsaved = d.unsaved /\ e.latest = k
           /\ e.rows[k].iteration = i /\ ~e.rows[k].private
           /\ \A j \in Keys \ {k} : e.rows[j] = d.rows[j]
<1>1. PICK r : r = [iteration |-> i, private |-> FALSE]
  OBVIOUS
<1>2. r \in OwnRows /\ r.iteration = i /\ ~r.private
  BY <1>1 DEF OwnRows
<1>3. e = WithRow(d, k, r)
  BY <1>1 DEF PublicRow, SaveSenderKey, WithRow
<1>4. QED
  BY <1>2, <1>3, RowReplaced

\* A row without the private part: the key comes from memory, or there is none.
LEMMA RowOverwritten ==
    ASSUME NEW d, NEW n, NEW kind, GoodDevice(d, n, kind), NEW k \in Keys,
           NEW i \in Nat, i <= d.count, NEW e \in PublicRow(d, k, i)
    PROVE  GoodDevice(e, n, kind) /\ Follows(d, e) /\ e.wire = d.wire /\ e.count = d.count
<1>1. d \in DeviceRecords /\ Known(d, n) /\ Ahead(d) /\ OneRequest(d, kind)
  BY DEF GoodDevice
<1>2. /\ e \in DeviceRecords
      /\ e.slot = d.slot /\ e.healQueue = d.healQueue /\ e.wire = d.wire
      /\ e.memory = d.memory /\ e.sealed = d.sealed /\ e.count = d.count
      /\ e.unsaved = d.unsaved /\ e.latest = k
      /\ e.rows[k].iteration = i /\ ~e.rows[k].private
      /\ \A j \in Keys \ {k} : e.rows[j] = d.rows[j]
  <2>1. i \in Int
    OBVIOUS
  <2>2. QED
    BY <1>1, <2>1, PublicRowSaved DEF Elsewhere
<1>3. Known(e, n)
  BY <1>1, <1>2 DEF Known
<1>4. Ahead(e)
  <2>1. \A p \in d.sealed : p[1] \in Keys
    BY <1>1 DEF DeviceRecords
  <2>2. QED
    BY <1>1, <1>2, <2>1 DEF Ahead
<1>5. OneRequest(e, kind)
  BY <1>1, <1>2 DEF OneRequest
<1>6. Follows(d, e)
  BY <1>2 DEF Follows, SenderKey, Healing
<1>7. QED
  BY <1>2, <1>3, <1>4, <1>5, <1>6 DEF GoodDevice

\* An encryption takes the next iteration of the key in use, which none took before.
LEMMA IterationTaken ==
    ASSUME NEW d, NEW n \in Nat, NEW kind, GoodDevice(d, n, kind), SenderKey(d) # NoKey,
           NEW e \in EncryptGroupMessage(d)
    PROVE  GoodDevice(e, n, kind) /\ Follows(d, e)
<1>1. d \in DeviceRecords /\ Known(d, n) /\ Ahead(d) /\ OneRequest(d, kind) /\ d.count \in Nat
  BY DEF GoodDevice, DeviceRecords
<1>2. PICK key : key = SenderKey(d)
  OBVIOUS
<1>3. /\ key \in [id : Nat, iteration : Nat] /\ key.id \in Keys /\ key.id <= n
      /\ key.iteration \in Nat /\ key.iteration <= d.count
      /\ ~d.unsaved => \A p \in d.sealed : p[1] = key.id => p[2] <= key.iteration
  BY <1>2, KeyInUse
<1>4. PICK m : m = EncryptMessage(key)
  OBVIOUS
<1>5. /\ m \in [id : Nat, iteration : Nat] /\ m.id = key.id
      /\ m.iteration = key.iteration + 1 /\ m.iteration \in Nat
  BY <1>3, <1>4 DEF EncryptMessage
<1>6. PICK q : q = d.sealed \cup {<<m.id, m.iteration>>}
  OBVIOUS
<1>7. PICK s \in SaveSenderKey(d, m.id, m.iteration, TRUE) :
        e = [s EXCEPT !.memory = m, !.count = s.count + 1,
                      !.sealed = s.sealed \cup {<<m.id, m.iteration>>}]
  BY <1>2, <1>4 DEF EncryptGroupMessage
<1>8. /\ s \in DeviceRecords
      /\ s.slot = d.slot /\ s.healQueue = d.healQueue /\ s.wire = d.wire
      /\ s.sealed = d.sealed /\ s.count = d.count
      /\ \/ /\ s.unsaved = d.unsaved /\ s.latest = m.id
            /\ s.rows[m.id].iteration = m.iteration /\ s.rows[m.id].private
            /\ \A j \in Keys \ {m.id} : s.rows[j] = d.rows[j]
         \/ /\ ~d.unsaved /\ s.unsaved
            /\ s.latest = d.latest /\ s.rows = d.rows
  <2>1. s \in KeptRow(d, m.id, m.iteration)
    BY Zenon, <1>7 DEF KeptRow
  <2>2. m.id \in Keys /\ m.iteration \in Int
    BY <1>3, <1>5
  <2>3. QED
    BY <1>1, <2>1, <2>2, RowSaved DEF Elsewhere
<1>9. e = [s EXCEPT !.memory = m, !.count = d.count + 1, !.sealed = q]
  BY <1>6, <1>7, <1>8
<1>10. q \in SUBSET (Keys \X Nat)
  <2>1. d.sealed \in SUBSET (Keys \X Nat)
    BY <1>1 DEF DeviceRecords
  <2>2. <<m.id, m.iteration>> \in Keys \X Nat
    BY <1>3, <1>5
  <2>3. QED
    BY <1>6, <2>1, <2>2
<1>11. /\ e \in DeviceRecords /\ e.memory = m /\ e.count = d.count + 1 /\ e.sealed = q
       /\ e.slot = d.slot /\ e.healQueue = d.healQueue /\ e.wire = d.wire
       /\ e.unsaved = s.unsaved /\ e.latest = s.latest /\ e.rows = s.rows
  <2>1. d.count + 1 \in Nat
    BY <1>1
  <2>2. QED
    BY <1>5, <1>8, <1>9, <1>10, <2>1 DEF DeviceRecords
<1>12. Known(e, n)
  <2>1. e.memory.id \in Keys /\ e.memory.id <= n /\ e.memory.iteration <= e.count
    BY <1>1, <1>3, <1>5, <1>11
  <2>2. ASSUME NEW k \in Keys
        PROVE  /\ e.rows[k].private => k <= n /\ e.rows[k].iteration >= 0
               /\ e.rows[k].iteration >= -1 /\ e.rows[k].iteration <= e.count
    <3>1. CASE e.rows[k] = d.rows[k]
      <4>1. d.rows[k].iteration \in Int
        BY <1>1 DEF DeviceRecords, OwnRows
      <4>2. QED
        BY <1>1, <1>11, <3>1, <4>1 DEF Known
    <3>2. CASE k = m.id /\ e.rows[k].iteration = m.iteration
      BY <1>1, <1>3, <1>5, <1>11, <3>2
    <3>3. QED
      BY <1>8, <1>11, <3>1, <3>2
  <2>3. ASSUME NEW p \in e.sealed
        PROVE  p[1] <= n /\ p[2] >= 1 /\ p[2] <= e.count
    <3>1. CASE p \in d.sealed
      <4>1. p[2] \in Nat
        BY <1>1, <3>1 DEF DeviceRecords
      <4>2. QED
        BY <1>1, <1>11, <3>1, <4>1 DEF Known
    <3>2. CASE p = <<m.id, m.iteration>>
      BY <1>1, <1>3, <1>5, <1>11, <3>2
    <3>3. QED
      BY <1>6, <1>11, <3>1, <3>2
  <2>4. QED
    BY <2>1, <2>2, <2>3 DEF Known
<1>13. Ahead(e)
  <2>1. SUFFICES ASSUME ~e.unsaved
                 PROVE  /\ IsFiniteSet(e.sealed) /\ Cardinality(e.sealed) = e.count
                        /\ \A p \in e.sealed :
                              /\ p[1] = e.memory.id => p[2] <= e.memory.iteration
                              /\ e.rows[p[1]].private => p[2] <= e.rows[p[1]].iteration
                        /\ e.memory.id = e.latest
    BY DEF Ahead
  <2>2. /\ ~d.unsaved /\ s.latest = m.id
        /\ s.rows[m.id].iteration = m.iteration
        /\ \A j \in Keys \ {m.id} : s.rows[j] = d.rows[j]
    BY <1>8, <1>11, <2>1
  <2>3. IsFiniteSet(d.sealed) /\ Cardinality(d.sealed) = d.count
    BY <1>1, <2>2 DEF Ahead
  <2>4. <<m.id, m.iteration>> \notin d.sealed
    BY <1>3, <1>5, <2>2
  <2>5. IsFiniteSet(q) /\ Cardinality(q) = d.count + 1
    BY <1>6, <2>3, <2>4, FS_AddElement
  <2>6. ASSUME NEW p \in e.sealed
        PROVE  /\ p[1] = e.memory.id => p[2] <= e.memory.iteration
               /\ e.rows[p[1]].private => p[2] <= e.rows[p[1]].iteration
    <3>1. CASE p \in d.sealed
      <4>1. p[1] \in Keys /\ p[2] \in Nat
        BY <1>1, <3>1 DEF DeviceRecords
      <4>2. /\ p[1] = m.id => p[2] <= m.iteration
            /\ d.rows[p[1]].private => p[2] <= d.rows[p[1]].iteration
        BY <1>1, <1>3, <1>5, <2>2, <3>1, <4>1 DEF Ahead
      <4>3. QED
        BY <1>11, <2>2, <4>1, <4>2
    <3>2. CASE p = <<m.id, m.iteration>>
      BY <1>5, <1>11, <2>2, <3>2
    <3>3. QED
      BY <1>6, <1>11, <3>1, <3>2
  <2>7. QED
    BY <1>11, <2>2, <2>5, <2>6
<1>14. OneRequest(e, kind)
  BY <1>1, <1>11 DEF OneRequest
<1>15. Follows(d, e)
  <2>1. e.memory # NoKey
    BY <1>3, <1>5, <1>11, KeyNumbers
  <2>2. SenderKey(e) = m
    BY <1>11, <2>1 DEF SenderKey
  <2>3. e.unsaved = d.unsaved \/ e.unsaved
    BY <1>8, <1>11
  <2>4. Healing(d) => Healing(e)
    BY <1>11 DEF Healing
  <2>5. QED
    BY <1>2, <1>5, <1>11, <2>2, <2>3, <2>4 DEF Follows
<1>16. QED
  BY <1>11, <1>12, <1>13, <1>14, <1>15 DEF GoodDevice

LEMMA GroupFlushed ==
    ASSUME NEW d, NEW n \in Nat, NEW kind, GoodDevice(d, n, kind), NEW e \in FlushGroup(d)
    PROVE  GoodDevice(e, n, kind) /\ Follows(d, e)
<1>1. CASE e = d
  BY <1>1 DEF Follows
<1>2. CASE SenderKey(d) # NoKey /\ e \in EncryptGroupMessage(d)
  BY <1>2, IterationTaken
<1>3. CASE d.slot = "none" /\ e = SendFetchGroupKeys(d, "group")
  <2>1. /\ GoodDevice(e, n, kind) /\ SameKeys(d, e)
        /\ e.slot = "group" /\ e.healQueue = d.healQueue
    BY <1>3, RequestSent DEF Groups
  <2>2. SenderKey(e) = SenderKey(d) /\ e.unsaved = d.unsaved
    BY <2>1, SameKeysMean DEF SameKeys
  <2>3. QED
    BY <1>3, <2>1, <2>2 DEF Follows, Healing
<1>4. QED
  BY <1>1, <1>2, <1>3 DEF FlushGroup

\* The answer arrived and the slot is free again.
LEMMA SlotFreed ==
    ASSUME NEW d, NEW n, NEW kind, GoodDevice(d, n, kind), kind # "none",
           NEW e, e = [d EXCEPT !.slot = "none"]
    PROVE  /\ GoodDevice(e, n, "none") /\ SameKeys(d, e) /\ e.slot = "none"
           /\ e.healQueue = d.healQueue /\ e.wire = d.wire
           /\ \A i \in DOMAIN e.wire : e.wire[i].key # 0
<1>1. d \in DeviceRecords /\ Known(d, n) /\ Ahead(d) /\ OneRequest(d, kind)
  BY DEF GoodDevice
<1>2. /\ e \in DeviceRecords /\ SameKeys(d, e) /\ e.slot = "none"
      /\ e.healQueue = d.healQueue /\ e.wire = d.wire
  BY <1>1 DEF DeviceRecords, SameKeys
<1>3. \A i \in DOMAIN e.wire : e.wire[i].key # 0
  BY <1>1, <1>2 DEF OneRequest
<1>4. OneRequest(e, "none")
  BY <1>3 DEF OneRequest
<1>5. QED
  BY <1>1, <1>2, <1>3, <1>4, SameKeysMean DEF GoodDevice

\* The next key is in memory, and nothing was encrypted with it.
LEMMA DistributionBuilt ==
    ASSUME NEW d, NEW n \in Nat, GoodDevice(d, n, "none"),
           \A i \in DOMAIN d.wire : d.wire[i].key # 0,
           n + 1 \in Keys, NEW e \in BuildDistribution(d, n + 1)
    PROVE  /\ GoodDevice(e, n + 1, "none") /\ SenderKey(e).id = n + 1 /\ SenderKey(e) # NoKey
           /\ e.slot = d.slot /\ e.healQueue = d.healQueue
           /\ d.unsaved => e.unsaved
<1>1. d \in DeviceRecords /\ Known(d, n) /\ Ahead(d) /\ OneRequest(d, "none") /\ d.count \in Nat
  BY DEF GoodDevice, DeviceRecords
<1>2. PICK k : k = n + 1
  OBVIOUS
<1>3. k \in Keys /\ k \in Nat /\ k # 0 /\ k > n
  BY <1>2, KeyNumbers
<1>4. PICK m : m = GenerateSenderKey(k)
  OBVIOUS
<1>5. m \in [id : Nat, iteration : Nat] /\ m.id = k /\ m.iteration = 0 /\ m # NoKey
  BY <1>3, <1>4, KeyNumbers DEF GenerateSenderKey
<1>6. PICK p : p = [fetch |-> "none", key |-> k]
  OBVIOUS
<1>7. p \in Packets /\ p.key = k
  BY <1>3, <1>6 DEF Packets
<1>8. PICK s \in SaveSenderKey(d, k, 0, TRUE) :
        e = [s EXCEPT !.memory = m, !.wire = Append(s.wire, p)]
  BY <1>2, <1>4, <1>6 DEF BuildDistribution
<1>9. /\ s \in DeviceRecords
      /\ s.slot = d.slot /\ s.healQueue = d.healQueue /\ s.wire = d.wire
      /\ s.sealed = d.sealed /\ s.count = d.count
      /\ \/ /\ s.unsaved = d.unsaved /\ s.latest = k
            /\ s.rows[k].iteration = 0 /\ s.rows[k].private
            /\ \A j \in Keys \ {k} : s.rows[j] = d.rows[j]
         \/ /\ ~d.unsaved /\ s.unsaved
            /\ s.latest = d.latest /\ s.rows = d.rows
  <2>1. s \in KeptRow(d, k, 0)
    BY Zenon, <1>8 DEF KeptRow
  <2>2. QED
    BY <1>1, <1>3, <2>1, RowSaved DEF Elsewhere
<1>10. PICK v : v = Append(d.wire, p)
  OBVIOUS
<1>11. /\ v \in Seq(Packets) /\ DOMAIN v = DOMAIN d.wire \cup {Len(d.wire) + 1}
       /\ v[Len(d.wire) + 1] = p /\ \A i \in DOMAIN d.wire : v[i] = d.wire[i]
  <2>1. d.wire \in Seq(Packets)
    BY <1>1 DEF DeviceRecords
  <2>2. QED
    BY <1>7, <1>10, <2>1, AppendsRequest
<1>12. e = [s EXCEPT !.memory = m, !.wire = v]
  BY <1>8, <1>9, <1>10
<1>13. /\ e \in DeviceRecords /\ e.memory = m /\ e.count = d.count /\ e.sealed = d.sealed
       /\ e.slot = d.slot /\ e.healQueue = d.healQueue /\ e.wire = v
       /\ e.unsaved = s.unsaved /\ e.latest = s.latest /\ e.rows = s.rows
  BY <1>5, <1>9, <1>11, <1>12 DEF DeviceRecords
<1>14. Known(e, k)
  <2>1. e.memory.id \in Keys /\ e.memory.id <= k /\ e.memory.iteration <= e.count
    BY <1>1, <1>3, <1>5, <1>13
  <2>2. ASSUME NEW j \in Keys
        PROVE  /\ e.rows[j].private => j <= k /\ e.rows[j].iteration >= 0
               /\ e.rows[j].iteration >= -1 /\ e.rows[j].iteration <= e.count
    <3>1. CASE e.rows[j] = d.rows[j]
      <4>1. j \in Nat
        BY KeyNumbers
      <4>2. /\ d.rows[j].private => j <= n /\ d.rows[j].iteration >= 0
            /\ d.rows[j].iteration >= -1 /\ d.rows[j].iteration <= d.count
        BY <1>1 DEF Known
      <4>3. QED
        BY <1>3, <1>13, <3>1, <4>1, <4>2
    <3>2. CASE j = k /\ e.rows[j].iteration = 0
      BY <1>1, <1>3, <1>13, <3>2
    <3>3. QED
      BY <1>9, <1>13, <3>1, <3>2
  <2>3. ASSUME NEW x \in e.sealed
        PROVE  x[1] <= k /\ x[2] >= 1 /\ x[2] <= e.count
    <3>1. x[1] \in Nat /\ x \in d.sealed
      BY <1>1, <1>13, KeyNumbers DEF DeviceRecords
    <3>2. QED
      BY <1>1, <1>3, <1>13, <3>1 DEF Known
  <2>4. QED
    BY <2>1, <2>2, <2>3 DEF Known
<1>15. Ahead(e)
  <2>1. \A x \in d.sealed : x[1] \in Keys /\ x[1] \in Nat /\ x[1] <= n
    BY <1>1, KeyNumbers DEF DeviceRecords, Known
  <2>2. \A x \in d.sealed : x[1] # k
    BY <1>3, <2>1
  <2>3. QED
    BY <1>1, <1>5, <1>9, <1>13, <2>1, <2>2 DEF Ahead
<1>16. OneRequest(e, "none")
  <2>1. \A i \in DOMAIN e.wire : e.wire[i].key # 0
    BY <1>3, <1>7, <1>11, <1>13
  <2>2. QED
    BY <2>1 DEF OneRequest
<1>17. SenderKey(e) = m
  BY <1>5, <1>13 DEF SenderKey
<1>18. QED
  BY <1>2, <1>5, <1>9, <1>13, <1>14, <1>15, <1>16, <1>17 DEF GoodDevice

\* The server took the first request: what is left are the others, in order.
LEMMA RequestTaken ==
    ASSUME NEW d, NEW n, NEW kind, GoodDevice(d, n, kind), d.wire # <<>>,
           NEW e, e = [d EXCEPT !.wire = Tail(@)]
    PROVE  /\ e \in DeviceRecords /\ SameKeys(d, e) /\ Len(e.wire) <= Len(d.wire)
           /\ e.slot = d.slot /\ e.healQueue = d.healQueue
           /\ Head(d.wire) = d.wire[1] /\ 1 \in DOMAIN d.wire /\ Head(d.wire) \in Packets
           /\ \A i \in DOMAIN e.wire : i \in Nat /\ i >= 1 /\ i + 1 \in DOMAIN d.wire
                                       /\ e.wire[i] = d.wire[i + 1]
<1>1. d \in DeviceRecords /\ d.wire \in Seq(Packets)
  BY DEF GoodDevice, DeviceRecords
<1>2. PICK v : v = Tail(d.wire)
  OBVIOUS
<1>3. /\ v \in Seq(Packets) /\ Len(v) <= Len(d.wire)
      /\ Head(d.wire) = d.wire[1] /\ 1 \in DOMAIN d.wire /\ Head(d.wire) \in Packets
      /\ \A i \in DOMAIN v : i \in Nat /\ i >= 1 /\ i + 1 \in DOMAIN d.wire
                             /\ v[i] = d.wire[i + 1]
  BY <1>1, <1>2
<1>4. e = [d EXCEPT !.wire = v]
  BY <1>2
<1>5. /\ e \in DeviceRecords /\ SameKeys(d, e) /\ e.wire = v
      /\ e.slot = d.slot /\ e.healQueue = d.healQueue
  BY <1>1, <1>3, <1>4 DEF DeviceRecords, SameKeys
<1>6. QED
  BY <1>3, <1>5

LEMMA SameKeysFollow ==
    ASSUME NEW d, NEW e, SameKeys(d, e), Healing(d) => Healing(e),
           e.slot = d.slot \/ d.slot = "none"
    PROVE  Follows(d, e)
BY SameKeysMean DEF SameKeys, Follows

-----------------------------------------------------------------------------
(***************************************************************************)
(* The steps.                                                              *)
(***************************************************************************)
LEMMA KeysInit == SenderKeyInit => SenderKeyInv
<1>1. SUFFICES ASSUME SenderKeyInit PROVE SenderKeyInv
  OBVIOUS
<1>2. PICK q : q = [k \in Keys |-> NoRow]
  OBVIOUS
<1>3. q \in [Keys -> OwnRows] /\ \A k \in Keys : ~q[k].private /\ q[k].iteration = -1
  BY <1>2 DEF OwnRows, NoRow
<1>4. /\ device.slot = "none" /\ device.healQueue = {} /\ device.memory = NoKey
      /\ device.rows = q /\ device.latest = 0 /\ device.wire = <<>>
      /\ device.sealed = {} /\ device.count = 0 /\ device.unsaved = FALSE
      /\ device.connected = FALSE /\ device.e2eeReady = FALSE /\ device.retry = FALSE
  BY <1>1, <1>2 DEF SenderKeyInit, DeviceInit
<1>5. device \in DeviceRecords
  <2>1. NoKey \in [id : Nat, iteration : Nat] /\ <<>> \in Seq(Packets)
    BY DEF NoKey
  <2>2. device = [connected |-> FALSE, e2eeReady |-> FALSE, slot |-> "none", healQueue |-> {},
                  retry |-> FALSE, memory |-> NoKey, rows |-> q,
                  latest |-> 0, wire |-> <<>>, sealed |-> {}, count |-> 0, unsaved |-> FALSE]
    BY <1>1, <1>2 DEF SenderKeyInit, DeviceInit
  <2>3. QED
    BY <1>3, <2>1, <2>2 DEF DeviceRecords
<1>6. Known(device, Len(listed)) /\ OneRequest(device, answer.kind)
  <2>1. answer.kind = "none" /\ Len(listed) = 0
    BY <1>1 DEF SenderKeyInit, NoAnswer
  <2>2. DOMAIN device.wire = {}
    BY <1>4
  <2>3. Known(device, 0)
    <3>1. device.memory.iteration = 0
      BY <1>4, KeyNumbers
    <3>2. \A k \in Keys : /\ ~device.rows[k].private /\ device.rows[k].iteration >= -1
                          /\ device.rows[k].iteration <= device.count
      BY <1>3, <1>4
    <3>3. QED
      BY <1>4, <3>1, <3>2 DEF Known
  <2>4. OneRequest(device, "none")
    BY <2>2 DEF OneRequest
  <2>5. QED
    BY <2>1, <2>3, <2>4
<1>7. Ahead(device)
  BY <1>4, FS_EmptySet DEF Ahead
<1>8. SenderKey(device) = NoKey
  BY <1>4 DEF SenderKey
<1>9. RestTyped
  <2>1. /\ answer = [kind |-> "none", to |-> {}] /\ members \subseteq Readers
        /\ missed = FALSE /\ changes = 0 /\ unheard = 0 /\ distributed = {} /\ listed = <<>>
    BY <1>1 DEF SenderKeyInit, NoAnswer
  <2>2. listed \in Seq(SUBSET Readers) /\ Len(listed) = 0
    BY <2>1
  <2>3. answer \in [kind : {"none", "keys", "empty", "busy", "refused"}, to : SUBSET Readers]
    BY <2>1
  <2>4. 0 \in 0 .. MaxChanges /\ 0 \in 0 .. 0 /\ 0 <= MaxKey
    BY SenderKeyConstants
  <2>5. QED
    BY <2>1, <2>2, <2>3, <2>4 DEF RestTyped
<1>10. QED
  BY <1>4, <1>5, <1>6, <1>7, <1>8, <1>9, KeyNumbers
  DEF SenderKeyInv, GoodDevice, WithinBounds, AnswerFits, ReplacedInTime

\* The conjuncts, with what follows from the types.
LEMMA InvariantMeans ==
    ASSUME SenderKeyInv
    PROVE  /\ GoodDevice(device, Len(listed), answer.kind) /\ WithinBounds(device)
           /\ device \in DeviceRecords /\ Known(device, Len(listed)) /\ Ahead(device)
           /\ OneRequest(device, answer.kind) /\ device.count \in Nat
           /\ Len(device.wire) \in Nat /\ device.wire \in Seq(Packets)
           /\ RestTyped /\ Len(listed) \in Nat /\ unheard \in Nat
           /\ AnswerFits /\ ReplacedInTime
<1>1. /\ GoodDevice(device, Len(listed), answer.kind) /\ WithinBounds(device)
      /\ RestTyped /\ AnswerFits /\ ReplacedInTime
  BY DEF SenderKeyInv
<1>2. /\ device \in DeviceRecords /\ Known(device, Len(listed)) /\ Ahead(device)
      /\ OneRequest(device, answer.kind)
  BY <1>1 DEF GoodDevice
<1>3. device.count \in Nat /\ device.wire \in Seq(Packets)
  BY <1>2 DEF DeviceRecords
<1>4. listed \in Seq(SUBSET Readers) /\ unheard \in 0 .. changes /\ changes \in 0 .. MaxChanges
  BY <1>1 DEF RestTyped
<1>5. Len(device.wire) \in Nat /\ Len(listed) \in Nat /\ unheard \in Nat
  BY <1>3, <1>4, SenderKeyConstants
<1>6. QED
  BY <1>1, <1>2, <1>3, <1>5

\* A step of the device that makes no key and gives nothing up.
LEMMA FollowStep ==
    ASSUME SenderKeyInv, GoodDevice(device', Len(listed), answer.kind),
           WithinBounds(device'), Follows(device, device'), distributed' \subseteq Keys,
           UNCHANGED <<answer, members, unheard, listed, missed, changes>>
    PROVE  SenderKeyInv'
<1>1. GoodDevice(device', Len(listed'), answer'.kind)
  OBVIOUS
<1>2. RestTyped'
  BY InvariantMeans DEF RestTyped
<1>3. AnswerFits'
  BY InvariantMeans DEF AnswerFits, Follows, OneRequest
<1>4. ReplacedInTime'
  BY InvariantMeans DEF ReplacedInTime, Follows
<1>5. QED
  BY <1>1, <1>2, <1>3, <1>4 DEF SenderKeyInv

\* The slot is free again and the key is as it was.
LEMMA FollowAnswered ==
    ASSUME SenderKeyInv, GoodDevice(device', Len(listed), "none"), WithinBounds(device'),
           missed' \in BOOLEAN, missed => missed',
           missed' \/ (/\ SenderKey(device') # NoKey
                            => /\ SenderKey(device) # NoKey
                               /\ SenderKey(device').id = SenderKey(device).id
                       /\ device.unsaved => device'.unsaved
                       /\ Healing(device) => Healing(device')),
           answer' = NoAnswer,
           UNCHANGED <<members, unheard, distributed, listed, changes>>
    PROVE  SenderKeyInv'
<1>1. answer'.kind = "none" /\ answer' \in [kind : {"none"}, to : SUBSET Readers]
  BY DEF NoAnswer
<1>2. GoodDevice(device', Len(listed'), answer'.kind)
  BY <1>1
<1>3. RestTyped'
  BY <1>1, InvariantMeans DEF RestTyped
<1>4. AnswerFits'
  BY <1>1 DEF AnswerFits
<1>5. ReplacedInTime'
  BY InvariantMeans DEF ReplacedInTime
<1>6. QED
  BY <1>2, <1>3, <1>4, <1>5 DEF SenderKeyInv

LEMMA BoundsKept == ASSUME NEW d, Bounded(d) PROVE WithinBounds(d)
BY DEF Bounded, WithinBounds

LEMMA LoggedInStep == SenderKeyInv /\ LoggedIn => SenderKeyInv'
<1>1. SUFFICES ASSUME SenderKeyInv, LoggedIn PROVE SenderKeyInv'
  OBVIOUS
<1>2. /\ device' = [device EXCEPT !.connected = TRUE]
      /\ UNCHANGED <<answer, members, unheard, distributed, listed, missed, changes>>
  BY <1>1 DEF LoggedIn
<1>3. /\ device' \in DeviceRecords /\ SameKeys(device, device') /\ device'.slot = device.slot
      /\ device'.wire = device.wire /\ device'.healQueue = device.healQueue
  BY <1>1, <1>2, InvariantMeans DEF DeviceRecords, SameKeys
<1>4. GoodDevice(device', Len(listed), answer.kind)
  BY <1>1, <1>3, InvariantMeans, OtherFields
<1>5. Follows(device, device')
  <2>1. Healing(device) => Healing(device')
    BY <1>3 DEF Healing
  <2>2. QED
    BY <1>3, <2>1, SameKeysFollow
<1>6. WithinBounds(device') /\ distributed' \subseteq Keys
  BY <1>1, <1>2, <1>3, InvariantMeans DEF WithinBounds, SameKeys, RestTyped
<1>7. QED
  BY <1>1, <1>2, <1>4, <1>5, <1>6, FollowStep

\* Memory is gone: if the stored key can be used, it is the one that was in memory.
LEMMA DisconnectedStep == SenderKeyInv /\ Disconnected => SenderKeyInv'
<1>1. SUFFICES ASSUME SenderKeyInv, Disconnected PROVE SenderKeyInv'
  OBVIOUS
<1>2. /\ answer' = NoAnswer /\ missed' = (missed \/ "group" \in device.healQueue
                                                  \/ device.slot = "group")
      /\ UNCHANGED <<members, unheard, distributed, listed, changes>>
  BY <1>1 DEF Disconnected
<1>3. PICK r : r = device.rows
  OBVIOUS
<1>4. device' = [DeviceInit EXCEPT !.retry = device.retry, !.rows = r,
                    !.latest = device.latest, !.sealed = device.sealed,
                    !.count = device.count, !.unsaved = device.unsaved]
  BY <1>1, <1>3 DEF Disconnected
<1>5. device' = [connected |-> FALSE, e2eeReady |-> FALSE, slot |-> "none", healQueue |-> {},
                 retry |-> device.retry, memory |-> NoKey, rows |-> r,
                 latest |-> device.latest, wire |-> <<>>, sealed |-> device.sealed,
                 count |-> device.count, unsaved |-> device.unsaved]
  BY <1>4 DEF DeviceInit
<1>6. /\ device.retry \in BOOLEAN /\ r \in [Keys -> OwnRows]
      /\ device.latest \in Keys \cup {0} /\ device.sealed \in SUBSET (Keys \X Nat)
      /\ device.count \in Nat /\ device.unsaved \in BOOLEAN
  BY <1>1, <1>3, InvariantMeans DEF DeviceRecords
<1>7. NoKey \in [id : Nat, iteration : Nat] /\ <<>> \in Seq(Packets)
  BY DEF NoKey
<1>8. device' \in DeviceRecords
  BY <1>5, <1>6, <1>7 DEF DeviceRecords
<1>9. /\ device'.memory = NoKey /\ device'.rows = device.rows
      /\ device'.latest = device.latest /\ device'.sealed = device.sealed
      /\ device'.count = device.count /\ device'.unsaved = device.unsaved
      /\ device'.wire = <<>> /\ device'.slot = "none"
  BY <1>3, <1>5
<1>10. Known(device, Len(listed)) /\ Ahead(device)
  BY <1>1, InvariantMeans
<1>11. Known(device', Len(listed))
  BY <1>6, <1>9, <1>10, KeyNumbers DEF Known
<1>12. Ahead(device')
  <2>1. \A p \in device.sealed : p[1] # 0
    BY <1>6, KeyNumbers
  <2>2. QED
    BY <1>9, <1>10, <2>1, KeyNumbers DEF Ahead
<1>13. OneRequest(device', "none")
  BY <1>9 DEF OneRequest
<1>14. GoodDevice(device', Len(listed), "none")
  BY <1>8, <1>11, <1>12, <1>13 DEF GoodDevice
<1>15. WithinBounds(device')
  BY <1>1, <1>9, InvariantMeans, KeyNumbers DEF WithinBounds
<1>16. missed' \in BOOLEAN /\ (missed => missed') /\ (~missed' => ~Healing(device))
  BY <1>1, <1>2, InvariantMeans DEF RestTyped, Healing
<1>17. CASE device.unsaved
  <2>1. ReplacedInTime'
    BY <1>9, <1>17 DEF ReplacedInTime
  <2>2. answer'.kind = "none" /\ answer' \in [kind : {"none"}, to : SUBSET Readers]
    BY <1>2 DEF NoAnswer
  <2>3. RestTyped' /\ AnswerFits' /\ GoodDevice(device', Len(listed'), answer'.kind)
    BY <1>1, <1>2, <1>14, <1>16, <2>2, InvariantMeans DEF RestTyped, AnswerFits
  <2>4. QED
    BY <1>15, <2>1, <2>3 DEF SenderKeyInv
<1>18. CASE ~device.unsaved
  <2>1. SenderKey(device') # NoKey => /\ SenderKey(device) # NoKey
                                      /\ SenderKey(device').id = SenderKey(device).id
    <3>1. CASE device.memory = NoKey
      BY <1>9, <3>1 DEF SenderKey
    <3>2. CASE device.memory # NoKey
      <4>1. SUFFICES ASSUME SenderKey(device') # NoKey
                     PROVE  SenderKey(device').id = device.memory.id
        BY <3>2 DEF SenderKey
      <4>2. /\ device.latest # 0 /\ device.rows[device.latest].private
            /\ SenderKey(device').id = device.latest
        BY <1>9, <4>1 DEF SenderKey
      <4>3. QED
        BY <1>10, <1>18, <3>2, <4>2 DEF Ahead
    <3>3. QED
      BY <3>1, <3>2
  <2>2. QED
    BY <1>1, <1>2, <1>9, <1>14, <1>15, <1>16, <2>1, FollowAnswered
<1>19. QED
  BY <1>6, <1>17, <1>18

LEMMA KeysRegisteredStep == SenderKeyInv /\ KeysRegistered => SenderKeyInv'
<1>1. SUFFICES ASSUME SenderKeyInv, KeysRegistered PROVE SenderKeyInv'
  OBVIOUS
<1>2. PICK r : r = [device EXCEPT !.e2eeReady = TRUE]
  OBVIOUS
<1>3. PICK f \in FlushGroup(r) : device' \in DrainHealQueue(f)
  BY <1>1, <1>2 DEF KeysRegistered
<1>4. /\ Bounded(device')
      /\ UNCHANGED <<answer, members, unheard, distributed, listed, missed, changes>>
  BY <1>1 DEF KeysRegistered
<1>5. /\ r \in DeviceRecords /\ SameKeys(device, r) /\ r.slot = device.slot
      /\ r.wire = device.wire /\ r.healQueue = device.healQueue
  BY <1>1, <1>2, InvariantMeans DEF DeviceRecords, SameKeys
<1>6. GoodDevice(r, Len(listed), answer.kind)
  BY <1>1, <1>5, InvariantMeans, OtherFields
<1>7. Follows(device, r)
  <2>1. Healing(device) => Healing(r)
    BY <1>5 DEF Healing
  <2>2. QED
    BY <1>5, <2>1, SameKeysFollow
<1>8. GoodDevice(f, Len(listed), answer.kind) /\ Follows(r, f)
  BY <1>1, <1>3, <1>6, InvariantMeans, GroupFlushed
<1>9. GoodDevice(device', Len(listed), answer.kind) /\ Follows(f, device')
  BY <1>3, <1>8, QueueDrained
<1>10. Follows(device, device')
  BY <1>7, <1>8, <1>9, FollowsOn
<1>11. WithinBounds(device') /\ distributed' \subseteq Keys
  BY <1>1, <1>4, InvariantMeans, BoundsKept DEF RestTyped
<1>12. QED
  BY <1>1, <1>4, <1>9, <1>10, <1>11, FollowStep

LEMMA FlushOutboxStep == SenderKeyInv /\ FlushOutbox => SenderKeyInv'
<1>1. SUFFICES ASSUME SenderKeyInv, FlushOutbox PROVE SenderKeyInv'
  OBVIOUS
<1>2. /\ device' \in FlushGroup(device) /\ Bounded(device')
      /\ UNCHANGED <<answer, members, unheard, distributed, listed, missed, changes>>
  BY <1>1 DEF FlushOutbox
<1>3. GoodDevice(device', Len(listed), answer.kind) /\ Follows(device, device')
  BY <1>1, <1>2, InvariantMeans, GroupFlushed
<1>4. WithinBounds(device') /\ distributed' \subseteq Keys
  BY <1>1, <1>2, InvariantMeans, BoundsKept DEF RestTyped
<1>5. QED
  BY <1>1, <1>2, <1>3, <1>4, FollowStep

LEMMA EditMessageStep == SenderKeyInv /\ EditMessage => SenderKeyInv'
<1>1. SUFFICES ASSUME SenderKeyInv, EditMessage PROVE SenderKeyInv'
  OBVIOUS
<1>2. /\ device' \in EncryptGroupMessage(device) /\ SenderKey(device) # NoKey
      /\ Bounded(device')
      /\ UNCHANGED <<answer, members, unheard, distributed, listed, missed, changes>>
  BY <1>1 DEF EditMessage
<1>3. GoodDevice(device', Len(listed), answer.kind) /\ Follows(device, device')
  BY <1>1, <1>2, InvariantMeans, IterationTaken
<1>4. WithinBounds(device') /\ distributed' \subseteq Keys
  BY <1>1, <1>2, InvariantMeans, BoundsKept DEF RestTyped
<1>5. QED
  BY <1>1, <1>2, <1>3, <1>4, FollowStep

\* The replacement is due, unless the list that is on its way is already too old.
LEMMA GroupChangedStep == SenderKeyInv /\ GroupChanged => SenderKeyInv'
<1>1. SUFFICES ASSUME SenderKeyInv, GroupChanged PROVE SenderKeyInv'
  OBVIOUS
<1>2. /\ device' = HealGroupSenderKey(device, "group") /\ Bounded(device')
      /\ missed' = (missed \/ (device.slot = "group" /\ answer.kind = "keys"
                               /\ answer.to # members))
      /\ UNCHANGED <<answer, members, distributed, listed, changes>>
  BY <1>1 DEF GroupChanged
<1>3. PICK n \in 1 .. unheard : unheard' = unheard - n
  BY <1>1 DEF GroupChanged
<1>4. /\ GoodDevice(device', Len(listed), answer.kind) /\ Follows(device, device')
      /\ Healing(device')
  BY <1>1, <1>2, InvariantMeans, KeyHealed DEF Groups
<1>5. WithinBounds(device')
  BY <1>2, BoundsKept
<1>6. RestTyped'
  <2>1. unheard \in Nat /\ changes \in Nat /\ unheard <= changes
    BY <1>1, InvariantMeans, SenderKeyConstants DEF RestTyped
  <2>2. unheard' \in 0 .. changes
    BY <1>3, <2>1
  <2>3. missed' \in BOOLEAN
    BY <1>1, <1>2, InvariantMeans DEF RestTyped
  <2>4. QED
    BY <1>1, <1>2, <2>2, <2>3, InvariantMeans DEF RestTyped
<1>7. AnswerFits'
  BY <1>1, <1>2, <1>4, InvariantMeans DEF AnswerFits, Follows, OneRequest
<1>8. ReplacedInTime'
  BY <1>4 DEF ReplacedInTime
<1>9. QED
  BY <1>2, <1>4, <1>5, <1>6, <1>7, <1>8 DEF SenderKeyInv

LEMMA OtherGroupChangedStep == SenderKeyInv /\ OtherGroupChanged => SenderKeyInv'
<1>1. SUFFICES ASSUME SenderKeyInv, OtherGroupChanged PROVE SenderKeyInv'
  OBVIOUS
<1>2. /\ device' = HealGroupSenderKey(device, "other") /\ Bounded(device')
      /\ UNCHANGED <<answer, members, unheard, distributed, listed, missed, changes>>
  BY <1>1 DEF OtherGroupChanged
<1>3. GoodDevice(device', Len(listed), answer.kind) /\ Follows(device, device')
  BY <1>1, <1>2, InvariantMeans, KeyHealed DEF Groups
<1>4. WithinBounds(device') /\ distributed' \subseteq Keys
  BY <1>1, <1>2, InvariantMeans, BoundsKept DEF RestTyped
<1>5. QED
  BY <1>1, <1>2, <1>3, <1>4, FollowStep

LEMMA NeedsFullSyncStep == SenderKeyInv /\ NeedsFullSync => SenderKeyInv'
<1>1. SUFFICES ASSUME SenderKeyInv, NeedsFullSync PROVE SenderKeyInv'
  OBVIOUS
<1>2. /\ unheard' = 0 /\ missed' = TRUE
      /\ UNCHANGED <<device, answer, members, distributed, listed, changes>>
  BY <1>1 DEF NeedsFullSync
<1>3. RestTyped'
  <2>1. 0 \in 0 .. changes
    BY <1>1, InvariantMeans, SenderKeyConstants DEF RestTyped
  <2>2. QED
    BY <1>1, <1>2, <2>1, InvariantMeans DEF RestTyped
<1>4. QED
  BY <1>1, <1>2, <1>3, InvariantMeans DEF SenderKeyInv, AnswerFits, ReplacedInTime

LEMMA RetryTimerStep == SenderKeyInv /\ RetryTimer => SenderKeyInv'
<1>1. SUFFICES ASSUME SenderKeyInv, RetryTimer PROVE SenderKeyInv'
  OBVIOUS
<1>2. PICK r : r = [device EXCEPT !.retry = FALSE]
  OBVIOUS
<1>3. /\ device' \in DrainHealQueue(r) /\ Bounded(device')
      /\ UNCHANGED <<answer, members, unheard, distributed, listed, missed, changes>>
  BY <1>1, <1>2 DEF RetryTimer
<1>4. /\ r \in DeviceRecords /\ SameKeys(device, r) /\ r.slot = device.slot
      /\ r.wire = device.wire /\ r.healQueue = device.healQueue
  BY <1>1, <1>2, InvariantMeans DEF DeviceRecords, SameKeys
<1>5. GoodDevice(r, Len(listed), answer.kind)
  BY <1>1, <1>4, InvariantMeans, OtherFields
<1>6. Follows(device, r)
  <2>1. Healing(device) => Healing(r)
    BY <1>4 DEF Healing
  <2>2. QED
    BY <1>4, <2>1, SameKeysFollow
<1>7. GoodDevice(device', Len(listed), answer.kind) /\ Follows(r, device')
  BY <1>3, <1>5, QueueDrained
<1>8. Follows(device, device')
  BY <1>6, <1>7, FollowsOn
<1>9. WithinBounds(device') /\ distributed' \subseteq Keys
  BY <1>1, <1>3, InvariantMeans, BoundsKept DEF RestTyped
<1>10. QED
  BY <1>1, <1>3, <1>7, <1>8, <1>9, FollowStep

\* The new key is for the members of the answer.
LEMMA GroupKeysFetchedStep == SenderKeyInv /\ GroupKeysFetched => SenderKeyInv'
<1>1. SUFFICES ASSUME SenderKeyInv, GroupKeysFetched PROVE SenderKeyInv'
  OBVIOUS
<1>2. PICK freed : freed = [device EXCEPT !.slot = "none"]
  OBVIOUS
<1>3. PICK n : n = Len(listed)
  OBVIOUS
<1>4. PICK built \in BuildDistribution(freed, n + 1) : device' \in DrainHealQueue(built)
  BY <1>1, <1>2, <1>3 DEF GroupKeysFetched
<1>5. /\ device.slot = "group" /\ answer.kind = "keys" /\ n < MaxKey /\ Bounded(device')
      /\ listed' = Append(listed, answer.to) /\ answer' = NoAnswer
      /\ UNCHANGED <<members, unheard, distributed, missed, changes>>
  BY <1>1, <1>3 DEF GroupKeysFetched
<1>6. n \in Nat /\ n + 1 \in Keys
  BY <1>1, <1>3, <1>5, InvariantMeans, SenderKeyConstants DEF Keys
<1>7. /\ GoodDevice(freed, n, "none") /\ SameKeys(device, freed)
      /\ freed.slot = "none" /\ \A i \in DOMAIN freed.wire : freed.wire[i].key # 0
  BY <1>1, <1>2, <1>3, <1>5, InvariantMeans, SlotFreed
<1>8. /\ GoodDevice(built, n + 1, "none")
      /\ SenderKey(built).id = n + 1
      /\ freed.unsaved => built.unsaved
  BY <1>4, <1>6, <1>7, DistributionBuilt
<1>9. GoodDevice(device', n + 1, "none") /\ Follows(built, device')
  BY <1>4, <1>8, QueueDrained
<1>10. /\ listed' \in Seq(SUBSET Readers) /\ Len(listed') = n + 1
       /\ listed'[n + 1] = answer.to
  <2>1. listed \in Seq(SUBSET Readers) /\ answer.to \in SUBSET Readers
    BY <1>1, InvariantMeans DEF RestTyped
  <2>2. QED
    BY <1>3, <1>5, <2>1
<1>11. /\ answer'.kind = "none"
       /\ answer' \in [kind : {"none"}, to : SUBSET Readers]
  BY <1>5 DEF NoAnswer
<1>12. GoodDevice(device', Len(listed'), answer'.kind)
  BY <1>9, <1>10, <1>11
<1>13. WithinBounds(device')
  BY <1>5, BoundsKept
<1>14. RestTyped'
  <2>1. n + 1 <= MaxKey
    BY <1>5, <1>6, SenderKeyConstants
  <2>2. QED
    BY <1>1, <1>5, <1>10, <1>11, <2>1, InvariantMeans DEF RestTyped
<1>15. AnswerFits'
  BY <1>11 DEF AnswerFits
<1>16. ReplacedInTime'
  <2>1. SUFFICES ASSUME ~missed', SenderKey(device') # NoKey
                 PROVE  unheard' > 0 \/ listed'[SenderKey(device').id] = members'
    BY DEF ReplacedInTime
  <2>2. SenderKey(device').id = n + 1
    BY <1>8, <1>9, <2>1 DEF Follows
  <2>3. answer.to = members \/ unheard > 0
    BY <1>1, <1>5, <2>1, InvariantMeans DEF AnswerFits
  <2>4. QED
    BY <1>5, <1>10, <2>2, <2>3
<1>17. QED
  BY <1>12, <1>13, <1>14, <1>15, <1>16 DEF SenderKeyInv

LEMMA GroupKeysRefusedStep == SenderKeyInv /\ GroupKeysRefused => SenderKeyInv'
<1>1. SUFFICES ASSUME SenderKeyInv, GroupKeysRefused PROVE SenderKeyInv'
  OBVIOUS
<1>2. PICK freed : freed = [device EXCEPT !.slot = "none"]
  OBVIOUS
<1>3. /\ device' \in DrainHealQueue(freed) /\ Bounded(device') /\ answer.kind # "none"
      /\ answer' = NoAnswer /\ missed' = TRUE
      /\ UNCHANGED <<members, unheard, distributed, listed, changes>>
  BY <1>1, <1>2 DEF GroupKeysRefused
<1>4. GoodDevice(freed, Len(listed), "none")
  BY <1>1, <1>2, <1>3, InvariantMeans, SlotFreed
<1>5. GoodDevice(device', Len(listed), "none")
  BY <1>3, <1>4, QueueDrained
<1>6. QED
  BY <1>1, <1>3, <1>5, BoundsKept, FollowAnswered

\* The group waits in the queue again.
LEMMA FetchBusyStep == SenderKeyInv /\ FetchBusy => SenderKeyInv'
<1>1. SUFFICES ASSUME SenderKeyInv, FetchBusy PROVE SenderKeyInv'
  OBVIOUS
<1>2. PICK freed : freed = [device EXCEPT !.slot = "none"]
  OBVIOUS
<1>3. PICK q : q = device.healQueue \cup {device.slot}
  OBVIOUS
<1>4. /\ device.slot # "none" /\ answer.kind = "busy" /\ answer' = NoAnswer
      /\ UNCHANGED <<members, unheard, distributed, listed, missed, changes>>
  BY <1>1 DEF FetchBusy
<1>5. device \in DeviceRecords /\ q \in SUBSET Groups
  BY <1>1, <1>3, <1>4, InvariantMeans DEF DeviceRecords
<1>6. device' = [device EXCEPT !.slot = "none", !.retry = TRUE, !.healQueue = q]
  BY <1>1, <1>3 DEF FetchBusy
<1>7. /\ device' \in DeviceRecords /\ device'.slot = "none" /\ device'.healQueue = q
      /\ device'.wire = device.wire /\ SameKeys(device, device')
  BY <1>5, <1>6 DEF DeviceRecords, SameKeys
<1>8. /\ GoodDevice(freed, Len(listed), "none") /\ SameKeys(device, freed)
      /\ freed.slot = "none" /\ freed.wire = device.wire
  BY <1>1, <1>2, <1>4, InvariantMeans, SlotFreed
<1>9. SameKeys(freed, device')
  BY <1>7, <1>8 DEF SameKeys
<1>10. GoodDevice(device', Len(listed), "none")
  BY <1>7, <1>8, <1>9, OtherFields
<1>11. SenderKey(device') = SenderKey(device) /\ device'.unsaved = device.unsaved
  BY <1>7, SameKeysMean DEF SameKeys
<1>12. Healing(device) => Healing(device')
  BY <1>3, <1>7 DEF Healing
<1>13. WithinBounds(device') /\ missed \in BOOLEAN
  BY <1>1, <1>7, InvariantMeans DEF WithinBounds, SameKeys, RestTyped
<1>14. QED
  BY <1>1, <1>4, <1>10, <1>11, <1>12, <1>13, FollowAnswered

LEMMA OtherKeysAnsweredStep == SenderKeyInv /\ OtherKeysAnswered => SenderKeyInv'
<1>1. SUFFICES ASSUME SenderKeyInv, OtherKeysAnswered PROVE SenderKeyInv'
  OBVIOUS
<1>2. PICK freed : freed = [device EXCEPT !.slot = "none"]
  OBVIOUS
<1>3. /\ device' \in DrainHealQueue(freed) /\ Bounded(device') /\ answer.kind # "none"
      /\ device.slot = "other" /\ answer' = NoAnswer
      /\ UNCHANGED <<members, unheard, distributed, listed, missed, changes>>
  BY <1>1, <1>2 DEF OtherKeysAnswered
<1>4. /\ GoodDevice(freed, Len(listed), "none") /\ SameKeys(device, freed)
      /\ freed.slot = "none" /\ freed.healQueue = device.healQueue
  BY <1>1, <1>2, <1>3, InvariantMeans, SlotFreed
<1>5. GoodDevice(device', Len(listed), "none") /\ Follows(freed, device')
  BY <1>3, <1>4, QueueDrained
<1>6. SenderKey(freed) = SenderKey(device) /\ freed.unsaved = device.unsaved
  BY <1>4, SameKeysMean DEF SameKeys
<1>7. Healing(device) => Healing(freed)
  BY <1>3, <1>4 DEF Healing
<1>8. /\ SenderKey(device') # NoKey
            => SenderKey(device) # NoKey /\ SenderKey(device').id = SenderKey(device).id
      /\ device.unsaved => device'.unsaved
      /\ Healing(device) => Healing(device')
  BY <1>5, <1>6, <1>7 DEF Follows
<1>9. WithinBounds(device') /\ missed \in BOOLEAN
  BY <1>1, <1>3, InvariantMeans, BoundsKept DEF RestTyped
<1>10. QED
  BY <1>1, <1>3, <1>5, <1>8, <1>9, FollowAnswered

LEMMA OwnDistributionStep ==
    ASSUME SenderKeyInv, NEW k \in Keys, OwnDistribution(k)
    PROVE  SenderKeyInv'
<1>1. /\ device' \in PublicRow(device, k, 0)
      /\ UNCHANGED <<answer, members, unheard, distributed, listed, missed, changes>>
  BY Zenon DEF OwnDistribution, PublicRow
<1>2. 0 \in Nat /\ 0 <= device.count
  BY InvariantMeans
<1>3. /\ GoodDevice(device', Len(listed), answer.kind) /\ Follows(device, device')
      /\ device'.wire = device.wire /\ device'.count = device.count
  BY <1>1, <1>2, InvariantMeans, RowOverwritten
<1>4. WithinBounds(device') /\ distributed' \subseteq Keys
  BY <1>1, <1>3, InvariantMeans DEF WithinBounds, RestTyped
<1>5. QED
  BY <1>1, <1>3, <1>4, FollowStep

LEMMA OwnMessageStep ==
    ASSUME SenderKeyInv, NEW k \in Keys, NEW n \in Iterations, OwnMessage(k, n)
    PROVE  SenderKeyInv'
<1>1. PICK i : i = IF n > device.rows[k].iteration THEN n ELSE device.rows[k].iteration
  OBVIOUS
<1>2. /\ device' \in PublicRow(device, k, i)
      /\ UNCHANGED <<answer, members, unheard, distributed, listed, missed, changes>>
  BY Zenon, <1>1 DEF OwnMessage, PublicRow
<1>3. i \in Nat /\ i <= device.count
  <2>1. <<k, n>> \in device.sealed /\ n \in Nat
    BY SenderKeyConstants DEF OwnMessage, Iterations
  <2>2. device.rows[k].iteration \in Int /\ device.count \in Nat
    BY InvariantMeans DEF DeviceRecords, OwnRows
  <2>3. n <= device.count /\ device.rows[k].iteration <= device.count
    BY <2>1, InvariantMeans DEF Known
  <2>4. QED
    BY <1>1, <2>1, <2>2, <2>3
<1>4. /\ GoodDevice(device', Len(listed), answer.kind) /\ Follows(device, device')
      /\ device'.wire = device.wire /\ device'.count = device.count
  BY <1>2, <1>3, InvariantMeans, RowOverwritten
<1>5. WithinBounds(device') /\ distributed' \subseteq Keys
  BY <1>2, <1>4, InvariantMeans DEF WithinBounds, RestTyped
<1>6. QED
  BY <1>2, <1>4, <1>5, FollowStep

\* The server's list is that of the present members.
LEMMA FetchGroupKeysRequestStep == SenderKeyInv /\ FetchGroupKeysRequest => SenderKeyInv'
<1>1. SUFFICES ASSUME SenderKeyInv, FetchGroupKeysRequest PROVE SenderKeyInv'
  OBVIOUS
<1>2. /\ device.wire # <<>> /\ Head(device.wire).key = 0
      /\ device' = [device EXCEPT !.wire = Tail(@)]
      /\ missed' = (missed /\ ~(Head(device.wire).fetch = "group" /\ answer'.kind = "keys"))
      /\ UNCHANGED <<members, unheard, distributed, listed, changes>>
  BY <1>1 DEF FetchGroupKeysRequest
<1>3. PICK kind \in {"keys", "empty", "busy", "refused"} :
        answer' = [kind |-> kind, to |-> IF kind = "keys" THEN members ELSE {}]
  BY <1>1 DEF FetchGroupKeysRequest
<1>4. /\ device' \in DeviceRecords /\ SameKeys(device, device')
      /\ Len(device'.wire) <= Len(device.wire)
      /\ device'.slot = device.slot /\ device'.healQueue = device.healQueue
      /\ Head(device.wire) = device.wire[1] /\ 1 \in DOMAIN device.wire
      /\ \A i \in DOMAIN device'.wire : i \in Nat /\ i >= 1 /\ i + 1 \in DOMAIN device.wire
                                        /\ device'.wire[i] = device.wire[i + 1]
  <2>1. GoodDevice(device, Len(listed), answer.kind)
    BY <1>1, InvariantMeans
  <2>2. device.wire # <<>> /\ device' = [device EXCEPT !.wire = Tail(@)]
    BY <1>2
  <2>3. QED
    BY <2>1, <2>2, RequestTaken
<1>5. device.slot # "none" /\ Head(device.wire).fetch = device.slot
  BY <1>1, <1>2, <1>4, InvariantMeans DEF OneRequest
<1>6. \A i \in DOMAIN device'.wire : device'.wire[i].key # 0
  <2>1. SUFFICES ASSUME NEW i \in DOMAIN device'.wire, device'.wire[i].key = 0 PROVE FALSE
    OBVIOUS
  <2>2. i \in Nat /\ i >= 1 /\ i + 1 \in DOMAIN device.wire /\ device.wire[i + 1].key = 0
    BY <1>4, <2>1
  <2>3. i + 1 = 1
    BY <1>1, <1>2, <1>4, <2>2, InvariantMeans DEF OneRequest
  <2>4. QED
    BY <2>2, <2>3
<1>7. /\ answer'.kind = kind /\ (kind = "keys" => answer'.to = members)
      /\ answer' \in [kind : {"keys", "empty", "busy", "refused"}, to : SUBSET Readers]
  BY <1>1, <1>3, InvariantMeans DEF RestTyped
<1>8. GoodDevice(device', Len(listed'), answer'.kind)
  <2>1. OneRequest(device', answer'.kind)
    BY <1>4, <1>5, <1>6 DEF OneRequest
  <2>2. QED
    BY <1>1, <1>2, <1>4, <2>1, InvariantMeans, SameKeysMean DEF GoodDevice
<1>9. WithinBounds(device')
  <2>1. device'.wire \in Seq(Packets)
    BY <1>4 DEF DeviceRecords
  <2>2. Len(device'.wire) \in Nat
    BY <2>1
  <2>3. QED
    BY <1>1, <1>4, <2>2, InvariantMeans, KeyNumbers DEF WithinBounds, SameKeys
<1>10. RestTyped'
  <2>1. missed' \in BOOLEAN
    BY <1>2
  <2>2. QED
    BY <1>1, <1>2, <1>7, <2>1, InvariantMeans DEF RestTyped
<1>11. AnswerFits'
  BY <1>2, <1>7 DEF AnswerFits
<1>12. ReplacedInTime'
  <2>1. CASE missed /\ ~missed'
    <3>1. device'.slot = "group"
      BY <1>2, <1>4, <1>5, <2>1
    <3>2. QED
      BY <3>1 DEF ReplacedInTime, Healing
  <2>2. CASE missed = missed'
    <3>1. SenderKey(device') = SenderKey(device) /\ device'.unsaved = device.unsaved
      BY <1>4, SameKeysMean DEF SameKeys
    <3>2. Healing(device') = Healing(device)
      BY <1>4 DEF Healing
    <3>3. QED
      BY <1>1, <1>2, <2>2, <3>1, <3>2, InvariantMeans DEF ReplacedInTime
  <2>3. missed \in BOOLEAN
    BY <1>1, InvariantMeans DEF RestTyped
  <2>4. QED
    BY <1>2, <2>1, <2>2, <2>3
<1>13. QED
  BY <1>8, <1>9, <1>10, <1>11, <1>12 DEF SenderKeyInv

LEMMA SendDistributionRequestStep == SenderKeyInv /\ SendDistributionRequest => SenderKeyInv'
<1>1. SUFFICES ASSUME SenderKeyInv, SendDistributionRequest PROVE SenderKeyInv'
  OBVIOUS
<1>2. /\ device.wire # <<>> /\ Head(device.wire).key # 0
      /\ device' = [device EXCEPT !.wire = Tail(@)]
      /\ distributed' \in {distributed, distributed \cup {Head(device.wire).key}}
      /\ UNCHANGED <<answer, members, unheard, listed, missed, changes>>
  BY <1>1 DEF SendDistributionRequest
<1>3. /\ device' \in DeviceRecords /\ SameKeys(device, device')
      /\ Len(device'.wire) <= Len(device.wire)
      /\ device'.slot = device.slot /\ device'.healQueue = device.healQueue
      /\ Head(device.wire) \in Packets
      /\ \A i \in DOMAIN device'.wire : i \in Nat /\ i >= 1 /\ i + 1 \in DOMAIN device.wire
                                        /\ device'.wire[i] = device.wire[i + 1]
  <2>1. GoodDevice(device, Len(listed), answer.kind)
    BY <1>1, InvariantMeans
  <2>2. device.wire # <<>> /\ device' = [device EXCEPT !.wire = Tail(@)]
    BY <1>2
  <2>3. QED
    BY <2>1, <2>2, RequestTaken
<1>4. OneRequest(device', answer.kind)
  <2>1. device'.slot = "none" => answer.kind = "none"
    BY <1>1, <1>3, InvariantMeans DEF OneRequest
  <2>2. \A i \in DOMAIN device'.wire : device'.wire[i].key = 0 =>
           device'.slot # "none" /\ device'.wire[i].fetch = device'.slot /\ answer.kind = "none"
    BY <1>1, <1>3, InvariantMeans DEF OneRequest
  <2>3. ASSUME NEW i \in DOMAIN device'.wire, NEW j \in DOMAIN device'.wire,
               device'.wire[i].key = 0, device'.wire[j].key = 0
        PROVE  i = j
    <3>1. i \in Nat /\ j \in Nat /\ i + 1 = j + 1
      BY <1>1, <1>3, <2>3, InvariantMeans DEF OneRequest
    <3>2. QED
      BY <3>1
  <2>4. QED
    BY <2>1, <2>2, <2>3 DEF OneRequest
<1>5. GoodDevice(device', Len(listed), answer.kind)
  BY <1>1, <1>3, <1>4, InvariantMeans, SameKeysMean DEF GoodDevice
<1>6. Follows(device, device')
  <2>1. Healing(device) => Healing(device')
    BY <1>3 DEF Healing
  <2>2. QED
    BY <1>3, <2>1, SameKeysFollow
<1>7. WithinBounds(device')
  <2>1. device'.wire \in Seq(Packets)
    BY <1>3 DEF DeviceRecords
  <2>2. Len(device'.wire) \in Nat
    BY <2>1
  <2>3. QED
    BY <1>1, <1>3, <2>2, InvariantMeans, KeyNumbers DEF WithinBounds, SameKeys
<1>8. distributed' \subseteq Keys
  <2>1. Head(device.wire).key \in Keys
    BY <1>2, <1>3 DEF Packets
  <2>2. QED
    BY <1>1, <1>2, <2>1, InvariantMeans DEF RestTyped
<1>9. QED
  BY <1>1, <1>2, <1>5, <1>6, <1>7, <1>8, FollowStep

\* The device will hear of it.
LEMMA MembershipChangeStep ==
    ASSUME SenderKeyInv, NEW u \in Readers, MembershipChange(u)
    PROVE  SenderKeyInv'
<1>1. /\ changes < MaxChanges /\ changes' = changes + 1 /\ unheard' = unheard + 1
      /\ members' = (IF u \in members THEN members \ {u} ELSE members \cup {u})
      /\ UNCHANGED <<device, answer, distributed, listed, missed>>
  BY DEF MembershipChange
<1>2. changes' \in 0 .. MaxChanges /\ unheard' \in 0 .. changes' /\ unheard' > 0
  <2>1. changes \in 0 .. MaxChanges /\ unheard \in 0 .. changes
    BY InvariantMeans DEF RestTyped
  <2>2. QED
    BY <1>1, <2>1, SenderKeyConstants
<1>3. RestTyped'
  <2>1. members' \subseteq Readers
    BY <1>1, InvariantMeans DEF RestTyped
  <2>2. QED
    BY <1>1, <1>2, <2>1, InvariantMeans DEF RestTyped
<1>4. QED
  BY <1>1, <1>2, <1>3, InvariantMeans DEF SenderKeyInv, AnswerFits, ReplacedInTime

LEMMA SenderKeyStep == SenderKeyInv /\ [SenderKeyNext]_senderKeyVars => SenderKeyInv'
<1>1. SUFFICES ASSUME SenderKeyInv, [SenderKeyNext]_senderKeyVars PROVE SenderKeyInv'
  OBVIOUS
<1>2. CASE UNCHANGED senderKeyVars
  BY <1>1, <1>2 DEF senderKeyVars, SenderKeyInv, RestTyped, AnswerFits, ReplacedInTime
<1>3. CASE SenderKeyNext
  BY <1>1, <1>3, LoggedInStep, DisconnectedStep, KeysRegisteredStep, FlushOutboxStep,
     EditMessageStep, GroupChangedStep, OtherGroupChangedStep, NeedsFullSyncStep,
     RetryTimerStep, GroupKeysFetchedStep, GroupKeysRefusedStep, FetchBusyStep,
     OtherKeysAnsweredStep, OwnDistributionStep, OwnMessageStep,
     FetchGroupKeysRequestStep, SendDistributionRequestStep, MembershipChangeStep
  DEF SenderKeyNext
<1>4. QED
  BY <1>1, <1>2, <1>3

THEOREM SenderKeyInvariant == SenderKeySpec => []SenderKeyInv
BY KeysInit, SenderKeyStep, PTL DEF SenderKeySpec

-----------------------------------------------------------------------------
(***************************************************************************)
(* What it gives.                                                          *)
(***************************************************************************)
\* Every field of the device keeps its kind, within the bounds.
THEOREM SenderKeyTypeCorrect == SenderKeySpec => []SenderKeyTypeOK
<1>1. SenderKeyInv => SenderKeyTypeOK
  <2>1. SUFFICES ASSUME SenderKeyInv PROVE SenderKeyTypeOK
    OBVIOUS
  <2>2. /\ device.connected \in BOOLEAN /\ device.e2eeReady \in BOOLEAN
        /\ device.slot \in Groups \cup {"none"} /\ device.healQueue \subseteq Groups
        /\ device.retry \in BOOLEAN /\ device.unsaved \in BOOLEAN
        /\ device.memory \in [id : Nat, iteration : Nat] /\ device.rows \in [Keys -> OwnRows]
        /\ device.latest \in Keys \cup {0} /\ device.wire \in Seq(Packets)
        /\ device.sealed \in SUBSET (Keys \X Nat) /\ device.count \in Nat
    BY <2>1, InvariantMeans DEF DeviceRecords
  <2>3. Known(device, Len(listed)) /\ Len(device.wire) <= MaxWire /\ device.count <= MaxSealed
    BY <2>1, InvariantMeans DEF WithinBounds
  <2>4. device.memory \in [id : Keys \cup {0}, iteration : Iterations \cup {0}]
    <3>1. device.memory.id \in Keys \cup {0}
      BY <2>3, KeyNumbers DEF Known
    <3>2. device.memory.iteration \in Nat /\ device.memory.iteration <= MaxSealed
      BY <2>2, <2>3, KeyNumbers DEF Known
    <3>3. device.memory.iteration \in Iterations \cup {0}
      BY <3>2, KeyNumbers DEF Iterations
    <3>4. QED
      BY <2>2, <3>1, <3>3
  <2>5. device.rows \in [Keys -> [iteration : Iterations \cup {0, -1}, private : BOOLEAN]]
    <3>1. ASSUME NEW k \in Keys
          PROVE  device.rows[k] \in [iteration : Iterations \cup {0, -1}, private : BOOLEAN]
      <4>1. /\ device.rows[k] \in OwnRows /\ device.rows[k].iteration \in Int
            /\ device.rows[k].iteration >= -1 /\ device.rows[k].iteration <= device.count
        BY <2>2, <2>3 DEF Known, OwnRows
      <4>2. device.rows[k].iteration \in Iterations \cup {0, -1}
        BY <2>2, <2>3, <4>1, KeyNumbers DEF Iterations
      <4>3. QED
        BY <4>1, <4>2 DEF OwnRows
    <3>2. QED
      BY <2>2, <3>1
  <2>6. device.sealed \subseteq Keys \X Iterations /\ device.count \in 0 .. MaxSealed
    <3>1. device.count \in 0 .. MaxSealed
      BY <2>2, <2>3, KeyNumbers
    <3>2. ASSUME NEW p \in device.sealed PROVE p \in Keys \X Iterations
      <4>1. p[1] \in Keys /\ p[2] \in Nat /\ p = <<p[1], p[2]>>
        BY <2>2
      <4>2. p[2] >= 1 /\ p[2] <= device.count
        BY <2>3 DEF Known
      <4>3. p[2] \in Iterations
        BY <3>1, <4>1, <4>2, KeyNumbers DEF Iterations
      <4>4. QED
        BY <4>1, <4>3
    <3>3. QED
      BY <3>1, <3>2
  <2>7. unheard \in 0 .. MaxChanges
    BY <2>1, InvariantMeans, SenderKeyConstants DEF RestTyped
  <2>8. QED
    BY <2>1, <2>2, <2>3, <2>4, <2>5, <2>6, <2>7, InvariantMeans
    DEF SenderKeyTypeOK, RestTyped, Packets
<1>2. QED
  BY <1>1, SenderKeyInvariant, PTL

\* No key encrypts two messages with the same iteration, whatever was lost with the
\* connection or overwritten in the store, as long as every row was written.
THEOREM IterationsAreUsedOnce == SenderKeySpec => []NoIterationTwice
<1>1. SenderKeyInv => NoIterationTwice
  BY InvariantMeans DEF Ahead, NoIterationTwice
<1>2. QED
  BY <1>1, SenderKeyInvariant, PTL

\* Once every change was heard and no request is under way, the key in use is that
\* of the present members, except where the code gives the replacement up.
THEOREM KeysFollowMembers == SenderKeySpec => []KeyFitsMembers
<1>1. SenderKeyInv => KeyFitsMembers
  BY InvariantMeans DEF ReplacedInTime, KeyFitsMembers, Settled, Healing
<1>2. QED
  BY <1>1, SenderKeyInvariant, PTL

-----------------------------------------------------------------------------
(***************************************************************************)
(* The device that reads: the order in which messages and edits arrive,    *)
(* their repetition and the failure of any write cost no message but those *)
(* whose key was dropped or not written.                                   *)
(***************************************************************************)
\* Every number the chain has passed is accounted for: this is why a refusal is
\* justified, and what saving the skipped keys has to keep true.
RatchetInv ==
    /\ RatchetTypeOK
    /\ PassedIsKnown
    /\ OrderCostsNothing

-----------------------------------------------------------------------------
\* The limit on skipped keys only takes keys away (the sorted removal at the
\* end of decryptMessage).
LEMMA KeptIsSubset ==
    ASSUME NEW keys
    PROVE  Kept(keys) \subseteq keys
BY DEF Kept

\* The keys the chain goes over are numbers of messages.
LEMMA CrossedAreNumbers ==
    ASSUME RatchetTypeOK, NEW n \in Numbers, KeyLoaded
    PROVE  Crossed(n) \subseteq Numbers
BY RatchetConstants DEF RatchetTypeOK, Numbers, Crossed, KeyLoaded, NoChain

\* What saving does to the account, whichever of its writes fail: if the
\* numbers up to the new chain are known with the keys to be saved, and those
\* up to the old one are, they are known afterwards.
LEMMA SaveKeepsAccount ==
    ASSUME RatchetInv,
           NEW n \in Numbers,
           NEW newChain \in Numbers \cup {0},
           NEW keys \in SUBSET Numbers,
           \A k \in Numbers : k <= newChain => k \in opened \cup {n} \cup keys \cup dropped,
           skipped \ {n} \subseteq keys,
           Save(n, newChain, keys)
    PROVE  RatchetInv'
<1> USE KeptIsSubset
<1>1. PICK chainWritten \in BOOLEAN, keysWritten \in BOOLEAN :
        /\ opened' = opened \cup {n}
        /\ chain' = IF chainWritten THEN newChain ELSE chain
        /\ skipped' = IF keysWritten THEN Kept(keys) ELSE skipped
        /\ dropped' = dropped \cup CASE keysWritten -> keys \ Kept(keys)
                                     [] chainWritten /\ ~keysWritten -> keys \ skipped
                                     [] OTHER -> {}
        /\ UNCHANGED <<prekeyHeld, refused>>
  BY Zenon DEF Save
<1>2. CASE keysWritten
  <2>1. skipped' = Kept(keys) /\ dropped' = dropped \cup (keys \ Kept(keys))
    BY <1>1, <1>2
  <2>2. RatchetTypeOK'
    BY <1>1, <2>1 DEF RatchetInv, RatchetTypeOK
  <2>3. PassedIsKnown'
    BY <1>1, <2>1 DEF RatchetInv, PassedIsKnown
  <2>4. OrderCostsNothing'
    BY <1>1, <2>1 DEF RatchetInv, OrderCostsNothing
  <2>5. QED
    BY <2>2, <2>3, <2>4 DEF RatchetInv
<1>3. CASE chainWritten /\ ~keysWritten
  <2>1. skipped' = skipped /\ dropped' = dropped \cup (keys \ skipped)
    BY <1>1, <1>3
  <2>2. RatchetTypeOK'
    BY <1>1, <2>1 DEF RatchetInv, RatchetTypeOK
  <2>3. PassedIsKnown'
    BY <1>1, <1>3, <2>1 DEF RatchetInv, PassedIsKnown
  <2>4. OrderCostsNothing'
    BY <1>1, <2>1 DEF RatchetInv, OrderCostsNothing
  <2>5. QED
    BY <2>2, <2>3, <2>4 DEF RatchetInv
<1>4. CASE ~chainWritten /\ ~keysWritten
  <2>1. skipped' = skipped /\ dropped' = dropped /\ chain' = chain
    BY <1>1, <1>4
  <2>2. QED
    BY <1>1, <2>1 DEF RatchetInv, RatchetTypeOK, PassedIsKnown, OrderCostsNothing
<1>5. QED
  BY <1>2, <1>3, <1>4

-----------------------------------------------------------------------------
LEMMA RatchetInitInv == RatchetInit => RatchetInv
BY RatchetConstants
DEF RatchetInit, RatchetInv, RatchetTypeOK, PassedIsKnown, OrderCostsNothing, Numbers, NoChain

LEMMA RatchetStep == RatchetInv /\ [RatchetNext]_ratchetVars => RatchetInv'
<1> SUFFICES ASSUME RatchetInv, [RatchetNext]_ratchetVars
             PROVE  RatchetInv'
  OBVIOUS
<1>1. CASE Install
  <2>1. RatchetTypeOK' /\ OrderCostsNothing'
    BY <1>1 DEF Install, RatchetInv, RatchetTypeOK, OrderCostsNothing
  <2>2. PassedIsKnown'
    <3>1. CASE chain' = chain
      BY <1>1, <3>1 DEF Install, RatchetInv, PassedIsKnown
    <3>2. CASE chain' = 0
      BY <3>2, RatchetConstants DEF PassedIsKnown, Numbers
    <3>3. QED
      BY <1>1, <3>1, <3>2 DEF Install
  <2>3. QED
    BY <2>1, <2>2 DEF RatchetInv
<1>2. ASSUME NEW n \in Numbers, OpenSkipped(n)
      PROVE  RatchetInv'
  <2>1. Save(n, chain, skipped \ {n}) /\ chain \in Numbers \cup {0}
    BY <1>2 DEF OpenSkipped, KeyLoaded, RatchetInv, RatchetTypeOK
  <2>2. \A k \in Numbers :
           k <= chain => k \in opened \cup {n} \cup (skipped \ {n}) \cup dropped
    BY DEF RatchetInv, PassedIsKnown
  <2>3. skipped \ {n} \in SUBSET Numbers
    BY DEF RatchetInv, RatchetTypeOK
  <2>4. QED
    BY <2>1, <2>2, <2>3, SaveKeepsAccount
<1>3. ASSUME NEW n \in Numbers, OpenAhead(n)
      PROVE  RatchetInv'
  <2>1. Save(n, n, skipped \cup Crossed(n)) /\ chain # NoChain /\ KeyLoaded
    BY <1>3 DEF OpenAhead, KeyLoaded
  <2>2. skipped \cup Crossed(n) \in SUBSET Numbers
    BY <2>1, CrossedAreNumbers DEF RatchetInv, RatchetTypeOK
  <2>3. \A k \in Numbers :
           k <= n => k \in opened \cup {n} \cup (skipped \cup Crossed(n)) \cup dropped
    <3> SUFFICES ASSUME NEW k \in Numbers, k <= n, k # n
                 PROVE  k \in opened \cup skipped \cup Crossed(n) \cup dropped
      OBVIOUS
    <3>1. CASE k <= chain
      BY <3>1 DEF RatchetInv, PassedIsKnown
    <3>2. CASE ~(k <= chain)
      BY <2>1, <3>2, RatchetConstants
      DEF RatchetInv, RatchetTypeOK, Crossed, Numbers, NoChain
    <3>3. QED
      BY <3>1, <3>2
  <2>4. skipped \ {n} \subseteq skipped \cup Crossed(n)
    OBVIOUS
  <2>5. QED
    BY <2>1, <2>2, <2>3, <2>4, SaveKeepsAccount
<1>4. ASSUME NEW n \in Numbers, Refuse(n)
      PROVE  RatchetInv'
  BY <1>4 DEF Refuse, RatchetInv, RatchetTypeOK, PassedIsKnown, OrderCostsNothing
<1>5. CASE UNCHANGED ratchetVars
  BY <1>5 DEF ratchetVars, RatchetInv, RatchetTypeOK, PassedIsKnown, OrderCostsNothing
<1>6. QED
  BY <1>1, <1>2, <1>3, <1>4, <1>5 DEF RatchetNext

\* In every behaviour of the ratchet a refused number was opened before, or its
\* key went over MaxSkippedMessageKeys or was not written: the order in which
\* push and synchronisation deliver costs nothing (decryptMessage and
\* decryptGroupMessageObject).
THEOREM RatchetKeepsEveryKey == RatchetSpec => []OrderCostsNothing
<1>1. RatchetInv => OrderCostsNothing
  BY DEF RatchetInv
<1>2. QED
  BY RatchetInitInv, RatchetStep, <1>1, PTL DEF RatchetSpec

-----------------------------------------------------------------------------
(***************************************************************************)
(* The parts side by side, as one run explores them.                       *)
(***************************************************************************)

\* What holds of a part on its own holds of it in MCGroups: a step of another
\* part leaves its variables alone.
LEMMA GroupPartsBehave == PartsSpec => Spec /\ SenderKeySpec /\ RatchetSpec
<1>1. PartsInit => Init /\ SenderKeyInit /\ RatchetInit
  BY DEF PartsInit
<1>2. [PartsNext]_groupParts =>
        /\ [Next]_vars /\ [SenderKeyNext]_senderKeyVars /\ [RatchetNext]_ratchetVars
  BY Zenon DEF PartsNext, groupParts
<1>3. QED
  BY <1>1, <1>2, PTL DEF PartsSpec, Spec, SenderKeySpec, RatchetSpec

\* Every part keeps its types.
THEOREM GroupPartsTyped == PartsSpec => []PartsTypeOK
<1>1. PartsInit => part \in Parts
  BY DEF PartsInit
<1>2. part \in Parts /\ [PartsNext]_groupParts => (part \in Parts)'
  BY DEF PartsNext, groupParts
<1>3. PartsSpec => [](part \in Parts)
  BY <1>1, <1>2, PTL DEF PartsSpec
<1>4. RatchetSpec => []RatchetTypeOK
  <2>1. RatchetInv => RatchetTypeOK
    BY DEF RatchetInv
  <2>2. QED
    BY <2>1, RatchetInitInv, RatchetStep, PTL DEF RatchetSpec
<1>5. part \in Parts /\ TypeOK /\ SenderKeyTypeOK /\ RatchetTypeOK => PartsTypeOK
  BY DEF PartsTypeOK
<1>6. QED
  BY <1>3, <1>4, <1>5, GroupPartsBehave, GroupTypeCorrect, SenderKeyTypeCorrect, PTL
=============================================================================
