-------------------------- MODULE MessageEditsProofs --------------------------
(***************************************************************************)
(* Theorems about MessageEdits, for any number of devices, any page size   *)
(* and any bounds.                                                         *)
(*                                                                         *)
(* The inductive invariant has layers, each resting on those before it:    *)
(*   TypeInv    types, and what every request, answer, push and event      *)
(*              says of its envelope                                       *)
(*   FlightInv  on a connection at most one edit is on its way, and its    *)
(*              text waits, unless another was begun meanwhile             *)
(*   LocalInv   row, cache and used prekeys of a device agree              *)
(*   PageInv    a page without a hole leaves no event out                  *)
(*   StreamInv  whatever the log says up to the cursor has been seen       *)
(*   OwnCacheInv  the device that made the row's envelope holds its text   *)
(*   DeleteInv  while the row is not deleted nothing speaks of a deletion  *)
(*   FreshInv   no envelope is announced twice                             *)
(*   OrderInv   the log ends with the edit that the row holds              *)
(*   ReaderInv  a reader has opened all edits before one it opened         *)
(* TakePage folds a page over a device's local state; what a page does is  *)
(* shown place by place, with the set of places at which it holds (UpTo).  *)
(***************************************************************************)
EXTENDS MessageEdits, FiniteSetTheorems, WellFoundedInduction, TLAPS

-----------------------------------------------------------------------------
Requests(d) == {inbox[d][i] : i \in 1 .. Len(inbox[d])}
Answers(d) == {replies[d][i] : i \in 1 .. Len(replies[d])}
Pushed(d) == {pushes[d][i] : i \in 1 .. Len(pushes[d])}

MadeRecords == [text : Nat, by : Authors]
EventRecords == [to : Users, kind : {"other", "message", "edit", "delete"}, env : Nat,
                 by : Authors]
JobRecords == [kind : {"none", "edit", "delete", "sync"}, arg : Nat, todo : SUBSET Users]
RequestRecords == [kind : {"sync", "fetch", "edit", "delete", "open"}, arg : Nat]
ReplyKinds == {"edit", "delete", "open", "full", "sync"}
ReplyRecords == [kind : ReplyKinds, arg : Nat, ok : BOOLEAN, page : SUBSET Nat]
RowRecords == [has : BOOLEAN, text : Nat, deleted : BOOLEAN]
LocalRecords == [row : RowRecords, cache : Nat, used : SUBSET Nat]

\* An edit carries an envelope of the device that made it, made after the first.
GoodEdit(e, d) == d \in Authors /\ e \in 2 .. Len(made) /\ made[e].by = d

GoodEvent(i) ==
    /\ log[i].kind = "edit" => GoodEdit(log[i].env, log[i].by)
    /\ log[i].kind = "message" => log[i].env = 1
    /\ log[i].kind \in {"other", "delete"} => log[i].env = 0

LogTyped ==
    /\ log \in Seq(EventRecords) /\ 4 <= Len(log)
    /\ log[3].to = "reader" /\ log[3].kind = "message"
    /\ log[4].to = "author" /\ log[4].kind = "message"
    /\ \A i \in 1 .. 2 : log[i].kind = "other"
    /\ \A i \in 1 .. Len(log) : GoodEvent(i)

ServerTyped ==
    /\ made \in Seq(MadeRecords) /\ 1 <= Len(made)
    /\ \A e \in 1 .. Len(made) : made[e].text \in 1 .. texts
    /\ row \in [env : Nat, deleted : BOOLEAN] /\ row.env <= Len(made)
    /\ (row.deleted <=> row.env = 0)
    /\ pruned \in Nat /\ watermark \in Nat /\ marking \in Nat
    /\ pruned <= Len(log) /\ watermark <= pruned /\ marking <= pruned
    /\ texts \in Nat /\ acts \in Nat
    /\ 1 <= texts /\ texts <= acts + 1 /\ acts <= MaxActs

GoodJob(d) ==
    /\ job[d].kind = "none" => job[d] = NoJob
    /\ job[d].kind = "edit" => job[d].todo # {} /\ GoodEdit(job[d].arg, d)
    /\ job[d].kind = "delete" => job[d].todo # {} /\ d \in Authors /\ job[d].arg = 0
    /\ job[d].kind = "sync" => job[d].todo = {} /\ job[d].arg <= Len(log)

JobsTyped == job \in [Devices -> JobRecords] /\ \A d \in Devices : GoodJob(d)

GoodRequest(d, q) ==
    /\ q.kind = "edit" => GoodEdit(q.arg, d)
    /\ q.kind \in {"fetch", "delete"} => d \in Authors
    /\ q.kind = "sync" => q.arg <= Len(log)

GoodReply(d, r) ==
    /\ r.kind = "edit" => GoodEdit(r.arg, d)
    /\ r.kind = "open" => r.arg <= Len(made)
    /\ r.kind \in {"sync", "full"} => r.arg <= Len(log)
    /\ r.kind = "sync" => r.page \subseteq OwnEvents(d, r.arg, Len(log))

GoodPush(d, i) == i \in OwnEvents(d, 0, Len(log)) /\ log[i].kind \in {"edit", "delete"}

QueuesTyped ==
    /\ inbox \in [Devices -> Seq(RequestRecords)]
    /\ replies \in [Devices -> Seq(ReplyRecords)]
    /\ pushes \in [Devices -> Seq(Nat)]

NetTyped ==
    /\ online \subseteq Devices
    /\ \A d \in Devices :
        /\ \A q \in Requests(d) : GoodRequest(d, q)
        /\ \A r \in Answers(d) : GoodReply(d, r)
        /\ \A i \in Pushed(d) : GoodPush(d, i)
        /\ d \notin online => inbox[d] = <<>> /\ replies[d] = <<>> /\ pushes[d] = <<>>

\* The local state l = [row, cache, used] of d, by its own.
LocalTyped(d, l) ==
    /\ l \in LocalRecords /\ l.row.text <= texts /\ l.cache <= texts
    /\ l.used \subseteq 1 .. Len(made) /\ (d \in Authors => l.used = {})
    /\ ~l.row.has => l.row = NoRow

DevicesTyped ==
    /\ store \in [Devices -> RowRecords]
    /\ cache \in [Devices -> Nat] /\ edit \in [Devices -> Nat] /\ cursor \in [Devices -> Nat]
    /\ used \in [Devices -> SUBSET Nat] /\ slips \in [Devices -> SUBSET Slips]
    /\ \A d \in Devices :
        /\ LocalTyped(d, Local(d)) /\ edit[d] <= texts /\ cursor[d] <= Len(log)

TypeInv ==
    LogTyped /\ ServerTyped /\ JobsTyped /\ QueuesTyped /\ NetTyped /\ DevicesTyped

-----------------------------------------------------------------------------
(***************************************************************************)
(* Numbers and sequences.                                                  *)
(***************************************************************************)
LEMMA EditNumbers ==
    /\ MaxActs \in Nat /\ PageLimit \in Nat /\ PageLimit >= 1 /\ Origin \in Authors
    /\ Authors \subseteq Devices /\ Readers \subseteq Devices
    /\ \A d \in Devices : d \in Authors <=> d \notin Readers
    /\ \A d \in Devices : UserOf(d) = IF d \in Readers THEN "reader" ELSE "author"
BY EditConstants DEF Devices, UserOf

\* Every set of numbers that has a member has a least one.
LEMMA Least ==
    ASSUME NEW S \in SUBSET Nat, S # {}
    PROVE  \E x \in S : \A y \in S : x <= y
<1>1. PICK R : R = OpToRel(<, Nat)
  OBVIOUS
<1>2. IsWellFoundedOn(R, Nat)
  BY <1>1, NatLessThanWellFounded
<1>3. PICK x \in S : \A y \in S : ~ (<<y, x>> \in R)
  BY <1>2, WFMin
<1>4. \A a, b \in Nat : a < b => <<a, b>> \in R
  BY <1>1 DEF OpToRel
<1>5. \A y \in S : ~(y < x)
  BY <1>3, <1>4
<1>6. QED
  BY <1>5

\* Induction, for a set of numbers.
LEMMA Induction ==
    ASSUME NEW S, 0 \in S, \A n \in Nat : n \in S => n + 1 \in S
    PROVE  Nat \subseteq S
<1>1. SUFFICES ASSUME Nat \ S # {} PROVE FALSE
  OBVIOUS
<1>2. PICK x \in Nat \ S : \A y \in Nat \ S : x <= y
  BY <1>1, Least
<1>3. x - 1 \in Nat /\ x - 1 \notin Nat \ S
  BY <1>2
<1>4. QED
  BY <1>2, <1>3

\* A bounded set of numbers that has a member has a greatest one.
LEMMA Greatest ==
    ASSUME NEW n \in Nat, NEW S \in SUBSET (0 .. n), S # {}
    PROVE  \E x \in S : \A y \in S : y <= x
<1>1. PICK D : D = {n - x : x \in S}
  OBVIOUS
<1>2. D \in SUBSET Nat /\ D # {}
  <2>1. \A x \in S : n - x \in Nat
    OBVIOUS
  <2>2. QED
    BY <1>1, <2>1
<1>3. PICK m \in D : \A y \in D : m <= y
  BY <1>2, Least
<1>4. PICK x \in S : m = n - x
  BY <1>1, <1>3
<1>5. \A y \in S : n - x <= n - y
  BY <1>1, <1>3, <1>4
<1>6. QED
  BY <1>5

LEMMA Appended ==
    ASSUME NEW S, NEW q \in Seq(S), NEW x \in S, NEW p, p = Append(q, x)
    PROVE  /\ p \in Seq(S) /\ Len(p) = Len(q) + 1 /\ Len(q) \in Nat /\ p # <<>>
           /\ p[Len(q) + 1] = x /\ \A i \in 1 .. Len(q) : p[i] = q[i]
OBVIOUS

LEMMA Taken ==
    ASSUME NEW S, NEW q \in Seq(S), q # <<>>, NEW p, p = Tail(q)
    PROVE  /\ p \in Seq(S) /\ Len(p) = Len(q) - 1 /\ Len(q) \in Nat /\ Len(q) >= 1
           /\ Head(q) = q[1] /\ Head(q) \in S
           /\ \A i \in 1 .. Len(p) : p[i] = q[i + 1]
OBVIOUS

LEMMA AppendedElements ==
    ASSUME NEW q, NEW p, NEW n \in Nat, NEW m, m = n + 1, NEW x, p[m] = x,
           \A i \in 1 .. n : p[i] = q[i]
    PROVE  \A y \in {p[i] : i \in 1 .. m} : y \in {q[i] : i \in 1 .. n} \/ y = x
<1>1. \A i \in 1 .. m : i = m \/ i \in 1 .. n
  OBVIOUS
<1>2. \A i \in 1 .. m : p[i] \in {q[j] : j \in 1 .. n} \/ p[i] = x
  BY <1>1
<1>3. QED
  BY <1>2

-----------------------------------------------------------------------------
(***************************************************************************)
(* What grows, and what can change at all.                                 *)
(***************************************************************************)
Grows ==
    /\ Len(log) \in Nat /\ Len(log') \in Nat /\ Len(log) <= Len(log')
    /\ \A i \in 1 .. Len(log) : log'[i] = log[i]
    /\ Len(made) \in Nat /\ Len(made') \in Nat /\ Len(made) <= Len(made')
    /\ \A e \in 1 .. Len(made) : made'[e] = made[e]
    /\ texts' \in Nat /\ texts <= texts' /\ pruned <= pruned'
    /\ row.deleted => row'.deleted
    /\ \A d \in Devices : slips[d] \subseteq slips'[d]

LEMMA Lengths ==
    ASSUME TypeInv
    PROVE  Len(log) \in Nat /\ Len(made) \in Nat /\ texts \in Nat /\ pruned \in Nat
BY DEF TypeInv, LogTyped, ServerTyped

\* The event that d has to tell of, for u.
NewEvent(d, u) == [to |-> u, kind |-> job[d].kind, env |-> job[d].arg, by |-> d]

LEMMA AnnounceLogs ==
    ASSUME TypeInv, NEW d \in Devices, NEW u \in Users, Announce(d, u)
    PROVE  /\ job[d].kind \in {"edit", "delete"} /\ d \in Authors
           /\ NewEvent(d, u) \in EventRecords
           /\ NewEvent(d, u).to = u /\ NewEvent(d, u).kind = job[d].kind
           /\ NewEvent(d, u).env = job[d].arg /\ NewEvent(d, u).by = d
           /\ log' \in Seq(EventRecords) /\ Len(log') = Len(log) + 1
           /\ log'[Len(log) + 1] = NewEvent(d, u)
           /\ \A i \in 1 .. Len(log) : log'[i] = log[i]
<1>1. /\ u \in job[d].todo /\ job[d] \in JobRecords /\ GoodJob(d)
      /\ log \in Seq(EventRecords) /\ log' = Append(log, NewEvent(d, u))
  BY DEF Announce, TypeInv, JobsTyped, LogTyped, NewEvent
<1>2. job[d].kind \in {"edit", "delete"} /\ d \in Authors
  BY <1>1 DEF GoodJob, NoJob, GoodEdit, JobRecords
<1>3. PICK v : v = NewEvent(d, u)
  OBVIOUS
<1>4. /\ v \in EventRecords
      /\ v.to = u /\ v.kind = job[d].kind /\ v.env = job[d].arg /\ v.by = d
  BY <1>1, <1>2, <1>3 DEF NewEvent, EventRecords, JobRecords
<1>5. /\ log' \in Seq(EventRecords) /\ Len(log') = Len(log) + 1
      /\ log'[Len(log) + 1] = v /\ \A i \in 1 .. Len(log) : log'[i] = log[i]
  BY <1>1, <1>3, <1>4, Appended
<1>6. QED
  BY <1>2, <1>3, <1>4, <1>5

\* The envelope of the edit that waits at d.
NewEnvelope(d) == [text |-> edit[d], by |-> d]

\* The first fetch is answered: an edit is sent, or nothing but that a waiting edit is
\* given up.
FetchSends(d) ==
    /\ edit[d] # 0 /\ edit' = edit
    /\ \A i \in DOMAIN Tail(inbox[d]) : Tail(inbox[d])[i].kind # "fetch"
    /\ made' = Append(made, NewEnvelope(d))
    /\ inbox' = [inbox EXCEPT ![d] = Append(Tail(inbox[d]), Request("edit", Len(made')))]

FetchEnds(d) ==
    /\ made' = made
    /\ inbox' = [inbox EXCEPT ![d] = Tail(inbox[d])]
    /\ edit' = [edit EXCEPT ![d] =
                  IF \A i \in DOMAIN Tail(inbox[d]) : Tail(inbox[d])[i].kind # "fetch"
                  THEN 0 ELSE @]

LEMMA FetchCases ==
    ASSUME NEW d \in Devices, FetchKeys(d)
    PROVE  FetchSends(d) \/ FetchEnds(d)
BY Zenon DEF FetchKeys, FetchSends, FetchEnds, NewEnvelope

LEMMA FetchMakes ==
    ASSUME TypeInv, NEW d \in Devices, FetchKeys(d), FetchSends(d)
    PROVE  /\ d \in Authors /\ NewEnvelope(d) \in MadeRecords
           /\ NewEnvelope(d).text = edit[d] /\ NewEnvelope(d).by = d
           /\ made' \in Seq(MadeRecords) /\ Len(made') = Len(made) + 1
           /\ made'[Len(made) + 1] = NewEnvelope(d)
           /\ \A e \in 1 .. Len(made) : made'[e] = made[e]
<1>1. inbox[d] # <<>> /\ Head(inbox[d]).kind = "fetch"
  BY DEF FetchKeys
<1>2. Head(inbox[d]) \in Requests(d)
  <2>1. inbox[d] \in Seq(RequestRecords)
    BY DEF TypeInv, QueuesTyped
  <2>2. Head(inbox[d]) = inbox[d][1] /\ 1 \in 1 .. Len(inbox[d])
    BY <1>1, <2>1
  <2>3. QED
    BY <2>2 DEF Requests
<1>3. d \in Authors
  BY <1>1, <1>2 DEF TypeInv, NetTyped, GoodRequest
<1>4. PICK v : v = NewEnvelope(d)
  OBVIOUS
<1>5. v \in MadeRecords /\ v.text = edit[d] /\ v.by = d
  BY <1>3, <1>4 DEF NewEnvelope, MadeRecords, TypeInv, DevicesTyped
<1>6. made \in Seq(MadeRecords) /\ made' = Append(made, v)
  BY <1>4 DEF TypeInv, ServerTyped, FetchSends
<1>7. /\ made' \in Seq(MadeRecords) /\ Len(made') = Len(made) + 1
      /\ made'[Len(made) + 1] = v /\ \A e \in 1 .. Len(made) : made'[e] = made[e]
  BY <1>5, <1>6, Appended
<1>8. QED
  BY <1>3, <1>4, <1>5, <1>7

\* Slips are only added.
LEMMA SlipsAdded ==
    ASSUME TypeInv, NEW D, NEW slip \in Slips, SlipAt(D, slip)
    PROVE  /\ \A d \in Devices : slips[d] \subseteq slips'[d]
           /\ \A d \in Devices : d \in D => slip \in slips'[d]
           /\ slips' \in [Devices -> SUBSET Slips]
BY DEF SlipAt, TypeInv, DevicesTyped

LEMMA SlipNames ==
    /\ "overtaken" \in Slips /\ "raced" \in Slips /\ "unanswered" \in Slips
    /\ "overlapped" \in Slips /\ "unannounced" \in Slips /\ "hole" \in Slips
BY DEF Slips

LEMMA GrowsFrame ==
    ASSUME TypeInv, log' = log, made' = made, texts' = texts, pruned' = pruned, row' = row,
           \A d \in Devices : slips[d] \subseteq slips'[d]
    PROVE  Grows
BY Lengths DEF Grows

LEMMA StepGrows ==
    ASSUME TypeInv, [Next]_vars
    PROVE  Grows
<1>1. CASE UNCHANGED vars
  BY <1>1, GrowsFrame DEF vars, serverVars, uiVars
<1>2. ASSUME NEW d \in Devices,
             \/ Login(d) \/ FlushOutbox(d) \/ DeleteMessage(d) \/ OpenConversation(d)
             \/ HandleOpen(d) \/ ReadEvents(d)
             \/ ReceiveEdit(d) \/ ReceiveDelete(d) \/ ReceiveEvents(d) \/ ReceiveFull(d)
      PROVE  Grows
  <2>1. log' = log /\ made' = made /\ texts' = texts /\ pruned' = pruned /\ row' = row
        /\ slips' = slips
    BY Zenon, <1>2 DEF serverVars, uiVars, Login, FlushOutbox, DeleteMessage, OpenConversation,
          HandleOpen, ReadEvents, ReceiveEdit, ReceiveDelete, ReceiveEvents, ReceiveFull
  <2>2. QED
    BY <2>1, GrowsFrame
<1>3. ASSUME NEW d \in Devices, EditMessage(d)
      PROVE  Grows
  <2>1. /\ log' = log /\ made' = made /\ pruned' = pruned /\ row' = row /\ texts' = texts + 1
        /\ SlipAt(IF edit[d] # 0 THEN {d} ELSE {}, "overlapped")
    BY <1>3 DEF EditMessage, serverVars
  <2>2. \A c \in Devices : slips[c] \subseteq slips'[c]
    BY <2>1, SlipsAdded, SlipNames
  <2>3. QED
    BY <2>1, <2>2, Lengths DEF Grows
<1>4. ASSUME NEW d \in Devices, HandleEdit(d)
      PROVE  Grows
  <2>1. /\ log' = log /\ made' = made /\ pruned' = pruned /\ texts' = texts
        /\ \/ row' = row /\ slips' = slips
           \/ ~row.deleted /\ \E D : SlipAt(D, "raced")
    BY <1>4 DEF HandleEdit, uiVars
  <2>2. \A c \in Devices : slips[c] \subseteq slips'[c]
    BY <2>1, SlipsAdded, SlipNames
  <2>3. QED
    BY <2>1, <2>2, Lengths DEF Grows
<1>5. ASSUME NEW d \in Devices, HandleDelete(d)
      PROVE  Grows
  <2>1. /\ log' = log /\ made' = made /\ pruned' = pruned /\ texts' = texts
        /\ row'.deleted /\ slips' = slips
    BY <1>5 DEF HandleDelete, uiVars
  <2>2. QED
    BY <2>1, Lengths DEF Grows
<1>6. ASSUME NEW d \in Devices, HandleSync(d)
      PROVE  Grows
  <2>1. /\ log' = log /\ made' = made /\ pruned' = pruned /\ texts' = texts /\ row' = row
        /\ slips' = slips \/ \E D : SlipAt(D, "hole")
    BY <1>6 DEF HandleSync, uiVars
  <2>2. \A c \in Devices : slips[c] \subseteq slips'[c]
    BY <2>1, SlipsAdded, SlipNames
  <2>3. QED
    BY <2>1, <2>2, GrowsFrame
<1>7. ASSUME NEW d \in Devices, NEW u \in Users, Announce(d, u)
      PROVE  Grows
  <2>1. /\ made' = made /\ pruned' = pruned /\ texts' = texts /\ row' = row /\ slips' = slips
    BY <1>7 DEF Announce, uiVars
  <2>2. Len(log') = Len(log) + 1 /\ \A i \in 1 .. Len(log) : log'[i] = log[i]
    BY <1>7, AnnounceLogs
  <2>3. QED
    BY <2>1, <2>2, Lengths DEF Grows
<1>8. ASSUME NEW d \in Devices, FetchKeys(d)
      PROVE  Grows
  <2>1. log' = log /\ pruned' = pruned /\ texts' = texts /\ row' = row /\ slips' = slips
    BY <1>8 DEF FetchKeys, serverVars
  <2>2. \/ made' = made
        \/ Len(made') = Len(made) + 1 /\ \A e \in 1 .. Len(made) : made'[e] = made[e]
    BY <1>8, FetchCases, FetchMakes DEF FetchEnds
  <2>3. QED
    BY <2>1, <2>2, Lengths DEF Grows
<1>9. ASSUME NEW d \in Devices, ReceiveOpen(d) \/ ReceivePush(d)
      PROVE  Grows
  <2>1. /\ log' = log /\ made' = made /\ pruned' = pruned /\ texts' = texts /\ row' = row
        /\ \E D : SlipAt(D, "overtaken")
    BY <1>9 DEF ReceiveOpen, ReceivePush, serverVars, uiVars
  <2>2. \A c \in Devices : slips[c] \subseteq slips'[c]
    BY <2>1, SlipsAdded, SlipNames
  <2>3. QED
    BY <2>1, <2>2, GrowsFrame
<1>10. ASSUME NEW d \in Devices, Disconnect(d) \/ Logout(d)
       PROVE  Grows
  <2>1. /\ log' = log /\ made' = made /\ pruned' = pruned /\ texts' = texts /\ row' = row
        /\ slips' = slips \/ \E D : SlipAt(D, "unanswered")
    BY <1>10 DEF Disconnect, Logout, Drop, serverVars
  <2>2. \A c \in Devices : slips[c] \subseteq slips'[c]
    BY <2>1, SlipsAdded, SlipNames
  <2>3. QED
    BY <2>1, <2>2, GrowsFrame
<1>11. CASE PruneDelete
  <2>1. /\ log' = log /\ made' = made /\ pruned <= pruned' /\ texts' = texts /\ row' = row
        /\ \E D : SlipAt(D, "hole")
    BY <1>11, Lengths DEF PruneDelete, uiVars
  <2>2. \A c \in Devices : slips[c] \subseteq slips'[c]
    BY <2>1, SlipsAdded, SlipNames
  <2>3. QED
    BY <2>1, <2>2, Lengths DEF Grows
<1>12. CASE PruneMark
  BY <1>12, GrowsFrame DEF PruneMark, uiVars
<1>13. CASE ServerCrash
  <2>1. /\ log' = log /\ made' = made /\ pruned' = pruned /\ texts' = texts /\ row' = row
        /\ \A c \in Devices : slips[c] \subseteq slips'[c]
    BY <1>13 DEF ServerCrash, Drop
  <2>2. QED
    BY <2>1, GrowsFrame
<1>14. QED
  BY <1>1, <1>2, <1>3, <1>4, <1>5, <1>6, <1>7, <1>8, <1>9, <1>10, <1>11, <1>12, <1>13
     DEF Next

\* What is good stays good.
LEMMA GoodStays ==
    ASSUME TypeInv, Grows
    PROVE  /\ \A e, d : GoodEdit(e, d) => GoodEdit(e, d)'
           /\ \A d : \A q \in RequestRecords : GoodRequest(d, q) => GoodRequest(d, q)'
           /\ \A i \in 1 .. Len(log) : GoodEvent(i)'
           /\ \A d : \A i : GoodPush(d, i) => GoodPush(d, i)'
           /\ \A d : \A r \in ReplyRecords : GoodReply(d, r) => GoodReply(d, r)'
           /\ \A d \in Devices : \A l : LocalTyped(d, l) => LocalTyped(d, l)'
<1>1. \A e, d : GoodEdit(e, d) => GoodEdit(e, d)'
  BY DEF Grows, GoodEdit
<1>2. \A d : \A q \in RequestRecords : GoodRequest(d, q) => GoodRequest(d, q)'
  BY <1>1 DEF Grows, GoodRequest, RequestRecords
<1>3. \A i \in 1 .. Len(log) : GoodEvent(i)'
  BY <1>1 DEF Grows, GoodEvent, TypeInv, LogTyped
<1>5. \A d : \A i : GoodPush(d, i) => GoodPush(d, i)'
  BY DEF Grows, GoodPush, OwnEvents
<1>6. \A d : \A a \in Nat : OwnEvents(d, a, Len(log)) \subseteq OwnEvents(d, a, Len(log))'
  BY DEF Grows, OwnEvents
<1>7. \A d : \A r \in ReplyRecords : GoodReply(d, r) => GoodReply(d, r)'
  BY <1>1, <1>6 DEF Grows, GoodReply, ReplyRecords
<1>8. \A d \in Devices : \A l : LocalTyped(d, l) => LocalTyped(d, l)'
  <2>1. \A l \in LocalRecords : l.row.text \in Nat /\ l.cache \in Nat
    BY DEF RowRecords, LocalRecords
  <2>2. QED
    BY <2>1, Lengths DEF Grows, LocalTyped
<1>9. QED
  BY <1>1, <1>2, <1>3, <1>5, <1>7, <1>8

-----------------------------------------------------------------------------
(***************************************************************************)
(* Requests, answers and pushes: how a queue changes, and what can be new  *)
(* in it.                                                                  *)
(***************************************************************************)
LEMMA RequestNumbers ==
    ASSUME NEW kind \in {"sync", "fetch", "edit", "delete", "open"}, NEW a \in Nat
    PROVE  /\ Request(kind, a) \in RequestRecords
           /\ Request(kind, a).kind = kind /\ Request(kind, a).arg = a
BY DEF Request, RequestRecords

IsReply(r, kind, a, page) ==
    r \in ReplyRecords /\ r.kind = kind /\ r.arg = a /\ r.page = page

LEMMA ReplyNumbers ==
    ASSUME NEW kind, kind \in ReplyKinds, NEW a, a \in Nat, NEW page, page \in SUBSET Nat,
           NEW ok \in BOOLEAN, NEW r, r = [kind |-> kind, arg |-> a, ok |-> ok, page |-> page]
    PROVE  IsReply(r, kind, a, page) /\ r.ok = ok
BY DEF ReplyRecords, IsReply

LEMMA Granted ==
    ASSUME NEW kind, kind \in ReplyKinds, NEW a, a \in Nat, NEW page, page \in SUBSET Nat,
           NEW r, r = Reply(kind, a, TRUE, page)
    PROVE  IsReply(r, kind, a, page) /\ r.ok
<1>1. r = [kind |-> kind, arg |-> a, ok |-> TRUE, page |-> page]
  BY Zenon DEF Reply
<1>2. IsReply(r, kind, a, page) /\ r.ok = TRUE
  BY Zenon, <1>1, ReplyNumbers
<1>3. QED
  BY Zenon, <1>2

LEMMA Refused ==
    ASSUME NEW kind, kind \in ReplyKinds, NEW a, a \in Nat, NEW page, page \in SUBSET Nat,
           NEW r, r = Reply(kind, a, FALSE, page)
    PROVE  IsReply(r, kind, a, page) /\ ~r.ok
<1>1. r = [kind |-> kind, arg |-> a, ok |-> FALSE, page |-> page]
  BY Zenon DEF Reply
<1>2. IsReply(r, kind, a, page) /\ r.ok = FALSE
  BY Zenon, <1>1, ReplyNumbers
<1>3. QED
  BY Zenon, <1>2

LEMMA Sent ==
    ASSUME TypeInv, NEW d \in Devices, NEW q \in RequestRecords, Send(d, q)
    PROVE  /\ inbox' \in [Devices -> Seq(RequestRecords)]
           /\ \A c \in Devices : c # d => inbox'[c] = inbox[c]
           /\ Len(inbox[d]) \in Nat /\ Len(inbox'[d]) = Len(inbox[d]) + 1 /\ inbox'[d] # <<>>
           /\ inbox'[d][Len(inbox[d]) + 1] = q
           /\ \A i \in 1 .. Len(inbox[d]) : inbox'[d][i] = inbox[d][i]
<1>1. inbox \in [Devices -> Seq(RequestRecords)]
  BY DEF TypeInv, QueuesTyped
<1>2. PICK p : p = Append(inbox[d], q)
  OBVIOUS
<1>3. /\ p \in Seq(RequestRecords) /\ Len(p) = Len(inbox[d]) + 1 /\ Len(inbox[d]) \in Nat
      /\ p # <<>>
      /\ p[Len(inbox[d]) + 1] = q /\ \A i \in 1 .. Len(inbox[d]) : p[i] = inbox[d][i]
  BY <1>1, <1>2, Appended
<1>4. inbox' = [inbox EXCEPT ![d] = p]
  BY <1>2 DEF Send
<1>5. QED
  BY <1>1, <1>3, <1>4

LEMMA Handled ==
    ASSUME TypeInv, NEW d \in Devices, inbox[d] # <<>>,
           inbox' = [inbox EXCEPT ![d] = Tail(inbox[d])]
    PROVE  /\ inbox' \in [Devices -> Seq(RequestRecords)]
           /\ \A c \in Devices : c # d => inbox'[c] = inbox[c]
           /\ Len(inbox[d]) \in Nat /\ Len(inbox[d]) >= 1
           /\ Len(inbox'[d]) = Len(inbox[d]) - 1
           /\ \A i \in 1 .. Len(inbox'[d]) : inbox'[d][i] = inbox[d][i + 1]
           /\ Head(inbox[d]) = inbox[d][1] /\ Head(inbox[d]) \in RequestRecords
           /\ Head(inbox[d]) \in Requests(d) /\ GoodRequest(d, Head(inbox[d]))
<1>1. inbox \in [Devices -> Seq(RequestRecords)]
  BY DEF TypeInv, QueuesTyped
<1>2. PICK p : p = Tail(inbox[d])
  OBVIOUS
<1>3. /\ p \in Seq(RequestRecords) /\ Len(p) = Len(inbox[d]) - 1 /\ Len(inbox[d]) \in Nat
      /\ Len(inbox[d]) >= 1 /\ Head(inbox[d]) = inbox[d][1]
      /\ Head(inbox[d]) \in RequestRecords /\ \A i \in 1 .. Len(p) : p[i] = inbox[d][i + 1]
  BY <1>1, <1>2, Taken
<1>4. inbox' = [inbox EXCEPT ![d] = p]
  BY <1>2
<1>5. Head(inbox[d]) \in Requests(d)
  BY <1>3 DEF Requests
<1>6. GoodRequest(d, Head(inbox[d]))
  BY <1>5 DEF TypeInv, NetTyped
<1>7. QED
  BY <1>1, <1>3, <1>4, <1>5, <1>6

LEMMA FetchSent ==
    ASSUME TypeInv, NEW d \in Devices, FetchKeys(d), FetchSends(d)
    PROVE  /\ inbox' \in [Devices -> Seq(RequestRecords)]
           /\ \A c \in Devices : c # d => inbox'[c] = inbox[c]
           /\ Len(inbox[d]) \in Nat /\ Len(inbox[d]) >= 1
           /\ Len(inbox'[d]) = Len(inbox[d]) /\ inbox'[d] # <<>>
           /\ \A i \in 1 .. Len(inbox[d]) - 1 : inbox'[d][i] = inbox[d][i + 1]
           /\ \A i \in 2 .. Len(inbox[d]) : inbox[d][i].kind # "fetch"
           /\ inbox'[d][Len(inbox[d])] = Request("edit", Len(made) + 1)
<1>1. inbox \in [Devices -> Seq(RequestRecords)] /\ inbox[d] # <<>>
  BY DEF TypeInv, QueuesTyped, FetchKeys
<1>2. PICK p : p = Tail(inbox[d])
  OBVIOUS
<1>3. /\ p \in Seq(RequestRecords) /\ Len(p) = Len(inbox[d]) - 1 /\ Len(inbox[d]) \in Nat
      /\ Len(inbox[d]) >= 1 /\ \A i \in 1 .. Len(p) : p[i] = inbox[d][i + 1]
      /\ DOMAIN p = 1 .. Len(p)
  BY <1>1, <1>2, Taken
<1>4. PICK q : q = Request("edit", Len(made) + 1)
  OBVIOUS
<1>5. q \in RequestRecords
  BY <1>4, RequestNumbers, Lengths
<1>6. PICK v : v = Append(p, q)
  OBVIOUS
<1>7. /\ v \in Seq(RequestRecords) /\ Len(v) = Len(p) + 1 /\ v # <<>>
      /\ v[Len(p) + 1] = q /\ \A i \in 1 .. Len(p) : v[i] = p[i]
  BY <1>3, <1>5, <1>6, Appended
<1>8. inbox' = [inbox EXCEPT ![d] = v]
  BY <1>2, <1>4, <1>6, FetchMakes DEF FetchSends
<1>9. \A i \in DOMAIN p : p[i].kind # "fetch"
  BY <1>2 DEF FetchSends
<1>10. \A i \in 2 .. Len(inbox[d]) : inbox[d][i].kind # "fetch"
  <2>1. \A i \in 2 .. Len(inbox[d]) : i - 1 \in 1 .. Len(p) /\ p[i - 1] = inbox[d][i]
    BY <1>3
  <2>2. QED
    BY <1>3, <1>9, <2>1
<1>11. QED
  BY <1>1, <1>3, <1>4, <1>7, <1>8, <1>10

LEMMA Responded ==
    ASSUME TypeInv, NEW d \in Devices, NEW r \in ReplyRecords, Respond(d, r)
    PROVE  /\ replies' \in [Devices -> Seq(ReplyRecords)]
           /\ \A c \in Devices : c # d => replies'[c] = replies[c]
           /\ Len(replies[d]) \in Nat
           /\ d \in online => /\ Len(replies'[d]) = Len(replies[d]) + 1
                              /\ replies'[d][Len(replies[d]) + 1] = r
           /\ d \notin online => replies' = replies
           /\ \A i \in 1 .. Len(replies[d]) : replies'[d][i] = replies[d][i]
<1>1. replies \in [Devices -> Seq(ReplyRecords)]
  BY DEF TypeInv, QueuesTyped
<1>2. PICK p : p = Append(replies[d], r)
  OBVIOUS
<1>3. /\ p \in Seq(ReplyRecords) /\ Len(p) = Len(replies[d]) + 1 /\ Len(replies[d]) \in Nat
      /\ p[Len(replies[d]) + 1] = r /\ \A i \in 1 .. Len(replies[d]) : p[i] = replies[d][i]
  BY <1>1, <1>2, Appended
<1>4. replies' = IF d \in online THEN [replies EXCEPT ![d] = p] ELSE replies
  BY <1>2 DEF Respond
<1>5. QED
  BY <1>1, <1>3, <1>4

LEMMA Answered ==
    ASSUME TypeInv, NEW d \in Devices, NEW kind, Answer(d, kind)
    PROVE  /\ replies' \in [Devices -> Seq(ReplyRecords)]
           /\ \A c \in Devices : c # d => replies'[c] = replies[c]
           /\ Len(replies[d]) \in Nat /\ Len(replies[d]) >= 1 /\ replies[d] # <<>>
           /\ Len(replies'[d]) = Len(replies[d]) - 1
           /\ \A i \in 1 .. Len(replies'[d]) : replies'[d][i] = replies[d][i + 1]
           /\ Head(replies[d]) = replies[d][1] /\ Head(replies[d]) \in ReplyRecords
           /\ Head(replies[d]) \in Answers(d) /\ GoodReply(d, Head(replies[d]))
           /\ Head(replies[d]).kind = kind /\ d \in online
<1>1. replies \in [Devices -> Seq(ReplyRecords)]
  BY DEF TypeInv, QueuesTyped
<1>2. /\ replies[d] # <<>> /\ Head(replies[d]).kind = kind
      /\ replies' = [replies EXCEPT ![d] = Tail(replies[d])]
  BY DEF Answer
<1>3. PICK p : p = Tail(replies[d])
  OBVIOUS
<1>4. /\ p \in Seq(ReplyRecords) /\ Len(p) = Len(replies[d]) - 1 /\ Len(replies[d]) \in Nat
      /\ Len(replies[d]) >= 1 /\ Head(replies[d]) = replies[d][1]
      /\ Head(replies[d]) \in ReplyRecords /\ \A i \in 1 .. Len(p) : p[i] = replies[d][i + 1]
  BY <1>1, <1>2, <1>3, Taken
<1>5. replies' = [replies EXCEPT ![d] = p]
  BY <1>2, <1>3
<1>6. Head(replies[d]) \in Answers(d)
  BY <1>4 DEF Answers
<1>7. GoodReply(d, Head(replies[d])) /\ d \in online
  BY <1>2, <1>6 DEF TypeInv, NetTyped
<1>8. QED
  BY <1>1, <1>2, <1>4, <1>5, <1>6, <1>7

\* LastSeq(): the last event of the page, or where the page was to begin.
LEMMA LastSeqIs ==
    ASSUME TypeInv, NEW d \in Devices, NEW r \in ReplyRecords, GoodReply(d, r), r.kind = "sync"
    PROVE  /\ LastSeq(r) \in Nat /\ r.arg <= LastSeq(r) /\ LastSeq(r) <= Len(log)
           /\ r.page = {} => LastSeq(r) = r.arg
           /\ r.page # {} => LastSeq(r) \in r.page
           /\ \A i \in r.page : i \in OwnEvents(d, r.arg, LastSeq(r))
<1>1. /\ r.arg \in Nat /\ r.arg <= Len(log) /\ Len(log) \in Nat
      /\ r.page \subseteq OwnEvents(d, r.arg, Len(log))
  BY Lengths DEF GoodReply, ReplyRecords
<1>2. \A i \in r.page : /\ i \in 0 .. Len(log) /\ r.arg < i
                        /\ i \in Nat /\ log[i].to = UserOf(d)
  BY <1>1 DEF OwnEvents
<1>3. CASE r.page = {}
  BY <1>1, <1>3 DEF LastSeq
<1>4. CASE r.page # {}
  <2>1. \E i \in r.page : \A j \in r.page : j <= i
    BY <1>1, <1>2, <1>4, Greatest
  <2>2. LastSeq(r) \in r.page /\ \A j \in r.page : j <= LastSeq(r)
    BY <1>4, <2>1 DEF LastSeq
  <2>3. \A i \in r.page : i \in OwnEvents(d, r.arg, LastSeq(r))
    BY <1>1, <1>2, <2>2 DEF OwnEvents
  <2>4. QED
    BY <1>1, <1>2, <1>4, <2>2, <2>3
<1>5. QED
  BY <1>3, <1>4

LEMMA EventsAfterAre ==
    ASSUME TypeInv, NEW d \in Devices, NEW a \in Nat
    PROVE  EventsAfter(d, a) \in SUBSET Nat /\ EventsAfter(d, a) \subseteq OwnEvents(d, a, Len(log))
<1>1. EventsAfter(d, a) \subseteq OwnEvents(d, a, Len(log))
  BY DEF EventsAfter
<1>2. OwnEvents(d, a, Len(log)) \subseteq Nat
  BY Lengths DEF OwnEvents
<1>3. QED
  BY <1>1, <1>2

LEMMA FullSyncSeqIs ==
    ASSUME TypeInv
    PROVE  FullSyncSeq \in Nat /\ FullSyncSeq <= Len(log)
BY Lengths DEF FullSyncSeq, MaxSeq, TypeInv, ServerTyped

NewRequest(d, q) ==
    \/ q.kind \in {"fetch", "delete"} /\ d \in Authors
    \/ q.kind = "open"
    \/ q.kind = "sync" /\ q.arg = cursor[d]
    \/ /\ q.kind = "sync" /\ Answer(d, "sync") /\ q.arg = LastSeq(Head(replies[d]))
       /\ cursor' = [cursor EXCEPT ![d] =
             IF LastSeq(Head(replies[d])) > @ THEN LastSeq(Head(replies[d])) ELSE @]
    \/ q.kind = "edit" /\ FetchKeys(d) /\ FetchSends(d) /\ q.arg = Len(made) + 1

\* Every request on its way was, or is new.
LEMMA RequestsCome ==
    ASSUME TypeInv, [Next]_vars
    PROVE  /\ inbox' \in [Devices -> Seq(RequestRecords)]
           /\ \A d \in Devices : \A q \in Requests(d)' : q \in Requests(d) \/ NewRequest(d, q)
<1> DEFINE P == /\ inbox' \in [Devices -> Seq(RequestRecords)]
                /\ \A d \in Devices : \A q \in Requests(d)' :
                      q \in Requests(d) \/ NewRequest(d, q)
<1> SUFFICES P
  OBVIOUS
<1>0. inbox \in [Devices -> Seq(RequestRecords)] /\ \A d \in Devices : Len(inbox[d]) \in Nat
  BY DEF TypeInv, QueuesTyped
<1> HIDE DEF P
<1>1. ASSUME inbox' = inbox PROVE P
  BY <1>0, <1>1 DEF P, Requests
<1>2. ASSUME NEW d \in Devices, NEW q \in RequestRecords, Send(d, q), NewRequest(d, q) PROVE P
  <2>1. /\ inbox' \in [Devices -> Seq(RequestRecords)]
        /\ \A c \in Devices : c # d => inbox'[c] = inbox[c]
        /\ Len(inbox[d]) \in Nat /\ Len(inbox'[d]) = Len(inbox[d]) + 1
        /\ inbox'[d][Len(inbox[d]) + 1] = q
        /\ \A i \in 1 .. Len(inbox[d]) : inbox'[d][i] = inbox[d][i]
    BY <1>2, Sent
  <2>2. \A c \in Devices : c # d => Requests(c)' = Requests(c)
    BY <2>1 DEF Requests
  <2>3. \A x \in Requests(d)' : x \in Requests(d) \/ x = q
    BY <2>1, AppendedElements DEF Requests
  <2>4. QED
    BY <1>2, <2>1, <2>2, <2>3 DEF P
<1>3. ASSUME NEW d \in Devices, inbox[d] # <<>>, inbox' = [inbox EXCEPT ![d] = Tail(inbox[d])]
      PROVE  P
  <2>1. /\ inbox' \in [Devices -> Seq(RequestRecords)]
        /\ \A c \in Devices : c # d => inbox'[c] = inbox[c]
        /\ Len(inbox[d]) \in Nat /\ Len(inbox'[d]) = Len(inbox[d]) - 1
        /\ \A i \in 1 .. Len(inbox'[d]) : inbox'[d][i] = inbox[d][i + 1]
    BY <1>3, Handled
  <2>2. \A c \in Devices : c # d => Requests(c)' = Requests(c)
    BY <2>1 DEF Requests
  <2>3. \A x \in Requests(d)' : x \in Requests(d)
    BY <2>1 DEF Requests
  <2>4. QED
    BY <2>1, <2>2, <2>3 DEF P
<1>4. ASSUME NEW D, Drop(D) PROVE P
  <2>1. inbox' = [d \in Devices |-> IF d \in D THEN <<>> ELSE inbox[d]]
    BY <1>4 DEF Drop
  <2>2. inbox' \in [Devices -> Seq(RequestRecords)]
    BY <1>0, <2>1
  <2>3. \A d \in Devices : \A x \in Requests(d)' : x \in Requests(d)
    BY <2>1 DEF Requests
  <2>4. QED
    BY <2>2, <2>3 DEF P
<1>5. CASE UNCHANGED vars
  BY <1>1, <1>5 DEF vars, netVars
<1>6. ASSUME NEW d \in Devices, Login(d) PROVE P
  <2>1. cursor[d] \in Nat /\ Send(d, Request("sync", cursor[d]))
    BY <1>6 DEF Login, TypeInv, DevicesTyped
  <2>2. PICK q \in RequestRecords : /\ q = Request("sync", cursor[d]) /\ q.kind = "sync"
                                    /\ q.arg = cursor[d]
    BY <2>1, RequestNumbers
  <2>3. QED
    BY <1>2, <2>1, <2>2 DEF NewRequest
<1>7. ASSUME NEW d \in Devices, EditMessage(d) \/ FlushOutbox(d) PROVE P
  <2>1. d \in Authors /\ Send(d, Request("fetch", 0))
    BY <1>7 DEF EditMessage, FlushOutbox
  <2>2. PICK q \in RequestRecords : q = Request("fetch", 0) /\ q.kind = "fetch"
    BY RequestNumbers
  <2>3. QED
    BY <1>2, <2>1, <2>2 DEF NewRequest
<1>8. ASSUME NEW d \in Devices, DeleteMessage(d) PROVE P
  <2>1. d \in Authors /\ Send(d, Request("delete", 0))
    BY <1>8 DEF DeleteMessage
  <2>2. PICK q \in RequestRecords : q = Request("delete", 0) /\ q.kind = "delete"
    BY RequestNumbers
  <2>3. QED
    BY <1>2, <2>1, <2>2 DEF NewRequest
<1>9. ASSUME NEW d \in Devices, OpenConversation(d) PROVE P
  <2>1. Send(d, Request("open", 0))
    BY <1>9 DEF OpenConversation
  <2>2. PICK q \in RequestRecords : q = Request("open", 0) /\ q.kind = "open"
    BY RequestNumbers
  <2>3. QED
    BY <1>2, <2>1, <2>2 DEF NewRequest
<1>10. ASSUME NEW d \in Devices,
              HandleEdit(d) \/ HandleDelete(d) \/ HandleOpen(d) \/ HandleSync(d)
       PROVE  P
  <2>1. inbox[d] # <<>> /\ inbox' = [inbox EXCEPT ![d] = Tail(inbox[d])]
    BY Zenon, <1>10 DEF HandleEdit, HandleDelete, HandleOpen, HandleSync, Handling
  <2>2. QED
    BY <1>3, <2>1
<1>11. ASSUME NEW d \in Devices,
              \/ ReadEvents(d) \/ \E u \in Users : Announce(d, u)
              \/ ReceiveEdit(d) \/ ReceiveDelete(d) \/ ReceiveFull(d) \/ ReceiveOpen(d)
              \/ ReceivePush(d)
       PROVE  P
  BY <1>1, <1>11 DEF ReadEvents, Announce, ReceiveEdit, ReceiveDelete, ReceiveFull, ReceiveOpen,
        ReceivePush
<1>12. ASSUME NEW d \in Devices, FetchKeys(d), FetchEnds(d) PROVE P
  BY <1>3, <1>12 DEF FetchKeys, FetchEnds
<1>13. ASSUME NEW d \in Devices, FetchKeys(d), FetchSends(d) PROVE P
  <2>1. /\ inbox' \in [Devices -> Seq(RequestRecords)]
        /\ \A c \in Devices : c # d => inbox'[c] = inbox[c]
        /\ Len(inbox[d]) \in Nat /\ Len(inbox[d]) >= 1
        /\ Len(inbox'[d]) = Len(inbox[d])
        /\ \A i \in 1 .. Len(inbox[d]) - 1 : inbox'[d][i] = inbox[d][i + 1]
        /\ inbox'[d][Len(inbox[d])] = Request("edit", Len(made) + 1)
    BY <1>13, FetchSent
  <2>2. PICK q \in RequestRecords : /\ q = Request("edit", Len(made) + 1) /\ q.kind = "edit"
                                    /\ q.arg = Len(made) + 1
    BY RequestNumbers, Lengths
  <2>3. \A c \in Devices : c # d => Requests(c)' = Requests(c)
    BY <2>1 DEF Requests
  <2>4. \A x \in Requests(d)' : x \in Requests(d) \/ x = q
    <3>1. \A i \in 1 .. Len(inbox'[d]) : i = Len(inbox[d]) \/ i \in 1 .. Len(inbox[d]) - 1
      BY <2>1
    <3>2. \A i \in 1 .. Len(inbox[d]) - 1 : i + 1 \in 1 .. Len(inbox[d])
      BY <2>1
    <3>3. \A i \in 1 .. Len(inbox'[d]) : inbox'[d][i] \in Requests(d) \/ inbox'[d][i] = q
      BY <2>1, <2>2, <3>1, <3>2 DEF Requests
    <3>4. QED
      BY <3>3 DEF Requests
  <2>5. NewRequest(d, q)
    BY <1>13, <2>2 DEF NewRequest
  <2>6. QED
    BY <2>1, <2>3, <2>4, <2>5 DEF P
<1>14. ASSUME NEW d \in Devices, ReceiveEvents(d) PROVE P
  <2>1. /\ Answer(d, "sync")
        /\ inbox' = inbox \/ Send(d, Request("sync", LastSeq(Head(replies[d]))))
        /\ cursor' = [cursor EXCEPT ![d] =
             IF LastSeq(Head(replies[d])) > @ THEN LastSeq(Head(replies[d])) ELSE @]
    BY <1>14 DEF ReceiveEvents
  <2>2. LastSeq(Head(replies[d])) \in Nat
    BY <2>1, Answered, LastSeqIs
  <2>3. PICK q \in RequestRecords : /\ q = Request("sync", LastSeq(Head(replies[d])))
                                    /\ q.kind = "sync" /\ q.arg = LastSeq(Head(replies[d]))
    BY <2>2, RequestNumbers
  <2>4. NewRequest(d, q)
    BY <2>1, <2>3 DEF NewRequest
  <2>5. QED
    BY <1>1, <1>2, <2>1, <2>3, <2>4
<1>15. ASSUME NEW d \in Devices, Disconnect(d) \/ Logout(d) PROVE P
  BY <1>4, <1>15 DEF Disconnect, Logout
<1>16. CASE PruneDelete \/ PruneMark
  BY <1>1, <1>16 DEF PruneDelete, PruneMark, netVars
<1>17. CASE ServerCrash
  BY <1>4, <1>17 DEF ServerCrash
<1>18. QED
  BY <1>5, <1>6, <1>7, <1>8, <1>9, <1>10, <1>11, <1>12, <1>13, <1>14, <1>15, <1>16, <1>17,
     FetchCases DEF Next

\* What the server or its threads can answer with.
NewReply(d, r) ==
    \/ /\ r.kind = "edit" /\ ~r.ok /\ inbox[d] # <<>> /\ Head(inbox[d]).kind = "edit"
       /\ r.arg = Head(inbox[d]).arg /\ row.deleted
    \/ /\ r.kind \in {"edit", "delete"} /\ r.ok /\ r.kind = job[d].kind /\ r.arg = job[d].arg
    \/ r.kind = "open" /\ r.arg = row.env
    \/ r.kind = "full" /\ r.arg = FullSyncSeq /\ pruned # 0
    \/ /\ r.kind = "sync" /\ job[d].kind = "sync" /\ r.arg = job[d].arg
       /\ r.page = EventsAfter(d, job[d].arg)

\* Every answer on its way was, or is new.
LEMMA AnswersCome ==
    ASSUME TypeInv, [Next]_vars
    PROVE  /\ replies' \in [Devices -> Seq(ReplyRecords)]
           /\ \A d \in Devices : \A r \in Answers(d)' :
                 r \in Answers(d) \/ (d \in online /\ r \in ReplyRecords /\ NewReply(d, r))
<1> DEFINE P == /\ replies' \in [Devices -> Seq(ReplyRecords)]
                /\ \A d \in Devices : \A r \in Answers(d)' :
                      r \in Answers(d) \/ (d \in online /\ r \in ReplyRecords /\ NewReply(d, r))
<1> SUFFICES P
  OBVIOUS
<1>0. replies \in [Devices -> Seq(ReplyRecords)] /\ \A d \in Devices : Len(replies[d]) \in Nat
  BY DEF TypeInv, QueuesTyped
<1> HIDE DEF P
<1>1. ASSUME replies' = replies PROVE P
  BY <1>0, <1>1 DEF P, Answers
<1>2. ASSUME NEW d \in Devices, NEW r \in ReplyRecords, Respond(d, r), NewReply(d, r) PROVE P
  <2>1. /\ replies' \in [Devices -> Seq(ReplyRecords)]
        /\ \A c \in Devices : c # d => replies'[c] = replies[c]
        /\ Len(replies[d]) \in Nat
        /\ d \in online => /\ Len(replies'[d]) = Len(replies[d]) + 1
                           /\ replies'[d][Len(replies[d]) + 1] = r
        /\ d \notin online => replies' = replies
        /\ \A i \in 1 .. Len(replies[d]) : replies'[d][i] = replies[d][i]
    BY <1>2, Responded
  <2>2. \A c \in Devices : c # d => Answers(c)' = Answers(c)
    BY <2>1 DEF Answers
  <2>3. CASE d \in online
    <3>1. \A x \in Answers(d)' : x \in Answers(d) \/ x = r
      BY <2>1, <2>3, AppendedElements DEF Answers
    <3>2. QED
      BY <1>2, <2>1, <2>2, <2>3, <3>1 DEF P
  <2>4. QED
    BY <1>1, <2>1, <2>3
<1>3. ASSUME NEW d \in Devices, NEW kind, Answer(d, kind) PROVE P
  <2>1. /\ replies' \in [Devices -> Seq(ReplyRecords)]
        /\ \A c \in Devices : c # d => replies'[c] = replies[c]
        /\ Len(replies[d]) \in Nat /\ Len(replies'[d]) = Len(replies[d]) - 1
        /\ \A i \in 1 .. Len(replies'[d]) : replies'[d][i] = replies[d][i + 1]
    BY <1>3, Answered
  <2>2. \A c \in Devices : c # d => Answers(c)' = Answers(c)
    BY <2>1 DEF Answers
  <2>3. \A x \in Answers(d)' : x \in Answers(d)
    BY <2>1 DEF Answers
  <2>4. QED
    BY <2>1, <2>2, <2>3 DEF P
<1>4. ASSUME NEW D, Drop(D) PROVE P
  <2>1. replies' = [d \in Devices |-> IF d \in D THEN <<>> ELSE replies[d]]
    BY <1>4 DEF Drop
  <2>2. replies' \in [Devices -> Seq(ReplyRecords)]
    BY <1>0, <2>1
  <2>3. \A d \in Devices : \A x \in Answers(d)' : x \in Answers(d)
    BY <2>1 DEF Answers
  <2>4. QED
    BY <2>2, <2>3 DEF P
<1>5. CASE UNCHANGED vars
  BY <1>1, <1>5 DEF vars, netVars
<1>6. ASSUME NEW d \in Devices,
             \/ Login(d) \/ EditMessage(d) \/ FlushOutbox(d) \/ DeleteMessage(d)
             \/ OpenConversation(d) \/ HandleDelete(d) \/ FetchKeys(d) \/ ReceivePush(d)
      PROVE  P
  BY <1>1, <1>6 DEF Login, EditMessage, FlushOutbox, DeleteMessage, OpenConversation,
        HandleDelete, FetchKeys, ReceivePush
<1>7. ASSUME NEW d \in Devices, HandleEdit(d) PROVE P
  <2>1. inbox[d] # <<>> /\ Head(inbox[d]).kind = "edit" /\ Head(inbox[d]).arg \in Nat
    <3>1. inbox[d] # <<>> /\ Head(inbox[d]).kind = "edit"
          /\ inbox' = [inbox EXCEPT ![d] = Tail(inbox[d])]
      BY Zenon, <1>7 DEF HandleEdit, Handling
    <3>2. Head(inbox[d]) \in RequestRecords
      BY <3>1, Handled
    <3>3. QED
      BY <3>1, <3>2 DEF RequestRecords
  <2>2. \/ replies' = replies
        \/ row.deleted /\ Respond(d, Reply("edit", Head(inbox[d]).arg, FALSE, {}))
    BY Zenon, <1>7 DEF HandleEdit
  <2>3. PICK r : r = Reply("edit", Head(inbox[d]).arg, FALSE, {})
    OBVIOUS
  <2>13. IsReply(r, "edit", Head(inbox[d]).arg, {}) /\ ~r.ok
    <3>1. "edit" \in ReplyKinds /\ {} \in SUBSET Nat
      BY <2>1 DEF ReplyKinds
    <3>2. QED
      BY Zenon, <2>1, <2>3, <3>1, Refused
  <2>4. QED
    BY <1>1, <1>2, <2>1, <2>2, <2>3, <2>13 DEF NewReply, IsReply
<1>8. ASSUME NEW d \in Devices, HandleOpen(d) PROVE P
  <2>1. row.env \in Nat /\ Respond(d, Reply("open", row.env, TRUE, {}))
    BY <1>8 DEF HandleOpen, TypeInv, ServerTyped
  <2>2. PICK r : r = Reply("open", row.env, TRUE, {})
    OBVIOUS
  <2>12. IsReply(r, "open", row.env, {}) /\ r.ok
    <3>1. "open" \in ReplyKinds /\ {} \in SUBSET Nat
      BY <2>1 DEF ReplyKinds
    <3>2. QED
      BY Zenon, <2>1, <2>2, <3>1, Granted
  <2>3. QED
    BY <1>2, <2>1, <2>2, <2>12 DEF NewReply, IsReply
<1>9. ASSUME NEW d \in Devices, HandleSync(d) PROVE P
  <2>1. /\ inbox[d] # <<>> /\ inbox' = [inbox EXCEPT ![d] = Tail(inbox[d])]
        /\ \/ replies' = replies
           \/ /\ BehindWatermark(Head(inbox[d]).arg)
              /\ Respond(d, Reply("full", FullSyncSeq, TRUE, {}))
    BY Zenon, <1>9 DEF HandleSync, Handling
  <2>2. Head(inbox[d]).arg \in Nat
    BY <2>1, Handled DEF RequestRecords
  <2>3. BehindWatermark(Head(inbox[d]).arg) => pruned # 0
    BY <2>2 DEF BehindWatermark, TypeInv, ServerTyped
  <2>4. PICK r : r = Reply("full", FullSyncSeq, TRUE, {})
    OBVIOUS
  <2>14. IsReply(r, "full", FullSyncSeq, {}) /\ r.ok
    <3>1. "full" \in ReplyKinds /\ {} \in SUBSET Nat
      BY FullSyncSeqIs DEF ReplyKinds
    <3>2. QED
      BY Zenon, FullSyncSeqIs, <2>4, <3>1, Granted
  <2>5. QED
    BY <1>1, <1>2, <2>1, <2>3, <2>4, <2>14 DEF NewReply, IsReply
<1>10. ASSUME NEW d \in Devices, ReadEvents(d) PROVE P
  <2>1. /\ job[d].kind = "sync" /\ job[d].arg \in Nat
        /\ Respond(d, Reply("sync", job[d].arg, TRUE, EventsAfter(d, job[d].arg)))
    BY <1>10 DEF ReadEvents, TypeInv, JobsTyped, JobRecords
  <2>2. EventsAfter(d, job[d].arg) \in SUBSET Nat
    BY <2>1, EventsAfterAre
  <2>3. PICK r : r = Reply("sync", job[d].arg, TRUE, EventsAfter(d, job[d].arg))
    OBVIOUS
  <2>13. IsReply(r, "sync", job[d].arg, EventsAfter(d, job[d].arg)) /\ r.ok
    <3>1. "sync" \in ReplyKinds /\ EventsAfter(d, job[d].arg) \in SUBSET Nat
      BY <2>1, <2>2 DEF ReplyKinds
    <3>2. QED
      BY Zenon, <2>1, <2>2, <2>3, <3>1, Granted
  <2>4. QED
    BY <1>2, <2>1, <2>3, <2>13 DEF NewReply, IsReply
<1>11. ASSUME NEW d \in Devices, NEW u \in Users, Announce(d, u) PROVE P
  <2>1. job[d].kind \in {"edit", "delete"} /\ job[d].arg \in Nat
    BY <1>11, AnnounceLogs DEF TypeInv, JobsTyped, JobRecords
  <2>2. replies' = replies \/ Respond(d, Reply(job[d].kind, job[d].arg, TRUE, {}))
    BY Zenon, <1>11 DEF Announce
  <2>3. PICK r : r = Reply(job[d].kind, job[d].arg, TRUE, {})
    OBVIOUS
  <2>13. IsReply(r, job[d].kind, job[d].arg, {}) /\ r.ok
    <3>1. job[d].kind \in ReplyKinds /\ {} \in SUBSET Nat
      BY <2>1 DEF ReplyKinds
    <3>2. QED
      BY Zenon, <2>1, <2>3, <3>1, Granted
  <2>4. QED
    BY <1>1, <1>2, <2>1, <2>2, <2>3, <2>13 DEF NewReply, IsReply
<1>12. ASSUME NEW d \in Devices,
              \/ ReceiveEdit(d) \/ ReceiveDelete(d) \/ ReceiveEvents(d) \/ ReceiveFull(d)
              \/ ReceiveOpen(d)
       PROVE  P
  <2>1. \E kind : Answer(d, kind)
    BY <1>12 DEF ReceiveEdit, ReceiveDelete, ReceiveEvents, ReceiveFull, ReceiveOpen
  <2>2. QED
    BY <1>3, <2>1
<1>13. ASSUME NEW d \in Devices, Disconnect(d) \/ Logout(d) PROVE P
  BY <1>4, <1>13 DEF Disconnect, Logout
<1>14. CASE PruneDelete \/ PruneMark
  BY <1>1, <1>14 DEF PruneDelete, PruneMark, netVars
<1>15. CASE ServerCrash
  BY <1>4, <1>15 DEF ServerCrash
<1>16. QED
  BY <1>5, <1>6, <1>7, <1>8, <1>9, <1>10, <1>11, <1>12, <1>13, <1>14, <1>15 DEF Next

\* Every push on its way was, or is that of the event just logged.
LEMMA PushesCome ==
    ASSUME TypeInv, [Next]_vars
    PROVE  /\ pushes' \in [Devices -> Seq(Nat)]
           /\ \A d \in Devices : \A i \in Pushed(d)' :
                 \/ i \in Pushed(d)
                 \/ /\ d \in online /\ i = Len(log) + 1
                    /\ \E c \in Devices : Announce(c, UserOf(d))
<1> DEFINE P == /\ pushes' \in [Devices -> Seq(Nat)]
                /\ \A d \in Devices : \A i \in Pushed(d)' :
                      \/ i \in Pushed(d)
                      \/ /\ d \in online /\ i = Len(log) + 1
                         /\ \E c \in Devices : Announce(c, UserOf(d))
<1> SUFFICES P
  OBVIOUS
<1>0. pushes \in [Devices -> Seq(Nat)] /\ \A d \in Devices : Len(pushes[d]) \in Nat
  BY DEF TypeInv, QueuesTyped
<1> HIDE DEF P
<1>1. ASSUME pushes' = pushes PROVE P
  BY <1>0, <1>1 DEF P, Pushed
<1>2. ASSUME NEW D, Drop(D) PROVE P
  <2>1. pushes' = [d \in Devices |-> IF d \in D THEN <<>> ELSE pushes[d]]
    BY <1>2 DEF Drop
  <2>2. pushes' \in [Devices -> Seq(Nat)]
    BY <1>0, <2>1
  <2>3. \A d \in Devices : \A x \in Pushed(d)' : x \in Pushed(d)
    BY <2>1 DEF Pushed
  <2>4. QED
    BY <2>2, <2>3 DEF P
<1>3. CASE UNCHANGED vars
  BY <1>1, <1>3 DEF vars, netVars
<1>4. ASSUME NEW d \in Devices,
             \/ Login(d) \/ EditMessage(d) \/ FlushOutbox(d) \/ DeleteMessage(d)
             \/ OpenConversation(d) \/ HandleDelete(d) \/ FetchKeys(d) \/ HandleEdit(d)
             \/ HandleOpen(d) \/ HandleSync(d) \/ ReadEvents(d)
             \/ ReceiveEdit(d) \/ ReceiveDelete(d) \/ ReceiveEvents(d) \/ ReceiveFull(d)
             \/ ReceiveOpen(d)
      PROVE  P
  <2>1. pushes' = pushes
    BY Zenon, <1>4 DEF Login, EditMessage, FlushOutbox, DeleteMessage, OpenConversation,
        HandleDelete, FetchKeys, HandleEdit, HandleOpen, HandleSync, ReadEvents,
        ReceiveEdit, ReceiveDelete, ReceiveEvents, ReceiveFull, ReceiveOpen
  <2>2. QED
    BY <1>1, <2>1
<1>5. ASSUME NEW d \in Devices, ReceivePush(d) PROVE P
  <2>1. pushes[d] # <<>> /\ pushes' = [pushes EXCEPT ![d] = Tail(pushes[d])]
    BY Zenon, <1>5 DEF ReceivePush
  <2>2. PICK p : p = Tail(pushes[d])
    OBVIOUS
  <2>3. /\ p \in Seq(Nat) /\ Len(p) = Len(pushes[d]) - 1
        /\ \A i \in 1 .. Len(p) : p[i] = pushes[d][i + 1]
    BY <1>0, <2>1, <2>2, Taken
  <2>4. /\ pushes' \in [Devices -> Seq(Nat)] /\ pushes'[d] = p
        /\ \A c \in Devices : c # d => pushes'[c] = pushes[c]
    BY <1>0, <2>1, <2>2, <2>3
  <2>5. \A c \in Devices : c # d => Pushed(c)' = Pushed(c)
    BY <2>4 DEF Pushed
  <2>8. ASSUME NEW i \in 1 .. Len(p) PROVE p[i] \in Pushed(d)
    <3>1. i + 1 \in 1 .. Len(pushes[d])
      BY <1>0, <2>3
    <3>2. p[i] = pushes[d][i + 1]
      BY <2>3
    <3>3. QED
      BY <3>1, <3>2 DEF Pushed
  <2>9. Pushed(d)' = {p[i] : i \in 1 .. Len(p)}
    BY <2>4 DEF Pushed
  <2>6. \A x \in Pushed(d)' : x \in Pushed(d)
    BY <2>8, <2>9
  <2>7. QED
    BY <2>4, <2>5, <2>6 DEF P
<1>6. ASSUME NEW d \in Devices, NEW u \in Users, Announce(d, u) PROVE P
  <2>1. /\ Len(log') = Len(log) + 1 /\ Len(log) \in Nat
        /\ pushes' = [c \in Devices |->
                        IF c \in (online \cap DevicesOf(u)) \ {d}
                        THEN Append(pushes[c], Len(log')) ELSE pushes[c]]
    BY <1>6, AnnounceLogs, Lengths DEF Announce
  <2>2. ASSUME NEW c \in Devices
        PROVE  /\ pushes'[c] \in Seq(Nat)
               /\ \A i \in Pushed(c)' : \/ i \in Pushed(c)
                                        \/ i = Len(log) + 1 /\ c \in online /\ u = UserOf(c)
    <3>1. CASE c \in (online \cap DevicesOf(u)) \ {d}
      <4>1. PICK p : p = Append(pushes[c], Len(log) + 1)
        OBVIOUS
      <4>2. /\ p \in Seq(Nat) /\ Len(p) = Len(pushes[c]) + 1 /\ p[Len(pushes[c]) + 1] = Len(log) + 1
            /\ \A i \in 1 .. Len(pushes[c]) : p[i] = pushes[c][i]
        <5>1. Len(log) + 1 \in Nat /\ pushes[c] \in Seq(Nat)
          BY <1>0, <2>1
        <5>2. QED
          BY <4>1, <5>1, Appended
      <4>3. pushes'[c] = p
        BY <2>1, <3>1, <4>1
      <4>4. \A i \in Pushed(c)' : i \in Pushed(c) \/ i = Len(log) + 1
        <5>1. /\ Len(pushes[c]) \in Nat /\ Len(p) = Len(pushes[c]) + 1
              /\ p[Len(p)] = Len(log) + 1
          BY <1>0, <4>2
        <5>2. \A i \in 1 .. Len(p) : i = Len(p) \/ i \in 1 .. Len(pushes[c])
          BY <5>1
        <5>3. \A i \in 1 .. Len(p) : p[i] \in Pushed(c) \/ p[i] = Len(log) + 1
          BY <4>2, <5>1, <5>2 DEF Pushed
        <5>4. QED
          BY <4>3, <5>3 DEF Pushed
      <4>5. QED
        BY <3>1, <4>2, <4>3, <4>4 DEF DevicesOf
    <3>2. CASE c \notin (online \cap DevicesOf(u)) \ {d}
      BY <1>0, <2>1, <3>2 DEF Pushed
    <3>3. QED
      BY <3>1, <3>2
  <2>3. pushes' \in [Devices -> Seq(Nat)]
    BY <2>1, <2>2
  <2>4. QED
    BY <1>6, <2>2, <2>3 DEF P
<1>7. ASSUME NEW d \in Devices, Disconnect(d) \/ Logout(d) PROVE P
  BY <1>2, <1>7 DEF Disconnect, Logout
<1>8. CASE PruneDelete \/ PruneMark
  BY <1>1, <1>8 DEF PruneDelete, PruneMark, netVars
<1>9. CASE ServerCrash
  BY <1>2, <1>9 DEF ServerCrash
<1>10. QED
  BY <1>3, <1>4, <1>5, <1>6, <1>7, <1>8, <1>9 DEF Next

-----------------------------------------------------------------------------
(***************************************************************************)
(* What the client's functions leave behind, field by field.               *)
(***************************************************************************)
LEMMA LocalIs ==
    ASSUME TypeInv, NEW d \in Devices
    PROVE  /\ Local(d) \in LocalRecords /\ Local(d).row = store[d]
           /\ Local(d).cache = cache[d] /\ Local(d).used = used[d]
           /\ LocalTyped(d, Local(d))
BY DEF TypeInv, DevicesTyped, Local, LocalRecords

\* upsertMessage()
LEMMA UpsertIs ==
    ASSUME NEW l \in LocalRecords, NEW text, {text} \subseteq Nat,
           NEW m, m = Upsert(l, text)
    PROVE  /\ m \in LocalRecords /\ m.used = l.used /\ m.row.deleted = l.row.deleted
           /\ text = 0 => m.row.text = l.row.text /\ m.cache = l.cache
           /\ text # 0 => m.row.text = text /\ m.cache = text
           /\ l.row.has => m.row.has
           /\ text = 0 /\ l.row.text # 0 => m = l
           /\ text # 0 \/ l.row.text = 0 => m.row.has
<1>1. CASE text = 0 /\ l.row.text # 0
  BY <1>1 DEF Upsert
<1>2. CASE text = 0 /\ l.row.text = 0
  <2>1. m = [l EXCEPT !.row.has = TRUE]
    BY <1>2 DEF Upsert
  <2>2. QED
    BY <1>2, <2>1 DEF LocalRecords, RowRecords
<1>3. CASE text # 0
  <2>1. m = [l EXCEPT !.row.has = TRUE, !.row.text = text, !.cache = text]
    BY <1>3 DEF Upsert
  <2>2. text \in Nat
    OBVIOUS
  <2>3. PICK w : w = [l.row EXCEPT !.has = TRUE, !.text = text]
    OBVIOUS
  <2>4. w \in RowRecords /\ w.has /\ w.text = text /\ w.deleted = l.row.deleted
    BY <2>2, <2>3 DEF LocalRecords, RowRecords
  <2>5. m = [l EXCEPT !.row = w, !.cache = text]
    BY <2>1, <2>3 DEF LocalRecords, RowRecords
  <2>6. m \in LocalRecords /\ m.row = w /\ m.cache = text /\ m.used = l.used
    BY <2>2, <2>4, <2>5 DEF LocalRecords
  <2>7. QED
    BY <1>3, <2>4, <2>6
<1>4. QED
  BY <1>1, <1>2, <1>3

\* decryptMessageObject()
LEMMA TakeMessageIs ==
    ASSUME TypeInv, NEW d \in Devices, NEW l, LocalTyped(d, l), NEW e \in 0 .. Len(made),
           NEW m, m = TakeMessage(d, l, e)
    PROVE  /\ m \in LocalRecords /\ m.row.deleted = l.row.deleted /\ m.row.has
           /\ l.cache # 0 => /\ m.used = l.used /\ m.cache = l.cache
                             /\ m.row.text = l.cache
           /\ l.cache = 0 /\ Opens(d, l, e) =>
                 /\ e # 0 /\ made[e].text \in Nat \ {0} /\ made[e].text <= texts
                 /\ d \in Readers => m.used = l.used \cup {e}
                 /\ d \notin Readers => m.used = l.used
                 /\ m.cache = made[e].text /\ m.row.text = made[e].text
           /\ l.cache = 0 /\ ~Opens(d, l, e) =>
                 m.used = l.used /\ m.cache = 0 /\ m.row.text = l.row.text
<1>1. l \in LocalRecords /\ {l.cache} \subseteq Nat /\ l.cache \in Nat /\ (~l.row.has => l.row.text = 0)
  BY DEF LocalTyped, LocalRecords, NoRow
<1>2. CASE l.cache # 0
  BY <1>1, <1>2, UpsertIs DEF TakeMessage
<1>3. CASE l.cache = 0 /\ Opens(d, l, e)
  <2>1. e # 0 /\ {e} \subseteq Nat
    BY <1>3 DEF Opens
  <2>2. made[e].text \in Nat \ {0} /\ made[e].text <= texts /\ {made[e].text} \subseteq Nat
    BY <2>1, Lengths DEF TypeInv, ServerTyped
  <2>3. PICK k : k = SpendPrekey(d, l, e)
    OBVIOUS
  <2>4. /\ k \in LocalRecords /\ k.row = l.row
        /\ d \in Readers => k.used = l.used \cup {e}
        /\ d \notin Readers => k.used = l.used
    BY <1>1, <2>1, <2>3 DEF SpendPrekey, LocalRecords
  <2>5. PICK j : j = [k EXCEPT !.cache = made[e].text]
    OBVIOUS
  <2>6. j \in LocalRecords /\ j.row = l.row /\ j.used = k.used
    BY <2>2, <2>4, <2>5 DEF LocalRecords
  <2>7. m = Upsert(j, made[e].text)
    BY <1>3, <2>3, <2>5 DEF TakeMessage
  <2>8. /\ m \in LocalRecords /\ m.used = j.used /\ m.row.deleted = j.row.deleted
        /\ m.row.text = made[e].text /\ m.cache = made[e].text /\ m.row.has
    BY <2>2, <2>6, <2>7, UpsertIs
  <2>9. QED
    BY Zenon, <1>3, <2>1, <2>2, <2>4, <2>6, <2>8
<1>4. CASE l.cache = 0 /\ ~Opens(d, l, e)
  <2>1. PICK z \in Nat : z = 0 /\ m = Upsert(l, z) /\ {z} \subseteq Nat
    BY <1>4 DEF TakeMessage
  <2>2. /\ m \in LocalRecords /\ m.used = l.used /\ m.row.deleted = l.row.deleted
        /\ m.row.text = l.row.text /\ m.cache = l.cache
        /\ l.row.text # 0 => m = l
        /\ l.row.text = 0 => m.row.has
    BY <1>1, <2>1, UpsertIs
  <2>3. QED
    BY <1>1, <1>4, <2>2
<1>5. QED
  BY <1>2, <1>3, <1>4

\* decryptEditContent()
LEMMA TakeEditIs ==
    ASSUME TypeInv, NEW d \in Devices, NEW l, LocalTyped(d, l), NEW e \in 0 .. Len(made),
           NEW m, m = TakeEdit(d, l, e)
    PROVE  /\ m \in LocalRecords /\ m.row.deleted = l.row.deleted /\ m.row.has = l.row.has
           /\ Opens(d, l, e) =>
                 /\ e # 0 /\ made[e].text \in Nat \ {0} /\ made[e].text <= texts
                 /\ d \in Readers => m.used = l.used \cup {e}
                 /\ d \notin Readers => m.used = l.used
                 /\ m.cache = made[e].text
                 /\ m.row.text = IF l.row.has THEN made[e].text ELSE l.row.text
           /\ ~Opens(d, l, e) => m = l
<1>1. l \in LocalRecords
  BY DEF LocalTyped
<1>2. CASE Opens(d, l, e)
  <2>1. e # 0 /\ {e} \subseteq Nat
    BY <1>2 DEF Opens
  <2>2. made[e].text \in Nat \ {0} /\ made[e].text <= texts /\ {made[e].text} \subseteq Nat
    BY <2>1, Lengths DEF TypeInv, ServerTyped
  <2>3. PICK k : k = SpendPrekey(d, l, e)
    OBVIOUS
  <2>4. /\ k \in LocalRecords /\ k.row = l.row
        /\ d \in Readers => k.used = l.used \cup {e}
        /\ d \notin Readers => k.used = l.used
    BY <1>1, <2>1, <2>3 DEF SpendPrekey, LocalRecords
  <2>5. PICK text \in Nat : text = made[e].text
    BY <2>2
  <2>6. m = [k EXCEPT !.cache = text, !.row.text = IF l.row.has THEN text ELSE @]
    BY <1>2, <2>3, <2>5 DEF TakeEdit
  <2>7. PICK t \in Nat : t = IF l.row.has THEN text ELSE k.row.text
    BY <2>4 DEF LocalRecords, RowRecords
  <2>8. m = [k EXCEPT !.cache = text, !.row.text = t]
    BY <2>4, <2>6, <2>7 DEF LocalRecords, RowRecords
  <2>11. PICK w : w = [k.row EXCEPT !.text = t]
    OBVIOUS
  <2>12. w \in RowRecords /\ w.has = k.row.has /\ w.text = t /\ w.deleted = k.row.deleted
    BY <2>4, <2>11 DEF LocalRecords, RowRecords
  <2>13. m = [k EXCEPT !.cache = text, !.row = w]
    BY <2>4, <2>8, <2>11 DEF LocalRecords, RowRecords
  <2>9. /\ m \in LocalRecords /\ m.used = k.used /\ m.cache = text /\ m.row.text = t
        /\ m.row.has = k.row.has /\ m.row.deleted = k.row.deleted
    BY <2>4, <2>12, <2>13 DEF LocalRecords
  <2>10. QED
    BY <1>2, <2>1, <2>2, <2>4, <2>5, <2>7, <2>9
<1>3. CASE ~Opens(d, l, e)
  BY <1>1, <1>3 DEF TakeEdit
<1>4. QED
  BY <1>2, <1>3

\* markMessageDeleted()
LEMMA TakeDeleteIs ==
    ASSUME NEW l \in LocalRecords, NEW m, m = TakeDelete(l)
    PROVE  /\ m \in LocalRecords /\ m.used = l.used /\ m.cache = l.cache
           /\ m.row.has = l.row.has
           /\ l.row.has => m.row.text = 0 /\ m.row.deleted
           /\ ~l.row.has => m = l
BY DEF TakeDelete, LocalRecords, RowRecords

\* What a device shows is what its cache holds, what it can read it shows, and a
\* prekey was used for a text it kept.
GoodLocal(l) ==
    /\ l.row.text # 0 => l.row.text = l.cache
    /\ l.row.has /\ l.cache # 0 => l.row.deleted \/ l.row.text # 0
    /\ l.used # {} => l.cache # 0

\* Nothing a device has is lost from l to m.
Kept(l, m) ==
    /\ l.row.has => m.row.has
    /\ l.row.deleted => m.row.deleted
    /\ l.cache # 0 => m.cache # 0
    /\ l.row.text # 0 => m.row.text # 0 \/ m.row.deleted
    /\ l.used \subseteq m.used

LEMMA KeptOn ==
    ASSUME NEW l, NEW m, NEW n, Kept(l, m), Kept(m, n)
    PROVE  Kept(l, n)
BY DEF Kept

LEMMA KeptSelf == \A l : Kept(l, l)
BY DEF Kept

LEMMA TakeMessageKeeps ==
    ASSUME TypeInv, NEW d \in Devices, NEW l, LocalTyped(d, l), NEW e \in 0 .. Len(made),
           NEW m, m = TakeMessage(d, l, e)
    PROVE  LocalTyped(d, m) /\ Kept(l, m) /\ (GoodLocal(l) => GoodLocal(m))
<1>1. /\ l \in LocalRecords /\ l.row.text \in Nat /\ l.cache \in Nat
      /\ l.row.text <= texts /\ l.cache <= texts
      /\ l.used \subseteq 1 .. Len(made) /\ (d \in Authors => l.used = {})
      /\ (~l.row.has => l.row.text = 0)
  BY DEF LocalTyped, LocalRecords, RowRecords, NoRow
<1>2. m \in LocalRecords /\ m.row.deleted = l.row.deleted /\ m.row.has
  BY TakeMessageIs
<1>3. d \in Authors <=> d \notin Readers
  BY EditNumbers
<1>4. CASE l.cache # 0
  <2>1. m.used = l.used /\ m.cache = l.cache /\ m.row.text = l.cache
    BY <1>4, TakeMessageIs
  <2>2. LocalTyped(d, m)
    BY <1>1, <1>2, <2>1 DEF LocalTyped
  <2>3. QED
    BY <1>2, <1>4, <2>1, <2>2 DEF Kept, GoodLocal
<1>5. CASE l.cache = 0 /\ Opens(d, l, e)
  <2>1. /\ e # 0 /\ made[e].text \in Nat \ {0} /\ made[e].text <= texts
        /\ d \in Readers => m.used = l.used \cup {e}
        /\ d \notin Readers => m.used = l.used
        /\ m.cache = made[e].text /\ m.row.text = made[e].text
    BY <1>5, TakeMessageIs
  <2>2. /\ m.used \subseteq 1 .. Len(made) /\ (d \in Authors => m.used = {})
        /\ l.used \subseteq m.used
    BY <1>1, <1>3, <2>1, Lengths
  <2>3. LocalTyped(d, m)
    BY <1>2, <2>1, <2>2 DEF LocalTyped
  <2>4. QED
    BY <1>2, <2>1, <2>2, <2>3 DEF Kept, GoodLocal
<1>6. CASE l.cache = 0 /\ ~Opens(d, l, e)
  <2>1. m.used = l.used /\ m.cache = 0 /\ m.row.text = l.row.text
    BY <1>6, TakeMessageIs
  <2>2. LocalTyped(d, m)
    BY <1>1, <1>2, <1>6, <2>1 DEF LocalTyped
  <2>3. QED
    BY <1>2, <1>6, <2>1, <2>2 DEF Kept, GoodLocal
<1>7. QED
  BY <1>4, <1>5, <1>6

LEMMA TakeEditKeeps ==
    ASSUME TypeInv, NEW d \in Devices, NEW l, LocalTyped(d, l), NEW e \in 0 .. Len(made),
           NEW m, m = TakeEdit(d, l, e)
    PROVE  LocalTyped(d, m) /\ Kept(l, m) /\ (GoodLocal(l) => GoodLocal(m))
<1>1. /\ l \in LocalRecords /\ l.row \in RowRecords /\ l.row.text \in Nat /\ l.cache \in Nat
      /\ l.row.text <= texts /\ l.cache <= texts
      /\ l.used \subseteq 1 .. Len(made) /\ (d \in Authors => l.used = {})
      /\ (~l.row.has => l.row.text = 0 /\ ~l.row.deleted /\ l.row = NoRow)
  BY DEF LocalTyped, LocalRecords, RowRecords, NoRow
<1>2. m \in LocalRecords /\ m.row.deleted = l.row.deleted /\ m.row.has = l.row.has
  BY TakeEditIs
<1>3. d \in Authors <=> d \notin Readers
  BY EditNumbers
<1>4. CASE Opens(d, l, e)
  <2>1. /\ e # 0 /\ made[e].text \in Nat \ {0} /\ made[e].text <= texts
        /\ d \in Readers => m.used = l.used \cup {e}
        /\ d \notin Readers => m.used = l.used
        /\ m.cache = made[e].text
        /\ m.row.text = IF l.row.has THEN made[e].text ELSE l.row.text
    BY <1>4, TakeEditIs
  <2>2. /\ m.used \subseteq 1 .. Len(made) /\ (d \in Authors => m.used = {})
        /\ l.used \subseteq m.used
    BY <1>1, <1>3, <2>1, Lengths
  <2>3. ~m.row.has => m.row = NoRow
    <3>1. ~m.row.has => m.row = l.row
      BY <1>1, <1>2, <2>1 DEF LocalRecords, RowRecords
    <3>2. QED
      BY <1>1, <1>2, <3>1
  <2>4. m.row.text <= texts
    BY <1>1, <2>1
  <2>5. LocalTyped(d, m)
    BY <1>2, <2>1, <2>2, <2>3, <2>4 DEF LocalTyped
  <2>6. QED
    BY <1>1, <1>2, <2>1, <2>2, <2>5 DEF Kept, GoodLocal
<1>5. CASE ~Opens(d, l, e)
  BY <1>5, TakeEditIs, KeptSelf
<1>6. QED
  BY <1>4, <1>5

LEMMA TakeDeleteKeeps ==
    ASSUME TypeInv, NEW d \in Devices, NEW l, LocalTyped(d, l), NEW m, m = TakeDelete(l)
    PROVE  LocalTyped(d, m) /\ Kept(l, m) /\ (GoodLocal(l) => GoodLocal(m))
<1>1. l \in LocalRecords
  BY DEF LocalTyped
<1>2. CASE l.row.has
  <2>1. /\ m \in LocalRecords /\ m.used = l.used /\ m.cache = l.cache
        /\ m.row.has = l.row.has /\ m.row.text = 0 /\ m.row.deleted
    BY <1>1, <1>2, TakeDeleteIs
  <2>2. LocalTyped(d, m)
    BY <1>2, <2>1, Lengths DEF LocalTyped
  <2>3. QED
    BY <2>1, <2>2 DEF Kept, GoodLocal
<1>3. CASE ~l.row.has
  BY <1>1, <1>3, TakeDeleteIs, KeptSelf
<1>4. QED
  BY <1>2, <1>3

LEMMA EventIs ==
    ASSUME TypeInv, NEW i \in 1 .. Len(log)
    PROVE  /\ log[i] \in EventRecords /\ GoodEvent(i) /\ log[i].env \in 0 .. Len(made)
           /\ log[i].kind \in {"other", "message", "edit", "delete"}
<1>1. log[i] \in EventRecords /\ GoodEvent(i)
  BY DEF TypeInv, LogTyped
<1>2. log[i].kind \in {"other", "message", "edit", "delete"} /\ log[i].env \in Nat
  BY <1>1 DEF EventRecords
<1>3. Len(made) >= 1 /\ Len(made) \in Nat
  BY Lengths DEF TypeInv, ServerTyped
<1>4. QED
  BY <1>1, <1>2, <1>3 DEF GoodEvent, GoodEdit

\* What taking an event comes to.
LEMMA TakeEventIs ==
    ASSUME TypeInv, NEW d \in Devices, NEW l, NEW i \in 1 .. Len(log)
    PROVE  \/ log[i].kind = "other" /\ TakeEvent(d, l, log[i]) = l
           \/ log[i].kind = "message" /\ TakeEvent(d, l, log[i]) = TakeMessage(d, l, 1)
           \/ /\ log[i].kind = "edit" /\ log[i].by = d /\ TakeEvent(d, l, log[i]) = l
           \/ /\ log[i].kind = "edit" /\ log[i].by # d
              /\ TakeEvent(d, l, log[i]) = TakeEdit(d, l, log[i].env)
           \/ /\ log[i].kind = "delete" /\ log[i].by = d /\ TakeEvent(d, l, log[i]) = l
           \/ /\ log[i].kind = "delete" /\ log[i].by # d
              /\ TakeEvent(d, l, log[i]) = TakeDelete(l)
<1>1. /\ log[i].kind \in {"other", "message", "edit", "delete"}
      /\ log[i].kind = "message" => log[i].env = 1
  BY EventIs DEF GoodEvent
<1>2. QED
  BY <1>1 DEF TakeEvent, OwnChange

LEMMA TakeEventKeeps ==
    ASSUME TypeInv, NEW d \in Devices, NEW l, LocalTyped(d, l), NEW i \in 1 .. Len(log),
           NEW m, m = TakeEvent(d, l, log[i])
    PROVE  LocalTyped(d, m) /\ Kept(l, m) /\ (GoodLocal(l) => GoodLocal(m))
<1>1. log[i].env \in 0 .. Len(made) /\ 1 \in 0 .. Len(made)
  BY EventIs, Lengths DEF TypeInv, ServerTyped
<1>2. \/ m = l \/ m = TakeMessage(d, l, 1) \/ m = TakeEdit(d, l, log[i].env)
      \/ m = TakeDelete(l)
  BY TakeEventIs
<1>3. QED
  BY <1>1, <1>2, KeptSelf, TakeMessageKeeps, TakeEditKeeps, TakeDeleteKeeps

-----------------------------------------------------------------------------
(***************************************************************************)
(* A page is taken event by event: TakePage is what its recursive function *)
(* says, and what every event keeps the page keeps.                        *)
(***************************************************************************)
IsFold(f, d, page, n) ==
    f = [i \in 0 .. n |-> IF i = 0 THEN Local(d)
                          ELSE IF i \in page THEN TakeEvent(d, f[i - 1], log[i])
                          ELSE f[i - 1]]

LEMMA FoldExists ==
    ASSUME NEW d, NEW page, NEW n \in Nat
    PROVE  \E f : IsFold(f, d, page, n)
<1>1. PICK S : S = {k \in Nat : \E f : IsFold(f, d, page, k)}
  OBVIOUS
<1>2. 0 \in S
  <2>1. PICK f : f = [i \in 0 .. 0 |-> Local(d)]
    OBVIOUS
  <2>2. f = [i \in 0 .. 0 |-> IF i = 0 THEN Local(d)
                              ELSE IF i \in page THEN TakeEvent(d, f[i - 1], log[i])
                              ELSE f[i - 1]]
    BY <2>1
  <2>3. QED
    BY <1>1, <2>2 DEF IsFold
<1>3. ASSUME NEW k \in Nat, k \in S PROVE k + 1 \in S
  <2>1. PICK f : IsFold(f, d, page, k)
    BY <1>1, <1>3
  <2>2. PICK g : g = [i \in 0 .. k + 1 |->
                        IF i = 0 THEN Local(d)
                        ELSE IF i \in page THEN TakeEvent(d, f[i - 1], log[i])
                        ELSE f[i - 1]]
    OBVIOUS
  <2>3. \A i \in 0 .. k : g[i] = f[i]
    BY <2>1, <2>2 DEF IsFold
  <2>4. \A i \in 0 .. k + 1 : i # 0 => i - 1 \in 0 .. k
    OBVIOUS
  <2>5. g = [i \in 0 .. k + 1 |-> IF i = 0 THEN Local(d)
                                  ELSE IF i \in page THEN TakeEvent(d, g[i - 1], log[i])
                                  ELSE g[i - 1]]
    BY <2>2, <2>3, <2>4
  <2>6. IsFold(g, d, page, k + 1)
    BY <2>5 DEF IsFold
  <2>7. k + 1 \in Nat /\ \E h : IsFold(h, d, page, k + 1)
    BY <2>6
  <2>8. QED
    BY <1>1, <2>7
<1>4. n \in S
  BY <1>2, <1>3, Induction
<1>5. QED
  BY <1>1, <1>4

\* The states that d goes through as it takes the page.
Trace(f, d, page) ==
    /\ f[0] = Local(d) /\ TakePage(d, page) = f[Len(log)]
    /\ \A i \in 1 .. Len(log) :
          f[i] = IF i \in page THEN TakeEvent(d, f[i - 1], log[i]) ELSE f[i - 1]

LEMMA PageIsTraced ==
    ASSUME Len(log) \in Nat, NEW d, NEW page
    PROVE  \E f : Trace(f, d, page)
<1>1. \E f : IsFold(f, d, page, Len(log))
  BY FoldExists
<1>2. PICK f : f = CHOOSE h : IsFold(h, d, page, Len(log))
  OBVIOUS
<1>3. IsFold(f, d, page, Len(log))
  BY Zenon, <1>1, <1>2
<1>4. TakePage(d, page) = f[Len(log)]
  BY Zenon, <1>2 DEF TakePage, IsFold
<1>5. /\ f[0] = Local(d)
      /\ \A i \in 1 .. Len(log) :
            f[i] = IF i \in page THEN TakeEvent(d, f[i - 1], log[i]) ELSE f[i - 1]
  BY <1>3 DEF IsFold
<1>6. Trace(f, d, page)
  BY <1>4, <1>5 DEF Trace
<1>7. QED
  BY <1>6

\* Induction up to the end of the log.
LEMMA UpTo ==
    ASSUME NEW n \in Nat, NEW S, 0 \in S, \A i \in 1 .. n : i - 1 \in S => i \in S
    PROVE  n \in S
<1>1. PICK T : T = {i \in Nat : i <= n => i \in S}
  OBVIOUS
<1>2. 0 \in T
  BY <1>1
<1>3. ASSUME NEW i \in Nat, i \in T PROVE i + 1 \in T
  <2>1. i + 1 <= n => i \in S /\ i + 1 \in 1 .. n /\ (i + 1) - 1 = i
    BY <1>1, <1>3
  <2>2. i + 1 <= n => i + 1 \in S
    BY <2>1
  <2>3. QED
    BY <1>1, <2>2
<1>4. n \in T
  BY <1>2, <1>3, Induction
<1>5. QED
  BY <1>1, <1>4

\* What every event of the page keeps, the page keeps.
LEMMA PageFold ==
    ASSUME TypeInv, NEW d \in Devices, NEW page, page \subseteq 1 .. Len(log), NEW G, Local(d) \in G,
           \A i \in page : \A l \in G : TakeEvent(d, l, log[i]) \in G
    PROVE  TakePage(d, page) \in G
<1>0. Len(log) \in Nat
  BY Lengths
<1>1. PICK f : Trace(f, d, page)
  BY <1>0, PageIsTraced
<1>2. PICK S : S = {i \in 0 .. Len(log) : f[i] \in G}
  OBVIOUS
<1>3. 0 \in S
  BY <1>0, <1>1, <1>2 DEF Trace
<1>4. ASSUME NEW i \in 1 .. Len(log), i - 1 \in S PROVE i \in S
  <2>1. f[i - 1] \in G
    BY <1>2, <1>4
  <2>2. f[i] = IF i \in page THEN TakeEvent(d, f[i - 1], log[i]) ELSE f[i - 1]
    BY <1>1 DEF Trace
  <2>3. f[i] \in G
    BY <2>1, <2>2
  <2>4. QED
    BY <1>2, <2>3
<1>5. Len(log) \in S
  BY <1>0, <1>3, <1>4, UpTo
<1>6. QED
  BY <1>1, <1>2, <1>5 DEF Trace

\* What d may have once it has taken a page, or a part of it.
PageKept(d, l) ==
    LocalTyped(d, l) /\ Kept(Local(d), l) /\ (GoodLocal(Local(d)) => GoodLocal(l))

LEMMA TakePageKeeps ==
    ASSUME TypeInv, NEW d \in Devices, NEW page, page \subseteq 1 .. Len(log),
           NEW m, m = TakePage(d, page)
    PROVE  LocalTyped(d, m) /\ Kept(Local(d), m) /\ (GoodLocal(Local(d)) => GoodLocal(m))
<1>1. PICK G : G = {l \in LocalRecords : PageKept(d, l)}
  OBVIOUS
<1>2. Local(d) \in G
  BY <1>1, LocalIs, KeptSelf DEF PageKept
<1>3. ASSUME NEW i \in page, NEW l \in G PROVE TakeEvent(d, l, log[i]) \in G
  <2>1. PICK k : k = TakeEvent(d, l, log[i])
    OBVIOUS
  <2>2. PageKept(d, l) /\ i \in 1 .. Len(log)
    BY <1>1, <1>3
  <2>3. LocalTyped(d, k) /\ Kept(l, k) /\ (GoodLocal(l) => GoodLocal(k))
    BY <2>1, <2>2, TakeEventKeeps DEF PageKept
  <2>4. PageKept(d, k)
    BY <2>2, <2>3, KeptOn DEF PageKept
  <2>5. k \in LocalRecords
    BY <2>3 DEF LocalTyped
  <2>6. QED
    BY <1>1, <2>1, <2>4, <2>5
<1>4. m \in G
  BY <1>2, <1>3, PageFold
<1>5. QED
  BY <1>1, <1>4 DEF PageKept

-----------------------------------------------------------------------------
(***************************************************************************)
(* How the local state of a device changes.                                *)
(***************************************************************************)
StoresTyped ==
    store \in [Devices -> RowRecords] /\ cache \in [Devices -> Nat] /\ used \in [Devices -> SUBSET Nat]

LEMMA KeepIs ==
    ASSUME TypeInv, NEW d \in Devices, NEW m \in LocalRecords, Keep(d, m)
    PROVE  /\ StoresTyped' /\ Local(d)' = m
           /\ \A c \in Devices : c # d => Local(c)' = Local(c)
<1>1. /\ store' = [store EXCEPT ![d] = m.row] /\ cache' = [cache EXCEPT ![d] = m.cache]
      /\ used' = [used EXCEPT ![d] = m.used]
  BY DEF Keep
<1>2. m.row \in RowRecords /\ m.cache \in Nat /\ m.used \in SUBSET Nat
      /\ m = [row |-> m.row, cache |-> m.cache, used |-> m.used]
  BY DEF LocalRecords
<1>3. StoresTyped
  BY DEF TypeInv, DevicesTyped, StoresTyped
<1>4. /\ store'[d] = m.row /\ cache'[d] = m.cache /\ used'[d] = m.used
      /\ \A c \in Devices : c # d => /\ store'[c] = store[c] /\ cache'[c] = cache[c]
                                     /\ used'[c] = used[c]
  BY <1>1, <1>3 DEF StoresTyped
<1>5. StoresTyped'
  BY <1>1, <1>2, <1>3 DEF StoresTyped
<1>6. Local(d)' = m /\ \A c \in Devices : c # d => Local(c)' = Local(c)
  BY <1>2, <1>4 DEF Local
<1>7. QED
  BY <1>5, <1>6

\* handleEditMessageResponse()
LEMMA OwnEditDoneIs ==
    ASSUME TypeInv, NEW d \in Devices, NEW m, m = OwnEditDone(d)
    PROVE  /\ m \in LocalRecords /\ m.used = used[d] /\ m.cache = edit[d]
           /\ m.row.has = store[d].has /\ m.row.deleted = store[d].deleted
           /\ store[d].has /\ edit[d] # 0 => m.row.text = edit[d]
           /\ ~(store[d].has /\ edit[d] # 0) => m.row = store[d]
           /\ LocalTyped(d, m)
<1>1. /\ Local(d) \in LocalRecords /\ Local(d).row = store[d] /\ Local(d).used = used[d]
      /\ LocalTyped(d, Local(d)) /\ store[d] \in RowRecords
      /\ edit[d] \in Nat /\ edit[d] <= texts
  BY LocalIs DEF TypeInv, DevicesTyped
<1>2. PICK t \in Nat : /\ t = IF store[d].has /\ edit[d] # 0 THEN edit[d] ELSE store[d].text
                       /\ t <= texts
  BY <1>1 DEF RowRecords, LocalTyped
<1>3. PICK w : w = edit[d] /\ w \in Nat
  BY <1>1
<1>4. m = [Local(d) EXCEPT !.row.text = t, !.cache = w]
  BY <1>1, <1>2, <1>3 DEF OwnEditDone, LocalRecords, RowRecords
<1>5. /\ m \in LocalRecords /\ m.used = used[d] /\ m.cache = w
      /\ m.row.has = store[d].has /\ m.row.deleted = store[d].deleted /\ m.row.text = t
  <2>1. PICK l, r : l = Local(d) /\ r = [store[d] EXCEPT !.text = t]
    OBVIOUS
  <2>2. r \in RowRecords /\ r.has = store[d].has /\ r.text = t /\ r.deleted = store[d].deleted
    BY <1>1, <2>1 DEF RowRecords
  <2>3. m = [l EXCEPT !.row = r, !.cache = w]
    BY <1>1, <1>4, <2>1 DEF LocalRecords, RowRecords
  <2>4. l \in LocalRecords /\ l.used = used[d]
    BY <1>1, <2>1
  <2>5. m \in LocalRecords /\ m.row = r /\ m.cache = w /\ m.used = l.used
    BY <1>3, <2>2, <2>3, <2>4 DEF LocalRecords
  <2>6. QED
    BY <2>2, <2>4, <2>5
<1>6. ~(store[d].has /\ edit[d] # 0) => m.row = store[d]
  BY <1>1, <1>2, <1>5 DEF LocalRecords, RowRecords
<1>7. ~m.row.has => m.row = NoRow
  BY <1>1, <1>5, <1>6 DEF LocalTyped
<1>8. LocalTyped(d, m)
  BY <1>1, <1>2, <1>3, <1>5, <1>7 DEF LocalTyped
<1>9. QED
  BY <1>2, <1>3, <1>5, <1>6, <1>8

\* What is left after a logout.
Cleared(d) == [row |-> NoRow, cache |-> cache[d], used |-> used[d]]

LEMMA ClearedIs ==
    ASSUME TypeInv, NEW d \in Devices
    PROVE  /\ LocalTyped(d, Cleared(d)) /\ Cleared(d).row = NoRow
           /\ Cleared(d).cache = cache[d] /\ Cleared(d).used = used[d]
<1>1. /\ LocalTyped(d, Local(d)) /\ Local(d).cache = cache[d] /\ Local(d).used = used[d]
      /\ cache[d] \in Nat /\ used[d] \in SUBSET Nat
  BY LocalIs DEF TypeInv, DevicesTyped
<1>2. NoRow \in RowRecords /\ NoRow.text = 0 /\ 0 <= texts
  BY Lengths DEF NoRow, RowRecords
<1>3. PICK m : m = Cleared(d)
  OBVIOUS
<1>4. m \in LocalRecords /\ m.row = NoRow /\ m.cache = cache[d] /\ m.used = used[d]
  BY <1>1, <1>2, <1>3 DEF Cleared, LocalRecords
<1>5. QED
  BY <1>1, <1>2, <1>3, <1>4 DEF LocalTyped

FirstAnswer(d) == Head(replies[d])

\* The ways a device's local state can change.
LocalMove(d) ==
    \/ Local(d)' = Local(d)
    \/ ReceiveOpen(d) /\ Local(d)' = TakeMessage(d, Local(d), FirstAnswer(d).arg)
    \/ ReceivePush(d) /\ Local(d)' = TakeEvent(d, Local(d), log[Head(pushes[d])])
    \/ ReceiveEvents(d) /\ Local(d)' = TakePage(d, FirstAnswer(d).page)
    \/ ReceiveDelete(d) /\ Local(d)' = TakeDelete(Local(d))
    \/ ReceiveEdit(d) /\ FirstAnswer(d).ok /\ Local(d)' = OwnEditDone(d)
    \/ Logout(d) /\ Local(d)' = Cleared(d)

LEMMA OpenAnswered ==
    ASSUME TypeInv, NEW d \in Devices, ReceiveOpen(d)
    PROVE  /\ FirstAnswer(d) \in Answers(d) /\ FirstAnswer(d) \in ReplyRecords /\ FirstAnswer(d).kind = "open"
           /\ FirstAnswer(d).arg \in 0 .. Len(made) /\ Keep(d, TakeMessage(d, Local(d), FirstAnswer(d).arg))
<1>1. Answer(d, "open") /\ Keep(d, TakeMessage(d, Local(d), FirstAnswer(d).arg))
  BY DEF ReceiveOpen, FirstAnswer
<1>2. /\ FirstAnswer(d) \in Answers(d) /\ FirstAnswer(d) \in ReplyRecords /\ FirstAnswer(d).kind = "open"
      /\ GoodReply(d, FirstAnswer(d))
  BY <1>1, Answered DEF FirstAnswer
<1>3. QED
  BY <1>1, <1>2, Lengths DEF GoodReply, ReplyRecords

LEMMA PageAnswered ==
    ASSUME TypeInv, NEW d \in Devices, ReceiveEvents(d)
    PROVE  /\ FirstAnswer(d) \in Answers(d) /\ FirstAnswer(d) \in ReplyRecords /\ FirstAnswer(d).kind = "sync"
           /\ GoodReply(d, FirstAnswer(d)) /\ FirstAnswer(d).page \subseteq 1 .. Len(log)
           /\ Keep(d, TakePage(d, FirstAnswer(d).page)) /\ d \in online
<1>1. Answer(d, "sync") /\ Keep(d, TakePage(d, FirstAnswer(d).page))
  BY DEF ReceiveEvents, FirstAnswer
<1>2. /\ FirstAnswer(d) \in Answers(d) /\ FirstAnswer(d) \in ReplyRecords /\ FirstAnswer(d).kind = "sync"
      /\ GoodReply(d, FirstAnswer(d)) /\ d \in online
  BY <1>1, Answered DEF FirstAnswer
<1>3. QED
  BY <1>1, <1>2, Lengths DEF GoodReply, ReplyRecords, OwnEvents

LEMMA PushTaken ==
    ASSUME TypeInv, NEW d \in Devices, ReceivePush(d)
    PROVE  /\ Head(pushes[d]) \in Pushed(d) /\ GoodPush(d, Head(pushes[d])) /\ d \in online
           /\ Head(pushes[d]) \in 1 .. Len(log)
           /\ Keep(d, TakeEvent(d, Local(d), log[Head(pushes[d])]))
<1>1. pushes[d] # <<>> /\ Keep(d, TakeEvent(d, Local(d), log[Head(pushes[d])]))
  BY DEF ReceivePush
<1>2. pushes[d] \in Seq(Nat)
  BY DEF TypeInv, QueuesTyped
<1>3. Head(pushes[d]) = pushes[d][1] /\ 1 \in 1 .. Len(pushes[d])
  BY <1>1, <1>2
<1>4. Head(pushes[d]) \in Pushed(d)
  BY <1>3 DEF Pushed
<1>5. GoodPush(d, Head(pushes[d])) /\ d \in online
  BY <1>1, <1>4 DEF TypeInv, NetTyped
<1>6. QED
  BY <1>1, <1>4, <1>5, Lengths DEF GoodPush, OwnEvents

LEMMA LocalsMove ==
    ASSUME TypeInv, [Next]_vars
    PROVE  StoresTyped' /\ \A d \in Devices : LocalMove(d) /\ LocalTyped(d, Local(d)')
<1> DEFINE P == StoresTyped' /\ \A d \in Devices : LocalMove(d) /\ LocalTyped(d, Local(d)')
<1> SUFFICES P
  OBVIOUS
<1>0. StoresTyped /\ \A d \in Devices : LocalTyped(d, Local(d))
  BY DEF TypeInv, DevicesTyped, StoresTyped
<1> HIDE DEF P
<1>1. ASSUME store' = store, cache' = cache, used' = used PROVE P
  BY <1>0, <1>1 DEF P, StoresTyped, LocalMove, Local
<1>2. ASSUME NEW d \in Devices, NEW m, LocalTyped(d, m), Keep(d, m), Local(d)' = m => LocalMove(d)
      PROVE  P
  <2>1. m \in LocalRecords
    BY <1>2 DEF LocalTyped
  <2>2. StoresTyped' /\ Local(d)' = m /\ \A c \in Devices : c # d => Local(c)' = Local(c)
    BY <1>2, <2>1, KeepIs
  <2>3. \A c \in Devices : LocalMove(c) /\ LocalTyped(c, Local(c)')
    BY <1>0, <1>2, <2>2 DEF LocalMove
  <2>4. QED
    BY <2>2, <2>3 DEF P
<1>3. CASE UNCHANGED vars
  BY <1>1, <1>3 DEF vars, localVars
<1>4. ASSUME NEW d \in Devices,
             \/ Login(d) \/ EditMessage(d) \/ FlushOutbox(d) \/ DeleteMessage(d)
             \/ OpenConversation(d) \/ HandleEdit(d) \/ HandleDelete(d) \/ HandleOpen(d)
             \/ HandleSync(d) \/ ReadEvents(d) \/ (\E u \in Users : Announce(d, u))
             \/ FetchKeys(d) \/ ReceiveFull(d) \/ Disconnect(d)
      PROVE  P
  <2>1. store' = store /\ cache' = cache /\ used' = used
    BY Zenon, <1>4 DEF Login, EditMessage, FlushOutbox, DeleteMessage, OpenConversation,
        HandleEdit, HandleDelete, HandleOpen, HandleSync, ReadEvents, Announce, FetchKeys,
        ReceiveFull, Disconnect, localVars
  <2>2. QED
    BY <1>1, <2>1
<1>5. ASSUME NEW d \in Devices, ReceiveOpen(d) PROVE P
  <2>1. PICK m : m = TakeMessage(d, Local(d), FirstAnswer(d).arg)
    OBVIOUS
  <2>2. LocalTyped(d, m)
    BY <1>5, <2>1, OpenAnswered, LocalIs, TakeMessageKeeps
  <2>3. QED
    BY <1>2, <1>5, <2>1, <2>2, OpenAnswered DEF LocalMove
<1>6. ASSUME NEW d \in Devices, ReceivePush(d) PROVE P
  <2>1. PICK m : m = TakeEvent(d, Local(d), log[Head(pushes[d])])
    OBVIOUS
  <2>2. LocalTyped(d, m)
    BY <1>6, <2>1, PushTaken, LocalIs, TakeEventKeeps
  <2>3. QED
    BY <1>2, <1>6, <2>1, <2>2, PushTaken DEF LocalMove
<1>7. ASSUME NEW d \in Devices, ReceiveEvents(d) PROVE P
  <2>1. PICK m : m = TakePage(d, FirstAnswer(d).page)
    OBVIOUS
  <2>2. LocalTyped(d, m)
    BY <1>7, <2>1, PageAnswered, TakePageKeeps
  <2>3. QED
    BY <1>2, <1>7, <2>1, <2>2, PageAnswered DEF LocalMove
<1>8. ASSUME NEW d \in Devices, ReceiveDelete(d) PROVE P
  <2>1. PICK m : m = TakeDelete(Local(d))
    OBVIOUS
  <2>2. LocalTyped(d, m) /\ Keep(d, m)
    BY <1>8, <2>1, LocalIs, TakeDeleteKeeps DEF ReceiveDelete
  <2>3. QED
    BY <1>2, <1>8, <2>1, <2>2 DEF LocalMove
<1>9. ASSUME NEW d \in Devices, ReceiveEdit(d) PROVE P
  <2>1. PICK m : m = OwnEditDone(d)
    OBVIOUS
  <2>2. LocalTyped(d, m)
    BY <2>1, OwnEditDoneIs
  <2>3. CASE FirstAnswer(d).ok
    <3>1. Keep(d, m)
      BY <1>9, <2>1, <2>3 DEF ReceiveEdit, FirstAnswer
    <3>2. QED
      BY <1>2, <1>9, <2>1, <2>2, <2>3, <3>1 DEF LocalMove
  <2>4. CASE ~FirstAnswer(d).ok
    BY <1>1, <1>9, <2>4 DEF ReceiveEdit, FirstAnswer
  <2>5. QED
    BY <2>3, <2>4
<1>10. ASSUME NEW d \in Devices, Logout(d) PROVE P
  <2>1. PICK m : m = Cleared(d)
    OBVIOUS
  <2>2. LocalTyped(d, m) /\ m.row = NoRow /\ m.cache = cache[d] /\ m.used = used[d]
    BY <2>1, ClearedIs
  <2>3. Keep(d, m)
    <3>1. /\ store' = [store EXCEPT ![d] = NoRow] /\ cache' = [cache EXCEPT ![d] = cache[d]]
          /\ used' = used
      BY <1>10 DEF Logout, ClearedCache
    <3>2. used' = [used EXCEPT ![d] = used[d]]
      BY <1>0, <3>1 DEF StoresTyped
    <3>3. QED
      BY <2>2, <3>1, <3>2 DEF Keep
  <2>4. QED
    BY <1>2, <1>10, <2>1, <2>2, <2>3 DEF LocalMove
<1>11. CASE PruneDelete \/ PruneMark \/ ServerCrash
  BY <1>1, <1>11 DEF PruneDelete, PruneMark, ServerCrash, localVars
<1>12. QED
  BY <1>3, <1>4, <1>5, <1>6, <1>7, <1>8, <1>9, <1>10, <1>11 DEF Next

-----------------------------------------------------------------------------
(***************************************************************************)
(* How the work of a handler thread changes.                               *)
(***************************************************************************)
IsJob(j, kind, a, todo) == j \in JobRecords /\ j.kind = kind /\ j.arg = a /\ j.todo = todo

FirstRequest(d) == Head(inbox[d])

LEMMA HandlingIs ==
    ASSUME TypeInv, NEW d \in Devices, NEW kind, Handling(d, kind)
    PROVE  /\ FirstRequest(d).kind = kind /\ job[d].kind = "none" /\ job[d] = NoJob
           /\ FirstRequest(d) \in Requests(d) /\ FirstRequest(d) \in RequestRecords
           /\ GoodRequest(d, FirstRequest(d)) /\ FirstRequest(d).arg \in Nat /\ d \in online
           /\ inbox[d] # <<>> /\ inbox' = [inbox EXCEPT ![d] = Tail(inbox[d])]
<1>1. /\ job[d].kind = "none" /\ inbox[d] # <<>> /\ Head(inbox[d]).kind = kind
      /\ inbox' = [inbox EXCEPT ![d] = Tail(inbox[d])]
  BY DEF Handling
<1>2. /\ FirstRequest(d) \in Requests(d) /\ FirstRequest(d) \in RequestRecords
      /\ GoodRequest(d, FirstRequest(d))
  BY <1>1, Handled DEF FirstRequest
<1>3. job[d] = NoJob /\ d \in online /\ FirstRequest(d).arg \in Nat
  BY <1>1, <1>2 DEF TypeInv, JobsTyped, GoodJob, NetTyped, RequestRecords
<1>4. QED
  BY <1>1, <1>2, <1>3 DEF FirstRequest

EditStarts(d) ==
    /\ HandleEdit(d) /\ ~row.deleted /\ IsJob(job'[d], "edit", FirstRequest(d).arg, Users)

DeleteStarts(d) == HandleDelete(d) /\ IsJob(job'[d], "delete", 0, Users)

SyncStarts(d) ==
    /\ HandleSync(d) /\ ~BehindWatermark(FirstRequest(d).arg)
    /\ IsJob(job'[d], "sync", FirstRequest(d).arg, {})

AnnounceGoesOn(d) ==
    \E u \in Users : /\ Announce(d, u) /\ job[d].todo # {u}
                     /\ IsJob(job'[d], job[d].kind, job[d].arg, job[d].todo \ {u})

JobEnds(d) ==
    /\ job'[d] = NoJob
    /\ \/ ReadEvents(d) \/ ServerCrash
       \/ \E u \in Users : Announce(d, u) /\ job[d].todo = {u}

JobMove(d) ==
    \/ job'[d] = job[d] \/ EditStarts(d) \/ DeleteStarts(d) \/ SyncStarts(d)
    \/ AnnounceGoesOn(d) \/ JobEnds(d)

LEMMA StartJobIs ==
    ASSUME TypeInv, NEW d \in Devices, NEW kind \in {"edit", "delete", "sync"}, NEW a,
           {a} \subseteq Nat, NEW todo \in SUBSET Users, StartJob(d, kind, a, todo)
    PROVE  /\ job' \in [Devices -> JobRecords] /\ IsJob(job'[d], kind, a, todo)
           /\ \A c \in Devices : c # d => job'[c] = job[c]
<1>1. PICK j : j = [kind |-> kind, arg |-> a, todo |-> todo]
  OBVIOUS
<1>2. j \in JobRecords /\ j.kind = kind /\ j.arg = a /\ j.todo = todo
  BY <1>1 DEF JobRecords
<1>3. job \in [Devices -> JobRecords] /\ job' = [job EXCEPT ![d] = j]
  BY <1>1 DEF TypeInv, JobsTyped, StartJob
<1>4. QED
  BY <1>2, <1>3 DEF IsJob

LEMMA JobsMove ==
    ASSUME TypeInv, [Next]_vars
    PROVE  job' \in [Devices -> JobRecords] /\ \A d \in Devices : JobMove(d)
<1> DEFINE P == job' \in [Devices -> JobRecords] /\ \A d \in Devices : JobMove(d)
<1> SUFFICES P
  OBVIOUS
<1>0. job \in [Devices -> JobRecords] /\ NoJob \in JobRecords
  BY DEF TypeInv, JobsTyped, JobRecords, NoJob
<1> HIDE DEF P
<1>1. ASSUME job' = job PROVE P
  BY <1>0, <1>1 DEF P, JobMove
<1>2. CASE UNCHANGED vars
  BY <1>1, <1>2 DEF vars, serverVars
<1>3. ASSUME NEW d \in Devices,
             \/ Login(d) \/ EditMessage(d) \/ FlushOutbox(d) \/ DeleteMessage(d)
             \/ OpenConversation(d) \/ HandleOpen(d)
             \/ FetchKeys(d) \/ ReceiveEdit(d) \/ ReceiveDelete(d) \/ ReceiveEvents(d)
             \/ ReceiveFull(d) \/ ReceiveOpen(d) \/ ReceivePush(d)
             \/ Disconnect(d) \/ Logout(d)
      PROVE  P
  <2>1. job' = job
    BY Zenon, <1>3 DEF Login, EditMessage, FlushOutbox, DeleteMessage, OpenConversation, HandleOpen,
        FetchKeys, ReceiveEdit, ReceiveDelete, ReceiveEvents, ReceiveFull, ReceiveOpen,
        ReceivePush, Disconnect, Logout, serverVars
  <2>2. QED
    BY <1>1, <2>1
<1>4. ASSUME NEW d \in Devices, HandleEdit(d) PROVE P
  <2>1. FirstRequest(d).arg \in Nat
    BY <1>4, HandlingIs DEF HandleEdit
  <2>2. CASE row.deleted
    <3>1. job' = job
      BY <1>4, <2>2 DEF HandleEdit
    <3>2. QED
      BY <1>1, <3>1
  <2>3. CASE ~row.deleted
    <3>1. StartJob(d, "edit", FirstRequest(d).arg, Users)
      BY <1>4, <2>3 DEF HandleEdit, FirstRequest
    <3>2. /\ job' \in [Devices -> JobRecords] /\ IsJob(job'[d], "edit", FirstRequest(d).arg, Users)
          /\ \A c \in Devices : c # d => job'[c] = job[c]
      BY <2>1, <3>1, StartJobIs
    <3>3. QED
      BY <1>4, <2>3, <3>2 DEF P, JobMove, EditStarts
  <2>4. QED
    BY <2>2, <2>3
<1>5. ASSUME NEW d \in Devices, HandleDelete(d) PROVE P
  <2>1. StartJob(d, "delete", 0, Users)
    BY <1>5 DEF HandleDelete
  <2>2. /\ job' \in [Devices -> JobRecords] /\ IsJob(job'[d], "delete", 0, Users)
        /\ \A c \in Devices : c # d => job'[c] = job[c]
    BY <2>1, StartJobIs
  <2>3. QED
    BY <1>5, <2>2 DEF P, JobMove, DeleteStarts
<1>6. ASSUME NEW d \in Devices, HandleSync(d) PROVE P
  <2>1. FirstRequest(d).arg \in Nat
    BY <1>6, HandlingIs DEF HandleSync
  <2>2. CASE BehindWatermark(FirstRequest(d).arg)
    <3>1. job' = job
      BY <1>6, <2>2 DEF HandleSync, FirstRequest
    <3>2. QED
      BY <1>1, <3>1
  <2>3. CASE ~BehindWatermark(FirstRequest(d).arg)
    <3>1. StartJob(d, "sync", FirstRequest(d).arg, {})
      BY <1>6, <2>3 DEF HandleSync, FirstRequest
    <3>2. /\ job' \in [Devices -> JobRecords] /\ IsJob(job'[d], "sync", FirstRequest(d).arg, {})
          /\ \A c \in Devices : c # d => job'[c] = job[c]
      BY <2>1, <3>1, StartJobIs
    <3>3. QED
      BY <1>6, <2>3, <3>2 DEF P, JobMove, SyncStarts
  <2>4. QED
    BY <2>2, <2>3
<1>7. ASSUME NEW d \in Devices, ReadEvents(d) PROVE P
  <2>1. job' = [job EXCEPT ![d] = NoJob]
    BY <1>7 DEF ReadEvents
  <2>2. QED
    BY <1>0, <1>7, <2>1 DEF P, JobMove, JobEnds
<1>8. ASSUME NEW d \in Devices, NEW u \in Users, Announce(d, u) PROVE P
  <2>1. CASE job[d].todo = {u}
    <3>1. job' = [job EXCEPT ![d] = NoJob]
      BY <1>8, <2>1 DEF Announce
    <3>2. QED
      BY <1>0, <1>8, <2>1, <3>1 DEF P, JobMove, JobEnds
  <2>2. CASE job[d].todo # {u}
    <3>1. PICK j : j = [job[d] EXCEPT !.todo = job[d].todo \ {u}]
      OBVIOUS
    <3>2. IsJob(j, job[d].kind, job[d].arg, job[d].todo \ {u})
      BY <1>0, <3>1 DEF IsJob, JobRecords
    <3>3. job' = [job EXCEPT ![d] = j]
      BY <1>8, <2>2, <3>1 DEF Announce
    <3>4. job' \in [Devices -> JobRecords] /\ job'[d] = j /\ \A c \in Devices : c # d => job'[c] = job[c]
      BY <1>0, <3>2, <3>3 DEF IsJob
    <3>5. QED
      BY <1>8, <2>2, <3>2, <3>4 DEF P, JobMove, AnnounceGoesOn
  <2>3. QED
    BY <2>1, <2>2
<1>9. CASE PruneDelete \/ PruneMark
  BY <1>1, <1>9 DEF PruneDelete, PruneMark
<1>10. CASE ServerCrash
  <2>1. job' = [d \in Devices |-> NoJob]
    BY <1>10 DEF ServerCrash
  <2>2. QED
    BY <1>0, <1>10, <2>1 DEF P, JobMove, JobEnds
<1>11. QED
  BY <1>2, <1>3, <1>4, <1>5, <1>6, <1>7, <1>8, <1>9, <1>10 DEF Next

-----------------------------------------------------------------------------
(***************************************************************************)
(* Cursors and waiting edits.                                              *)
(***************************************************************************)
CursorMove(d) ==
    \/ cursor'[d] = cursor[d]
    \/ /\ ReceiveEvents(d) /\ LastSeq(FirstAnswer(d)) > cursor[d]
       /\ cursor'[d] = LastSeq(FirstAnswer(d))
    \/ /\ ReceiveFull(d) /\ FirstAnswer(d) \in Answers(d) /\ FirstAnswer(d).kind = "full"
       /\ FirstAnswer(d).arg > cursor[d] /\ cursor'[d] = FirstAnswer(d).arg
    \/ Logout(d) /\ cursor'[d] = 0

LEMMA CursorsMove ==
    ASSUME TypeInv, [Next]_vars
    PROVE  /\ cursor' \in [Devices -> Nat]
           /\ \A d \in Devices : CursorMove(d) /\ cursor'[d] <= Len(log)
<1> DEFINE P == cursor' \in [Devices -> Nat] /\ \A d \in Devices : CursorMove(d) /\ cursor'[d] <= Len(log)
<1> SUFFICES P
  OBVIOUS
<1>0. cursor \in [Devices -> Nat] /\ Len(log) \in Nat /\ \A d \in Devices : cursor[d] <= Len(log)
  BY Lengths DEF TypeInv, DevicesTyped
<1> HIDE DEF P
<1>1. ASSUME cursor' = cursor PROVE P
  BY <1>0, <1>1 DEF P, CursorMove
<1>2. ASSUME NEW d \in Devices, NEW a, {a} \subseteq Nat, a <= Len(log), cursor' = [cursor EXCEPT ![d] = a],
             cursor'[d] = a => CursorMove(d)
      PROVE  P
  <2>1. PICK n \in Nat : n = a
    BY <1>2
  <2>2. QED
    BY <1>0, <1>2, <2>1 DEF P, CursorMove
<1>3. CASE UNCHANGED vars
  BY <1>1, <1>3 DEF vars, localVars
<1>4. ASSUME NEW d \in Devices,
             \/ Login(d) \/ EditMessage(d) \/ FlushOutbox(d) \/ DeleteMessage(d)
             \/ OpenConversation(d) \/ HandleEdit(d) \/ HandleDelete(d) \/ HandleOpen(d)
             \/ HandleSync(d) \/ ReadEvents(d) \/ (\E u \in Users : Announce(d, u))
             \/ FetchKeys(d) \/ ReceiveEdit(d) \/ ReceiveDelete(d) \/ ReceiveOpen(d)
             \/ ReceivePush(d) \/ Disconnect(d)
      PROVE  P
  <2>1. cursor' = cursor
    BY Zenon, <1>4 DEF Login, EditMessage, FlushOutbox, DeleteMessage, OpenConversation,
        HandleEdit, HandleDelete, HandleOpen, HandleSync, ReadEvents, Announce, FetchKeys,
        ReceiveEdit, ReceiveDelete, ReceiveOpen, ReceivePush, Disconnect, localVars
  <2>2. QED
    BY <1>1, <2>1
<1>5. ASSUME NEW d \in Devices, ReceiveEvents(d) PROVE P
  <2>1. cursor' = [cursor EXCEPT ![d] = IF LastSeq(FirstAnswer(d)) > cursor[d]
                                        THEN LastSeq(FirstAnswer(d)) ELSE cursor[d]]
    BY <1>5 DEF ReceiveEvents, FirstAnswer
  <2>2. LastSeq(FirstAnswer(d)) \in Nat /\ LastSeq(FirstAnswer(d)) <= Len(log)
    BY <1>5, PageAnswered, LastSeqIs
  <2>3. CASE LastSeq(FirstAnswer(d)) > cursor[d]
    BY <1>2, <1>5, <2>1, <2>2, <2>3 DEF CursorMove
  <2>4. CASE ~(LastSeq(FirstAnswer(d)) > cursor[d])
    BY <1>0, <1>1, <2>1, <2>4
  <2>5. QED
    BY <2>3, <2>4
<1>6. ASSUME NEW d \in Devices, ReceiveFull(d) PROVE P
  <2>1. /\ Answer(d, "full")
        /\ cursor' = [cursor EXCEPT ![d] = IF FirstAnswer(d).arg > cursor[d]
                                        THEN FirstAnswer(d).arg ELSE cursor[d]]
    BY <1>6 DEF ReceiveFull, FirstAnswer
  <2>2. /\ FirstAnswer(d) \in Answers(d) /\ FirstAnswer(d).kind = "full"
        /\ FirstAnswer(d).arg \in Nat /\ FirstAnswer(d).arg <= Len(log)
    BY <2>1, Answered DEF FirstAnswer, GoodReply, ReplyRecords
  <2>3. CASE FirstAnswer(d).arg > cursor[d]
    BY <1>2, <1>6, <2>1, <2>2, <2>3 DEF CursorMove
  <2>4. CASE ~(FirstAnswer(d).arg > cursor[d])
    BY <1>0, <1>1, <2>1, <2>4
  <2>5. QED
    BY <2>3, <2>4
<1>7. ASSUME NEW d \in Devices, Logout(d) PROVE P
  <2>1. cursor' = [cursor EXCEPT ![d] = 0] /\ {0} \subseteq Nat /\ 0 <= Len(log)
    BY <1>0, <1>7 DEF Logout
  <2>2. cursor'[d] = 0 => CursorMove(d)
    BY <1>7 DEF CursorMove
  <2>3. QED
    BY <1>2, <2>1, <2>2
<1>8. CASE PruneDelete \/ PruneMark \/ ServerCrash
  BY <1>1, <1>8 DEF PruneDelete, PruneMark, ServerCrash, localVars
<1>9. QED
  BY <1>3, <1>4, <1>5, <1>6, <1>7, <1>8 DEF Next

EditMove(d) ==
    \/ edit'[d] = edit[d]
    \/ EditMessage(d) /\ edit'[d] = texts' /\ texts' # 0
    \/ FetchKeys(d) /\ FetchEnds(d) /\ edit'[d] = 0
    \/ ReceiveEdit(d) /\ edit'[d] = 0
    \/ (Disconnect(d) \/ ServerCrash) /\ d \notin online' /\ edit'[d] = 0

LEMMA EditsMove ==
    ASSUME TypeInv, [Next]_vars
    PROVE  /\ edit' \in [Devices -> Nat]
           /\ \A d \in Devices : EditMove(d) /\ edit'[d] <= texts'
<1> DEFINE P == edit' \in [Devices -> Nat] /\ \A d \in Devices : EditMove(d) /\ edit'[d] <= texts'
<1> SUFFICES P
  OBVIOUS
<1>0. /\ edit \in [Devices -> Nat] /\ texts' \in Nat /\ texts \in Nat
      /\ \A d \in Devices : edit[d] <= texts'
  <2>1. texts' \in Nat /\ texts <= texts' /\ texts \in Nat
    BY StepGrows, Lengths DEF Grows
  <2>2. edit \in [Devices -> Nat] /\ \A d \in Devices : edit[d] <= texts
    BY DEF TypeInv, DevicesTyped
  <2>3. QED
    BY <2>1, <2>2
<1> HIDE DEF P
<1>1. ASSUME edit' = edit PROVE P
  BY <1>0, <1>1 DEF P, EditMove
<1>2. ASSUME NEW d \in Devices, NEW a, {a} \subseteq Nat, a <= texts', edit' = [edit EXCEPT ![d] = a],
             edit'[d] = a => EditMove(d)
      PROVE  P
  <2>1. PICK n \in Nat : n = a
    BY <1>2
  <2>2. QED
    BY <1>0, <1>2, <2>1 DEF P, EditMove
<1>3. CASE UNCHANGED vars
  BY <1>1, <1>3 DEF vars, uiVars
<1>4. ASSUME NEW d \in Devices,
             \/ Login(d) \/ FlushOutbox(d) \/ DeleteMessage(d)
             \/ OpenConversation(d) \/ HandleEdit(d) \/ HandleDelete(d) \/ HandleOpen(d)
             \/ HandleSync(d) \/ ReadEvents(d) \/ (\E u \in Users : Announce(d, u))
             \/ ReceiveDelete(d) \/ ReceiveEvents(d) \/ ReceiveFull(d) \/ ReceiveOpen(d)
             \/ ReceivePush(d) \/ Logout(d)
      PROVE  P
  <2>1. edit' = edit
    BY Zenon, <1>4 DEF Login, FlushOutbox, DeleteMessage, OpenConversation,
        HandleEdit, HandleDelete, HandleOpen, HandleSync, ReadEvents, Announce,
        ReceiveDelete, ReceiveEvents, ReceiveFull, ReceiveOpen, ReceivePush, Logout, uiVars
  <2>2. QED
    BY <1>1, <2>1
<1>5. ASSUME NEW d \in Devices, EditMessage(d) PROVE P
  <2>1. edit' = [edit EXCEPT ![d] = texts'] /\ texts' = texts + 1
    BY <1>5 DEF EditMessage
  <2>2. texts' # 0 /\ {texts'} \subseteq Nat /\ texts' <= texts'
    BY <1>0, <2>1
  <2>3. edit'[d] = texts' => EditMove(d)
    BY <1>5, <2>2 DEF EditMove
  <2>4. QED
    BY <1>2, <2>1, <2>2, <2>3
<1>6. ASSUME NEW d \in Devices, FetchKeys(d) PROVE P
  <2>1. CASE edit' = edit
    BY <1>1, <2>1
  <2>2. CASE FetchEnds(d)
    <3>1. \/ edit' = [edit EXCEPT ![d] = 0]
          \/ edit' = [edit EXCEPT ![d] = edit[d]]
      BY <2>2 DEF FetchEnds
    <3>2. CASE edit' = [edit EXCEPT ![d] = 0]
      <4>1. {0} \subseteq Nat /\ 0 <= texts'
        BY <1>0
      <4>2. edit'[d] = 0 => EditMove(d)
        BY <1>6, <2>2 DEF EditMove
      <4>3. QED
        BY <1>2, <3>2, <4>1, <4>2
    <3>3. CASE edit' = [edit EXCEPT ![d] = edit[d]]
      BY <1>0, <1>1, <3>3
    <3>4. QED
      BY <3>1, <3>2, <3>3
  <2>3. QED
    BY <1>6, <2>1, <2>2, FetchCases DEF FetchSends
<1>7. ASSUME NEW d \in Devices, ReceiveEdit(d) PROVE P
  <2>0. edit' = [edit EXCEPT ![d] = 0]
    BY <1>7 DEF ReceiveEdit
  <2>1. {0} \subseteq Nat /\ 0 <= texts'
    BY <1>0
  <2>2. edit'[d] = 0 => EditMove(d)
    BY <1>7 DEF EditMove
  <2>3. QED
    BY <1>2, <2>0, <2>1, <2>2
<1>8. ASSUME NEW d \in Devices, Disconnect(d) PROVE P
  <2>1. /\ online' = online \ {d}
        /\ edit' = [edit EXCEPT ![d] = 0] \/ edit' = [edit EXCEPT ![d] = edit[d]]
    BY <1>8 DEF Disconnect, Drop
  <2>2. CASE edit' = [edit EXCEPT ![d] = 0]
    <3>0. d \notin online'
      BY <2>1
    <3>1. {0} \subseteq Nat /\ 0 <= texts'
      BY <1>0
    <3>2. edit'[d] = 0 => EditMove(d)
      BY <1>8, <3>0 DEF EditMove
    <3>3. QED
      BY <1>2, <2>2, <3>1, <3>2
  <2>3. CASE edit' = [edit EXCEPT ![d] = edit[d]]
    BY <1>0, <1>1, <2>3
  <2>4. QED
    BY <2>1, <2>2, <2>3
<1>9. CASE PruneDelete \/ PruneMark \/ ServerCrash
  BY <1>1, <1>9 DEF PruneDelete, PruneMark, ServerCrash, uiVars
<1>10. QED
  BY <1>3, <1>4, <1>5, <1>6, <1>7, <1>8, <1>9 DEF Next

-----------------------------------------------------------------------------
(***************************************************************************)
(* The types are kept.                                                     *)
(***************************************************************************)
LEMMA LogStep ==
    ASSUME TypeInv, [Next]_vars
    PROVE  /\ LogTyped'
           /\ \/ log' = log
              \/ \E d \in Devices, u \in Users : Announce(d, u)
<1>0. Grows /\ LogTyped
  BY StepGrows DEF TypeInv
<1>1. ASSUME NEW d \in Devices, NEW u \in Users, Announce(d, u) PROVE LogTyped'
  <2>1. PICK v : v = NewEvent(d, u)
    OBVIOUS
  <2>2. /\ v.kind = job[d].kind /\ v.env = job[d].arg /\ v.by = d /\ v.kind \in {"edit", "delete"}
        /\ log' \in Seq(EventRecords) /\ Len(log') = Len(log) + 1 /\ log'[Len(log) + 1] = v
        /\ \A i \in 1 .. Len(log) : log'[i] = log[i]
    BY <1>1, <2>1, AnnounceLogs
  <2>3. GoodJob(d) /\ \A e : GoodEdit(e, d) => GoodEdit(e, d)'
    BY <1>0, GoodStays DEF TypeInv, JobsTyped
  <2>9. PICK n \in Nat : n = Len(log) + 1
    BY Lengths
  <2>4. GoodEvent(n)'
    BY <2>2, <2>3, <2>9 DEF GoodEvent, GoodJob
  <2>5. \A i \in 1 .. Len(log) : GoodEvent(i)'
    BY <1>0, GoodStays
  <2>6. \A i \in 1 .. Len(log') : i = n \/ i \in 1 .. Len(log)
    BY <2>2, <2>9, Lengths
  <2>7. \A i \in 1 .. Len(log') : GoodEvent(i)'
    BY <2>4, <2>5, <2>6
  <2>10. /\ 4 <= Len(log') /\ \A i \in 1 .. 4 : log'[i] = log[i]
    BY <1>0, <2>2, Lengths DEF LogTyped
  <2>8. QED
    BY <1>0, <2>2, <2>7, <2>10 DEF LogTyped
<1>2. ASSUME log' = log PROVE LogTyped'
  BY <1>0, <1>2, GoodStays DEF LogTyped
<1>3. \/ log' = log \/ \E d \in Devices, u \in Users : Announce(d, u)
  <2>1. ASSUME NEW d \in Devices,
             \/ Login(d) \/ EditMessage(d) \/ FlushOutbox(d) \/ DeleteMessage(d)
             \/ OpenConversation(d) \/ HandleEdit(d) \/ HandleDelete(d) \/ HandleOpen(d)
             \/ HandleSync(d) \/ ReadEvents(d) \/ FetchKeys(d) \/ ReceiveEdit(d)
             \/ ReceiveDelete(d) \/ ReceiveEvents(d) \/ ReceiveFull(d) \/ ReceiveOpen(d)
             \/ ReceivePush(d) \/ Disconnect(d) \/ Logout(d)
        PROVE  log' = log
    BY Zenon, <2>1 DEF Login, EditMessage, FlushOutbox, DeleteMessage, OpenConversation,
        HandleEdit, HandleDelete, HandleOpen, HandleSync, ReadEvents, FetchKeys,
        ReceiveEdit, ReceiveDelete, ReceiveEvents, ReceiveFull, ReceiveOpen, ReceivePush,
        Disconnect, Logout, serverVars
  <2>2. PruneDelete \/ PruneMark \/ ServerCrash \/ UNCHANGED vars => log' = log
    BY Zenon DEF PruneDelete, PruneMark, ServerCrash, vars, serverVars
  <2>3. QED
    BY <2>1, <2>2 DEF Next
<1>4. QED
  BY <1>1, <1>2, <1>3

MadeStep ==
    /\ made' \in Seq(MadeRecords) /\ 1 <= Len(made')
    /\ \A e \in 1 .. Len(made') : made'[e].text \in 1 .. texts'
    /\ \/ made' = made
       \/ \E d \in Devices : /\ FetchKeys(d) /\ FetchSends(d) /\ Len(made') = Len(made) + 1
                             /\ made'[Len(made) + 1].by = d
                             /\ made'[Len(made) + 1].text = edit[d]

LEMMA MadeStays ==
    ASSUME TypeInv, [Next]_vars
    PROVE  MadeStep
<1>0. /\ Grows /\ made \in Seq(MadeRecords) /\ 1 <= Len(made)
      /\ \A e \in 1 .. Len(made) : made[e].text \in 1 .. texts
      /\ texts \in Nat /\ texts' \in Nat /\ texts <= texts'
  BY StepGrows, Lengths DEF TypeInv, ServerTyped, Grows
<1>1. ASSUME made' = made PROVE MadeStep
  <2>1. \A e \in 1 .. Len(made) : made[e].text \in 1 .. texts'
    BY <1>0
  <2>2. QED
    BY <1>0, <1>1, <2>1 DEF MadeStep
<1>2. ASSUME NEW d \in Devices, FetchKeys(d), FetchSends(d) PROVE MadeStep
  <2>1. PICK v : v = NewEnvelope(d)
    OBVIOUS
  <2>2. /\ v.text = edit[d] /\ v.by = d /\ made' \in Seq(MadeRecords)
        /\ Len(made') = Len(made) + 1 /\ made'[Len(made) + 1] = v
        /\ \A e \in 1 .. Len(made) : made'[e] = made[e]
    BY <1>2, <2>1, FetchMakes
  <2>3. edit[d] \in Nat /\ edit[d] <= texts /\ edit[d] # 0
    BY <1>2 DEF TypeInv, DevicesTyped, FetchSends
  <2>4. \A e \in 1 .. Len(made') : e = Len(made) + 1 \/ e \in 1 .. Len(made)
    BY <2>2, Lengths
  <2>5. \A e \in 1 .. Len(made) : made'[e].text \in 1 .. texts'
    BY <1>0, <2>2
  <2>6. made'[Len(made) + 1].text \in 1 .. texts'
    BY <1>0, <2>2, <2>3
  <2>7. \A e \in 1 .. Len(made') : made'[e].text \in 1 .. texts'
    BY <2>4, <2>5, <2>6
  <2>8. QED
    BY <1>0, <1>2, <2>2, <2>7, Lengths DEF MadeStep
<1>3. \/ made' = made \/ \E d \in Devices : FetchKeys(d) /\ FetchSends(d)
  <2>1. ASSUME NEW d \in Devices,
             \/ Login(d) \/ EditMessage(d) \/ FlushOutbox(d) \/ DeleteMessage(d)
             \/ OpenConversation(d) \/ HandleEdit(d) \/ HandleDelete(d) \/ HandleOpen(d)
             \/ HandleSync(d) \/ ReadEvents(d) \/ (\E u \in Users : Announce(d, u))
             \/ ReceiveEdit(d)
             \/ ReceiveDelete(d) \/ ReceiveEvents(d) \/ ReceiveFull(d) \/ ReceiveOpen(d)
             \/ ReceivePush(d) \/ Disconnect(d) \/ Logout(d)
        PROVE  made' = made
    BY Zenon, <2>1 DEF Login, EditMessage, FlushOutbox, DeleteMessage, OpenConversation,
        HandleEdit, HandleDelete, HandleOpen, HandleSync, ReadEvents, Announce,
        ReceiveEdit, ReceiveDelete, ReceiveEvents, ReceiveFull, ReceiveOpen, ReceivePush,
        Disconnect, Logout, Drop, uiVars
  <2>2. PruneDelete \/ PruneMark \/ ServerCrash \/ UNCHANGED vars => made' = made
    BY Zenon DEF PruneDelete, PruneMark, ServerCrash, Drop, vars, uiVars
  <2>3. ASSUME NEW d \in Devices, FetchKeys(d) PROVE FetchSends(d) \/ made' = made
    BY <2>3, FetchCases DEF FetchEnds
  <2>4. QED
    BY <2>1, <2>2, <2>3 DEF Next
<1>4. QED
  BY <1>1, <1>2, <1>3

CountersTyped ==
    /\ row \in [env : Nat, deleted : BOOLEAN] /\ row.env <= Len(made)
    /\ (row.deleted <=> row.env = 0)
    /\ pruned \in Nat /\ watermark \in Nat /\ marking \in Nat
    /\ pruned <= Len(log) /\ watermark <= pruned /\ marking <= pruned
    /\ texts \in Nat /\ acts \in Nat
    /\ 1 <= texts /\ texts <= acts + 1 /\ acts <= MaxActs

RowTyped ==
    /\ row \in [env : Nat, deleted : BOOLEAN] /\ row.env <= Len(made)
    /\ (row.deleted <=> row.env = 0)

LEMMA RowStays ==
    ASSUME TypeInv, Grows, row' = row
    PROVE  RowTyped'
<1>1. row \in [env : Nat, deleted : BOOLEAN] /\ row.env <= Len(made) /\ (row.deleted <=> row.env = 0)
  BY DEF TypeInv, ServerTyped
<1>2. row.env \in Nat /\ Len(made) \in Nat /\ Len(made') \in Nat /\ Len(made) <= Len(made')
  BY <1>1 DEF Grows
<1>3. QED
  BY <1>1, <1>2 DEF RowTyped

LEMMA CountersStep ==
    ASSUME TypeInv, [Next]_vars
    PROVE  CountersTyped'
<1>0. /\ Grows /\ CountersTyped /\ MaxActs \in Nat
      /\ Len(log) \in Nat /\ Len(log') \in Nat /\ Len(log) <= Len(log')
  BY StepGrows, EditNumbers DEF TypeInv, ServerTyped, CountersTyped, Grows
<1>1. ASSUME RowTyped', pruned' = pruned, watermark' = watermark, marking' = marking \/ marking' = 0,
             texts' = texts, acts' = acts \/ (acts < MaxActs /\ acts' = acts + 1)
      PROVE  CountersTyped'
  BY <1>0, <1>1 DEF CountersTyped, RowTyped
<1>2. ASSUME NEW d \in Devices,
             \/ Login(d) \/ FlushOutbox(d) \/ DeleteMessage(d)
             \/ OpenConversation(d) \/ HandleOpen(d)
             \/ HandleSync(d) \/ ReadEvents(d) \/ FetchKeys(d)
             \/ ReceiveEdit(d)
             \/ ReceiveDelete(d) \/ ReceiveEvents(d) \/ ReceiveFull(d) \/ ReceiveOpen(d)
             \/ ReceivePush(d) \/ Disconnect(d) \/ Logout(d)
      PROVE  CountersTyped'
  <2>1. /\ row' = row /\ pruned' = pruned /\ watermark' = watermark /\ marking' = marking
        /\ texts' = texts
        /\ acts' = acts \/ (acts < MaxActs /\ acts' = acts + 1)
    BY Zenon, <1>2 DEF Login, FlushOutbox, DeleteMessage, OpenConversation, HandleOpen, HandleSync,
        ReadEvents, FetchKeys, ReceiveEdit, ReceiveDelete, ReceiveEvents, ReceiveFull,
        ReceiveOpen, ReceivePush, Disconnect, Logout, Drop, serverVars, uiVars
  <2>2. RowTyped'
    BY <1>0, <2>1, RowStays
  <2>3. QED
    BY <1>1, <2>1, <2>2
<1>3. ASSUME NEW d \in Devices, NEW u \in Users, Announce(d, u) PROVE CountersTyped'
  <2>1. /\ row' = row /\ pruned' = pruned /\ watermark' = watermark /\ marking' = marking
        /\ texts' = texts /\ acts' = acts
    BY <1>3 DEF Announce, uiVars
  <2>2. RowTyped'
    BY <1>0, <2>1, RowStays
  <2>3. QED
    BY <1>1, <2>1, <2>2
<1>4. ASSUME NEW d \in Devices, EditMessage(d) PROVE CountersTyped'
  <2>1. /\ row' = row /\ pruned' = pruned /\ watermark' = watermark /\ marking' = marking
        /\ texts' = texts + 1 /\ acts < MaxActs /\ acts' = acts + 1
    BY <1>4 DEF EditMessage, serverVars
  <2>2. RowTyped'
    BY <1>0, <2>1, RowStays
  <2>3. QED
    BY <1>0, <2>1, <2>2 DEF CountersTyped, RowTyped
<1>5. ASSUME NEW d \in Devices, HandleEdit(d) PROVE CountersTyped'
  <2>1. /\ pruned' = pruned /\ watermark' = watermark /\ marking' = marking
        /\ texts' = texts /\ acts' = acts /\ made' = made
        /\ row' = row \/ (~row.deleted /\ row' = [row EXCEPT !.env = FirstRequest(d).arg])
    BY <1>5 DEF HandleEdit, uiVars, FirstRequest
  <2>2. FirstRequest(d).arg \in 2 .. Len(made)
    BY <1>5, HandlingIs DEF HandleEdit, GoodRequest, GoodEdit
  <2>3. PICK e \in 2 .. Len(made) : e = FirstRequest(d).arg
    BY <2>2
  <2>4. row \in [env : Nat, deleted : BOOLEAN]
    BY <1>0 DEF CountersTyped
  <2>5. RowTyped'
    BY <1>0, <2>1, <2>3, <2>4, RowStays, Lengths DEF RowTyped
  <2>6. QED
    BY <1>1, <2>1, <2>5
<1>6. ASSUME NEW d \in Devices, HandleDelete(d) PROVE CountersTyped'
  <2>1. /\ pruned' = pruned /\ watermark' = watermark /\ marking' = marking
        /\ texts' = texts /\ acts' = acts /\ made' = made
        /\ row' = [env |-> 0, deleted |-> TRUE]
    BY <1>6 DEF HandleDelete, uiVars
  <2>2. RowTyped'
    BY <2>1, Lengths DEF RowTyped
  <2>3. QED
    BY <1>1, <2>1, <2>2
<1>7. CASE PruneDelete
  <2>1. /\ row' = row /\ log' = log /\ texts' = texts /\ watermark' = watermark
        /\ acts < MaxActs /\ acts' = acts + 1
        /\ \E cutoff \in pruned + 1 .. Len(log) : \E last \in cutoff .. Len(log) :
              pruned' = last /\ marking' = cutoff
    BY <1>7 DEF PruneDelete, uiVars
  <2>2. RowTyped'
    BY <1>0, <2>1, RowStays
  <2>3. PICK cutoff \in pruned + 1 .. Len(log) : \E last \in cutoff .. Len(log) :
           pruned' = last /\ marking' = cutoff
    BY <2>1
  <2>4. QED
    BY <1>0, <2>1, <2>2, <2>3 DEF CountersTyped, RowTyped
<1>8. CASE PruneMark
  <2>1. /\ row' = row /\ pruned' = pruned /\ texts' = texts /\ acts' = acts /\ marking' = 0
        /\ watermark' = marking \/ watermark' = watermark
    BY <1>8 DEF PruneMark, uiVars
  <2>2. RowTyped'
    BY <1>0, <2>1, RowStays
  <2>3. QED
    BY <1>0, <2>1, <2>2 DEF CountersTyped, RowTyped
<1>9. CASE ServerCrash \/ UNCHANGED vars
  <2>1. /\ row' = row /\ pruned' = pruned /\ watermark' = watermark
        /\ marking' = marking \/ marking' = 0
        /\ texts' = texts
        /\ acts' = acts \/ (acts < MaxActs /\ acts' = acts + 1)
    BY <1>9 DEF ServerCrash, Drop, vars, serverVars, uiVars
  <2>2. RowTyped'
    BY <1>0, <2>1, RowStays
  <2>3. QED
    BY <1>1, <2>1, <2>2
<1>10. QED
  BY <1>2, <1>3, <1>4, <1>5, <1>6, <1>7, <1>8, <1>9 DEF Next

LEMMA RequestIn ==
    ASSUME TypeInv, NEW d \in Devices, NEW q \in Requests(d)
    PROVE  q \in RequestRecords /\ GoodRequest(d, q) /\ d \in online
<1>1. inbox[d] \in Seq(RequestRecords)
  BY DEF TypeInv, QueuesTyped
<1>2. q \in RequestRecords /\ inbox[d] # <<>>
  BY <1>1 DEF Requests
<1>3. QED
  BY <1>2 DEF TypeInv, NetTyped

LEMMA AnswerIn ==
    ASSUME TypeInv, NEW d \in Devices, NEW r \in Answers(d)
    PROVE  r \in ReplyRecords /\ GoodReply(d, r) /\ d \in online
<1>1. replies[d] \in Seq(ReplyRecords)
  BY DEF TypeInv, QueuesTyped
<1>2. r \in ReplyRecords /\ replies[d] # <<>>
  BY <1>1 DEF Answers
<1>3. QED
  BY <1>2 DEF TypeInv, NetTyped

LEMMA JobIs ==
    ASSUME TypeInv, NEW d \in Devices
    PROVE  job[d] \in JobRecords /\ GoodJob(d) /\ job[d].arg \in Nat /\ job[d].todo \subseteq Users
BY DEF TypeInv, JobsTyped, JobRecords

LEMMA JobsStep ==
    ASSUME TypeInv, [Next]_vars
    PROVE  JobsTyped'
<1>0. Grows /\ job' \in [Devices -> JobRecords] /\ \A d \in Devices : JobMove(d)
  BY StepGrows, JobsMove
<1>1. SUFFICES ASSUME NEW d \in Devices PROVE GoodJob(d)'
  BY <1>0 DEF JobsTyped
<1>2. GoodJob(d) /\ job[d] \in JobRecords /\ Len(log) <= Len(log') /\ Len(log) \in Nat /\ Len(log') \in Nat
  BY <1>0, JobIs DEF Grows
<1>3. \A e : GoodEdit(e, d) => GoodEdit(e, d)'
  BY <1>0, GoodStays
<1>4. CASE job'[d] = job[d]
  <2>1. job[d].arg \in Nat
    BY <1>2 DEF JobRecords
  <2>2. QED
    BY <1>2, <1>3, <1>4, <2>1 DEF GoodJob
<1>5. CASE EditStarts(d)
  <2>1. GoodEdit(FirstRequest(d).arg, d) /\ Users # {}
    BY <1>5, HandlingIs DEF EditStarts, HandleEdit, GoodRequest, Users
  <2>2. QED
    BY <1>3, <1>5, <2>1 DEF EditStarts, IsJob, GoodJob
<1>6. CASE DeleteStarts(d)
  <2>1. d \in Authors /\ Users # {}
    BY <1>6, HandlingIs DEF DeleteStarts, HandleDelete, GoodRequest, Users
  <2>2. QED
    BY <1>6, <2>1 DEF DeleteStarts, IsJob, GoodJob
<1>7. CASE SyncStarts(d)
  <2>1. FirstRequest(d).arg \in Nat /\ FirstRequest(d).arg <= Len(log)
    BY <1>7, HandlingIs DEF SyncStarts, HandleSync, GoodRequest
  <2>2. QED
    BY <1>2, <1>7, <2>1 DEF SyncStarts, IsJob, GoodJob
<1>8. CASE AnnounceGoesOn(d)
  <2>1. PICK u \in Users : /\ Announce(d, u) /\ job[d].todo # {u}
                           /\ IsJob(job'[d], job[d].kind, job[d].arg, job[d].todo \ {u})
    BY <1>8 DEF AnnounceGoesOn
  <2>5. u \in job[d].todo
    BY Zenon, <2>1 DEF Announce
  <2>2. u \in job[d].todo /\ job[d].kind \in {"edit", "delete"}
    BY <2>1, <2>5, AnnounceLogs
  <2>3. job[d].todo \ {u} # {}
    BY <2>1, <2>2
  <2>4. QED
    BY <1>2, <1>3, <2>1, <2>2, <2>3 DEF IsJob, GoodJob
<1>9. CASE JobEnds(d)
  BY <1>9 DEF JobEnds, GoodJob, NoJob
<1>10. QED
  BY <1>0, <1>4, <1>5, <1>6, <1>7, <1>8, <1>9 DEF JobMove

LEMMA SlipsStep ==
    ASSUME TypeInv, [Next]_vars
    PROVE  slips' \in [Devices -> SUBSET Slips]
<1>0. slips \in [Devices -> SUBSET Slips]
  BY DEF TypeInv, DevicesTyped
<1>1. \/ slips' = slips
      \/ \E D : \E slip \in Slips : SlipAt(D, slip)
      \/ ServerCrash
  <2>1. ASSUME NEW d \in Devices,
               \/ Login(d) \/ FlushOutbox(d) \/ DeleteMessage(d) \/ OpenConversation(d)
               \/ HandleDelete(d) \/ HandleOpen(d) \/ ReadEvents(d)
               \/ (\E u \in Users : Announce(d, u)) \/ FetchKeys(d)
               \/ ReceiveEdit(d) \/ ReceiveDelete(d) \/ ReceiveEvents(d) \/ ReceiveFull(d)
               \/ Logout(d)
        PROVE  slips' = slips
    BY Zenon, <2>1 DEF Login, FlushOutbox, DeleteMessage, OpenConversation, HandleDelete,
        HandleOpen, ReadEvents, Announce, FetchKeys, ReceiveEdit, ReceiveDelete, ReceiveEvents,
        ReceiveFull, Logout
  <2>2. ASSUME NEW d \in Devices,
               \/ EditMessage(d) \/ HandleEdit(d) \/ HandleSync(d)
               \/ ReceiveOpen(d) \/ ReceivePush(d) \/ Disconnect(d)
        PROVE  slips' = slips \/ \E D : \E slip \in Slips : SlipAt(D, slip)
    BY SlipNames, <2>2 DEF EditMessage, HandleEdit, HandleSync, ReceiveOpen, ReceivePush,
        Disconnect
  <2>3. CASE PruneDelete \/ PruneMark \/ UNCHANGED vars
    BY SlipNames, <2>3 DEF PruneDelete, PruneMark, vars
  <2>4. QED
    BY <2>1, <2>2, <2>3 DEF Next
<1>2. CASE ServerCrash
  <2>1. slips' = [d \in Devices |-> slips[d]
          \cup (IF Unanswered(d) THEN {"unanswered"} ELSE {})
          \cup (IF \E c \in Devices : job[c].todo # {} THEN {"unannounced"} ELSE {})]
    BY <1>2 DEF ServerCrash
  <2>2. QED
    BY <1>0, <2>1, SlipNames
<1>3. QED
  BY <1>0, <1>1, <1>2, SlipsAdded

LEMMA DevicesStep ==
    ASSUME TypeInv, [Next]_vars
    PROVE  DevicesTyped'
<1>1. StoresTyped' /\ \A d \in Devices : LocalTyped(d, Local(d)')
  BY LocalsMove
<1>2. /\ cursor' \in [Devices -> Nat] /\ \A d \in Devices : cursor'[d] <= Len(log)
      /\ edit' \in [Devices -> Nat] /\ \A d \in Devices : edit'[d] <= texts'
  BY CursorsMove, EditsMove
<1>3. slips' \in [Devices -> SUBSET Slips]
  BY SlipsStep
<1>4. Grows
  BY StepGrows
<1>5. \A d \in Devices : LocalTyped(d, Local(d))'
  BY <1>1, <1>4, GoodStays
<1>6. \A d \in Devices : cursor'[d] <= Len(log')
  BY <1>2, <1>4 DEF Grows
<1>7. QED
  BY <1>1, <1>2, <1>3, <1>5, <1>6 DEF DevicesTyped, StoresTyped

\* What waits for a device waits on a connection.
QueuesOnline ==
    /\ online \subseteq Devices
    /\ \A d \in Devices : d \notin online => inbox[d] = <<>> /\ replies[d] = <<>> /\ pushes[d] = <<>>

LEMMA QueuesOnlineStep ==
    ASSUME TypeInv, [Next]_vars
    PROVE  QueuesOnline'
<1>0. QueuesOnline /\ QueuesTyped
  BY DEF TypeInv, NetTyped, QueuesOnline
<1>1. ASSUME NEW d \in Devices, online' = online,
             \/ d \in online
             \/ inbox' = inbox /\ replies' = replies /\ pushes' = pushes,
             inbox' = inbox \/ \E x : inbox' = [inbox EXCEPT ![d] = x],
             replies' = replies \/ \E x : replies' = [replies EXCEPT ![d] = x],
             pushes' = pushes \/ \E x : pushes' = [pushes EXCEPT ![d] = x]
      PROVE  QueuesOnline'
  BY <1>0, <1>1 DEF QueuesOnline, QueuesTyped
<1>2. ASSUME NEW D, Drop(D) PROVE QueuesOnline'
  BY <1>0, <1>2 DEF QueuesOnline, Drop
<1>3. CASE UNCHANGED vars
  BY <1>0, <1>3 DEF vars, netVars, QueuesOnline
<1>4. ASSUME NEW d \in Devices, Login(d) PROVE QueuesOnline'
  <2>1. /\ online' = online \cup {d} /\ replies' = replies /\ pushes' = pushes
        /\ \E x : inbox' = [inbox EXCEPT ![d] = x]
    BY <1>4 DEF Login, Send
  <2>2. QED
    BY <1>0, <2>1 DEF QueuesOnline, QueuesTyped
<1>5. ASSUME NEW d \in Devices,
             EditMessage(d) \/ FlushOutbox(d) \/ DeleteMessage(d) \/ OpenConversation(d)
      PROVE  QueuesOnline'
  <2>1. /\ online' = online /\ d \in online /\ replies' = replies /\ pushes' = pushes
        /\ \E x : inbox' = [inbox EXCEPT ![d] = x]
    BY <1>5 DEF EditMessage, FlushOutbox, DeleteMessage, OpenConversation, Send
  <2>2. QED
    BY <1>1, <2>1
<1>6. ASSUME NEW d \in Devices,
             \/ HandleEdit(d) \/ HandleDelete(d) \/ HandleOpen(d) \/ HandleSync(d)
      PROVE  QueuesOnline'
  <2>1. /\ online' = online /\ \E kind : Handling(d, kind)
        /\ pushes' = pushes /\ (replies' = replies \/ \E x : replies' = [replies EXCEPT ![d] = x])
    BY <1>6 DEF HandleEdit, HandleDelete, HandleOpen, HandleSync, Respond
  <2>2. d \in online /\ \E x : inbox' = [inbox EXCEPT ![d] = x]
    BY <2>1, HandlingIs
  <2>3. QED
    BY <1>1, <2>1, <2>2
<1>7. ASSUME NEW d \in Devices, ReadEvents(d) PROVE QueuesOnline'
  <2>1. /\ online' = online /\ inbox' = inbox /\ pushes' = pushes
        /\ \/ replies' = replies
           \/ d \in online /\ \E x : replies' = [replies EXCEPT ![d] = x]
    BY <1>7 DEF ReadEvents, Respond
  <2>2. QED
    BY <1>1, <2>1
<1>8. ASSUME NEW d \in Devices, NEW u \in Users, Announce(d, u) PROVE QueuesOnline'
  <2>1. /\ online' = online /\ inbox' = inbox
        /\ \/ replies' = replies
           \/ d \in online /\ \E x : replies' = [replies EXCEPT ![d] = x]
        /\ pushes' = [c \in Devices |->
                        IF c \in (online \cap DevicesOf(u)) \ {d}
                        THEN Append(pushes[c], Len(log')) ELSE pushes[c]]
    BY <1>8 DEF Announce, Respond
  <2>2. \A c \in Devices : c \notin online => pushes'[c] = pushes[c] /\ replies'[c] = replies[c]
    BY <1>0, <2>1 DEF QueuesTyped
  <2>3. QED
    BY <1>0, <2>1, <2>2 DEF QueuesOnline
<1>9. ASSUME NEW d \in Devices, FetchKeys(d) PROVE QueuesOnline'
  <2>1. inbox[d] # <<>> /\ online' = online /\ replies' = replies /\ pushes' = pushes
    BY <1>9 DEF FetchKeys
  <2>2. \E x : inbox' = [inbox EXCEPT ![d] = x]
    BY <1>9, FetchCases DEF FetchSends, FetchEnds
  <2>3. QED
    BY <1>0, <1>1, <2>1, <2>2 DEF QueuesOnline
<1>10. ASSUME NEW d \in Devices,
              \/ ReceiveEdit(d) \/ ReceiveDelete(d) \/ ReceiveFull(d) \/ ReceiveOpen(d)
              \/ ReceiveEvents(d)
       PROVE QueuesOnline'
  <2>1. /\ online' = online /\ pushes' = pushes /\ \E kind : Answer(d, kind)
        /\ inbox' = inbox \/ \E x : inbox' = [inbox EXCEPT ![d] = x]
    BY <1>10 DEF ReceiveEdit, ReceiveDelete, ReceiveFull, ReceiveOpen, ReceiveEvents, Send
  <2>2. d \in online /\ \E x : replies' = [replies EXCEPT ![d] = x]
    BY <2>1, Answered DEF Answer
  <2>3. QED
    BY <1>1, <2>1, <2>2
<1>11. ASSUME NEW d \in Devices, ReceivePush(d) PROVE QueuesOnline'
  <2>1. /\ online' = online /\ inbox' = inbox /\ replies' = replies
        /\ \E x : pushes' = [pushes EXCEPT ![d] = x]
    BY <1>11 DEF ReceivePush
  <2>2. QED
    BY <1>1, <1>11, <2>1, PushTaken
<1>12. ASSUME NEW d \in Devices, Disconnect(d) \/ Logout(d) PROVE QueuesOnline'
  BY <1>2, <1>12 DEF Disconnect, Logout
<1>13. CASE PruneDelete \/ PruneMark
  BY <1>0, <1>13 DEF PruneDelete, PruneMark, netVars, QueuesOnline
<1>14. CASE ServerCrash
  BY <1>2, <1>14 DEF ServerCrash
<1>15. QED
  BY <1>3, <1>4, <1>5, <1>6, <1>7, <1>8, <1>9, <1>10, <1>11, <1>12, <1>13, <1>14 DEF Next

LEMMA NetStep ==
    ASSUME TypeInv, [Next]_vars
    PROVE  QueuesTyped' /\ NetTyped'
<1>0. Grows
  BY StepGrows
<1>1. /\ inbox' \in [Devices -> Seq(RequestRecords)]
      /\ \A d \in Devices : \A q \in Requests(d)' : q \in Requests(d) \/ NewRequest(d, q)
  BY RequestsCome
<1>2. /\ replies' \in [Devices -> Seq(ReplyRecords)]
      /\ \A d \in Devices : \A r \in Answers(d)' :
            r \in Answers(d) \/ (d \in online /\ r \in ReplyRecords /\ NewReply(d, r))
  BY AnswersCome
<1>3. /\ pushes' \in [Devices -> Seq(Nat)]
      /\ \A d \in Devices : \A i \in Pushed(d)' :
            \/ i \in Pushed(d)
            \/ i = Len(log) + 1 /\ \E c \in Devices : Announce(c, UserOf(d))
  BY PushesCome
<1>4. ASSUME NEW d \in Devices, NEW q \in Requests(d)' PROVE GoodRequest(d, q)'
  <2>1. CASE q \in Requests(d)
    BY <1>0, <2>1, RequestIn, GoodStays
  <2>2. CASE NewRequest(d, q)
    <3>1. CASE q.kind \in {"fetch", "delete"} /\ d \in Authors
      BY <3>1 DEF GoodRequest
    <3>2. CASE q.kind = "open"
      BY <3>2 DEF GoodRequest
    <3>3. CASE q.kind = "sync" /\ q.arg = cursor[d]
      <4>1. cursor[d] \in Nat /\ cursor[d] <= Len(log)
        BY DEF TypeInv, DevicesTyped
      <4>2. QED
        BY <1>0, <3>3, <4>1 DEF GoodRequest, Grows
    <3>4. CASE q.kind = "sync" /\ Answer(d, "sync") /\ q.arg = LastSeq(Head(replies[d]))
      <4>1. q.arg \in Nat /\ q.arg <= Len(log)
        BY <3>4, Answered, LastSeqIs
      <4>2. QED
        BY <1>0, <3>4, <4>1 DEF GoodRequest, Grows
    <3>5. CASE q.kind = "edit" /\ FetchKeys(d) /\ FetchSends(d) /\ q.arg = Len(made) + 1
      <4>1. /\ d \in Authors /\ NewEnvelope(d).by = d /\ Len(made') = Len(made) + 1
            /\ made'[Len(made) + 1] = NewEnvelope(d) /\ Len(made) \in Nat /\ 1 <= Len(made)
        BY <3>5, FetchMakes, Lengths DEF TypeInv, ServerTyped
      <4>2. QED
        BY <3>5, <4>1 DEF GoodRequest, GoodEdit
    <3>6. QED
      BY <2>2, <3>1, <3>2, <3>3, <3>4, <3>5 DEF NewRequest
  <2>3. QED
    BY <1>1, <2>1, <2>2
<1>5. ASSUME NEW d \in Devices, NEW r \in Answers(d)' PROVE GoodReply(d, r)'
  <2>1. CASE r \in Answers(d)
    BY <1>0, <2>1, AnswerIn, GoodStays
  <2>2. CASE r \in ReplyRecords /\ NewReply(d, r)
    <3>0. SUFFICES GoodReply(d, r)
      BY <1>0, <2>2, GoodStays
    <3>1. CASE r.kind = "edit" /\ ~r.ok /\ inbox[d] # <<>> /\ Head(inbox[d]).kind = "edit"
               /\ r.arg = Head(inbox[d]).arg
      <4>1. Head(inbox[d]) \in Requests(d)
        <5>1. inbox[d] \in Seq(RequestRecords)
          BY DEF TypeInv, QueuesTyped
        <5>2. Head(inbox[d]) = inbox[d][1] /\ 1 \in 1 .. Len(inbox[d])
          BY <3>1, <5>1
        <5>3. QED
          BY <5>2 DEF Requests
      <4>2. QED
        BY <3>1, <4>1, RequestIn DEF GoodReply, GoodRequest
    <3>2. CASE r.kind \in {"edit", "delete"} /\ r.ok /\ r.kind = job[d].kind /\ r.arg = job[d].arg
      BY <3>2, JobIs DEF GoodReply, GoodJob
    <3>3. CASE r.kind = "open" /\ r.arg = row.env
      BY <3>3 DEF TypeInv, ServerTyped, GoodReply
    <3>4. CASE r.kind = "full" /\ r.arg = FullSyncSeq
      BY <3>4, FullSyncSeqIs DEF GoodReply
    <3>5. CASE /\ r.kind = "sync" /\ job[d].kind = "sync" /\ r.arg = job[d].arg
               /\ r.page = EventsAfter(d, job[d].arg)
      BY <3>5, JobIs, EventsAfterAre DEF GoodReply, GoodJob
    <3>6. QED
      BY <2>2, <3>1, <3>2, <3>3, <3>4, <3>5 DEF NewReply
  <2>3. QED
    BY <1>2, <2>1, <2>2
<1>6. ASSUME NEW d \in Devices, NEW i \in Pushed(d)' PROVE GoodPush(d, i)'
  <2>1. CASE i \in Pushed(d)
    BY <1>0, <2>1, GoodStays DEF TypeInv, NetTyped
  <2>2. CASE i = Len(log) + 1 /\ \E c \in Devices : Announce(c, UserOf(d))
    <3>1. PICK c \in Devices : Announce(c, UserOf(d))
      BY <2>2
    <3>2. UserOf(d) \in Users
      BY DEF UserOf, Users
    <3>3. /\ Len(log') = Len(log) + 1 /\ log'[Len(log) + 1] = NewEvent(c, UserOf(d))
          /\ NewEvent(c, UserOf(d)).to = UserOf(d)
          /\ NewEvent(c, UserOf(d)).kind \in {"edit", "delete"} /\ Len(log) \in Nat
      BY <3>1, <3>2, AnnounceLogs, Lengths
    <3>4. QED
      BY <2>2, <3>3 DEF GoodPush, OwnEvents
  <2>3. QED
    BY <1>3, <2>1, <2>2
<1>7. QueuesOnline'
  BY QueuesOnlineStep
<1>8. QED
  BY <1>1, <1>2, <1>3, <1>4, <1>5, <1>6, <1>7 DEF QueuesTyped, NetTyped, QueuesOnline

LEMMA TypeStep ==
    ASSUME TypeInv, [Next]_vars
    PROVE  TypeInv'
<1>1. LogTyped' /\ JobsTyped' /\ QueuesTyped' /\ NetTyped' /\ DevicesTyped'
  BY LogStep, JobsStep, NetStep, DevicesStep
<1>2. MadeStep /\ CountersTyped'
  BY MadeStays, CountersStep
<1>3. ServerTyped'
  BY <1>2 DEF MadeStep, CountersTyped, ServerTyped
<1>4. QED
  BY <1>1, <1>3 DEF TypeInv

LEMMA TypeInit ==
    ASSUME Init
    PROVE  TypeInv
<1>1. /\ Origin \in Devices /\ Origin \in Authors /\ MaxActs \in Nat
      /\ \A d \in Devices : d \in Authors <=> d \notin Readers
      /\ Authors \subseteq Devices
  BY EditNumbers
<1>2. PICK v : v = [text |-> 1, by |-> Origin]
  OBVIOUS
<1>3. made = <<v>> /\ v \in MadeRecords /\ v.text = 1 /\ v.by = Origin
  BY <1>1, <1>2 DEF Init, MadeRecords
<1>4. made \in Seq(MadeRecords) /\ Len(made) = 1 /\ made[1] = v
  BY <1>3
<1>5. PICK a, b, c, e : /\ a = [to |-> "reader", kind |-> "other", env |-> 0, by |-> Origin]
                        /\ b = [to |-> "author", kind |-> "other", env |-> 0, by |-> Origin]
                        /\ c = [to |-> "reader", kind |-> "message", env |-> 1, by |-> Origin]
                        /\ e = [to |-> "author", kind |-> "message", env |-> 1, by |-> Origin]
  OBVIOUS
<1>6. /\ a \in EventRecords /\ a.kind = "other" /\ a.env = 0
      /\ b \in EventRecords /\ b.kind = "other" /\ b.env = 0
      /\ c \in EventRecords /\ c.kind = "message" /\ c.env = 1 /\ c.to = "reader"
      /\ e \in EventRecords /\ e.kind = "message" /\ e.env = 1 /\ e.to = "author"
  BY <1>1, <1>5 DEF EventRecords, Users
<1>7. log = <<a, b, c, e>>
  BY <1>5 DEF Init
<1>8. /\ log \in Seq(EventRecords) /\ Len(log) = 4
      /\ log[1] = a /\ log[2] = b /\ log[3] = c /\ log[4] = e
  BY <1>6, <1>7
<1>9. LogTyped
  <2>1. \A i \in 1 .. Len(log) : i = 1 \/ i = 2 \/ i = 3 \/ i = 4
    BY <1>8
  <2>2. GoodEvent(1) /\ GoodEvent(2) /\ GoodEvent(3) /\ GoodEvent(4)
    BY <1>6, <1>8 DEF GoodEvent
  <2>3. \A i \in 1 .. Len(log) : GoodEvent(i)
    BY <2>1, <2>2
  <2>4. QED
    BY <1>6, <1>8, <2>3 DEF LogTyped
<1>10. ServerTyped
  <2>1. PICK w : w = [env |-> 1, deleted |-> FALSE]
    OBVIOUS
  <2>2. row = w /\ w \in [env : Nat, deleted : BOOLEAN] /\ w.env = 1 /\ ~w.deleted
    BY <2>1 DEF Init
  <2>3. /\ texts = 1 /\ pruned = 0 /\ watermark = 0 /\ marking = 0 /\ acts = 0
    BY DEF Init
  <2>4. \A x \in 1 .. Len(made) : made[x].text \in 1 .. texts
    BY <1>3, <1>4, <2>3
  <2>5. QED
    BY <1>1, <1>4, <1>8, <2>2, <2>3, <2>4 DEF ServerTyped
<1>11. JobsTyped
  <2>1. NoJob \in JobRecords /\ NoJob.kind = "none"
    BY DEF NoJob, JobRecords
  <2>2. QED
    BY <2>1 DEF Init, JobsTyped, GoodJob
<1>12. QueuesTyped /\ NetTyped
  <2>1. /\ inbox = [d \in Devices |-> <<>>] /\ replies = [d \in Devices |-> <<>>]
        /\ pushes = [d \in Devices |-> <<>>] /\ online = {Origin}
    BY DEF Init
  <2>2. QueuesTyped
    BY <2>1 DEF QueuesTyped
  <2>3. \A d \in Devices : Requests(d) = {} /\ Answers(d) = {} /\ Pushed(d) = {}
    BY <2>1 DEF Requests, Answers, Pushed
  <2>4. QED
    BY <1>1, <2>1, <2>2, <2>3 DEF NetTyped
<1>13. DevicesTyped
  <2>1. PICK w : w = [NoRow EXCEPT !.has = TRUE, !.text = 1]
    OBVIOUS
  <2>2. /\ w \in RowRecords /\ w.has /\ w.text = 1 /\ NoRow \in RowRecords /\ NoRow.text = 0
        /\ ~NoRow.has
    BY <2>1 DEF NoRow, RowRecords
  <2>3. /\ store = [d \in Devices |-> IF d = Origin THEN w ELSE NoRow]
        /\ cache = [d \in Devices |-> IF d = Origin THEN 1 ELSE 0]
        /\ used = [d \in Devices |-> {}]
        /\ cursor = [d \in Devices |-> IF d \in Readers THEN 1 ELSE 2]
        /\ edit = [d \in Devices |-> 0] /\ slips = [d \in Devices |-> {}] /\ texts = 1
    BY <2>1 DEF Init
  <2>4. ASSUME NEW d \in Devices
        PROVE  LocalTyped(d, Local(d)) /\ edit[d] <= texts /\ cursor[d] <= Len(log)
    <3>1. PICK l : l = Local(d)
      OBVIOUS
    <3>2. /\ l.row = store[d] /\ l.cache = cache[d] /\ l.used = {}
          /\ l = [row |-> store[d], cache |-> cache[d], used |-> used[d]]
      BY <2>3, <3>1 DEF Local
    <3>3. store[d] \in RowRecords /\ store[d].text <= 1 /\ cache[d] \in Nat /\ cache[d] <= 1
          /\ (~store[d].has => store[d] = NoRow) /\ used[d] \in SUBSET Nat
      BY <2>2, <2>3
    <3>4. l \in LocalRecords
      BY <3>2, <3>3 DEF LocalRecords
    <3>5. LocalTyped(d, l)
      BY <2>3, <3>2, <3>3, <3>4 DEF LocalTyped
    <3>6. edit[d] <= texts /\ cursor[d] <= Len(log)
      BY <1>8, <2>3
    <3>7. QED
      BY <3>1, <3>5, <3>6
  <2>5. QED
    BY <2>2, <2>3, <2>4 DEF DevicesTyped
<1>14. QED
  BY <1>9, <1>10, <1>11, <1>12, <1>13 DEF TypeInv

-----------------------------------------------------------------------------
(***************************************************************************)
(* An edit on its way: sent and not yet handled, at work at the server, or *)
(* answered and not yet received.  On a connection there is one at most,   *)
(* and as long as it is there its text, or a later one, waits.             *)
(***************************************************************************)
EditAsked(d) == \E q \in Requests(d) : q.kind = "edit"
EditAnswered(d) == \E r \in Answers(d) : r.kind = "edit"

InboxGood(d) ==
    \A i, j \in 1 .. Len(inbox[d]) : inbox[d][j].kind = "edit" =>
        /\ inbox[d][i].kind = "edit" => i = j
        /\ i < j => inbox[d][i].kind # "fetch"

AnswersGood(d) ==
    \A i, j \in 1 .. Len(replies[d]) :
        replies[d][i].kind = "edit" /\ replies[d][j].kind = "edit" => i = j

InFlight(d) ==
    /\ InboxGood(d) /\ AnswersGood(d)
    /\ ~EditAsked(d) \/ ~EditAnswered(d)
    /\ job[d].kind = "edit" => ~EditAsked(d) /\ ~EditAnswered(d)

Waits(d, e) == edit[d] # 0 /\ ("overlapped" \notin slips[d] => edit[d] = made[e].text)

OnItsWay(d, e) ==
    \/ \E q \in Requests(d) : q.kind = "edit" /\ q.arg = e
    \/ job[d].kind = "edit" /\ d \in online /\ job[d].arg = e
    \/ \E r \in Answers(d) : r.kind = "edit" /\ r.arg = e

EditWaits(d) ==
    /\ \A e : OnItsWay(d, e) => Waits(d, e)
    /\ job[d].kind = "edit" /\ d \notin online => "unanswered" \in slips[d]

FlightInv == \A d \in Devices : InFlight(d) /\ EditWaits(d)

LEMMA Asked ==
    ASSUME NEW d
    PROVE  /\ EditAsked(d) <=> \E i \in 1 .. Len(inbox[d]) : inbox[d][i].kind = "edit"
           /\ EditAnswered(d) <=> \E i \in 1 .. Len(replies[d]) : replies[d][i].kind = "edit"
BY DEF EditAsked, EditAnswered, Requests, Answers

LEMMA AskedPrimed ==
    ASSUME NEW d
    PROVE  /\ EditAsked(d)' <=> \E i \in 1 .. Len(inbox'[d]) : inbox'[d][i].kind = "edit"
           /\ EditAnswered(d)' <=> \E i \in 1 .. Len(replies'[d]) : replies'[d][i].kind = "edit"
BY DEF EditAsked, EditAnswered, Requests, Answers

LEMMA SentFlight ==
    ASSUME TypeInv, NEW d \in Devices, NEW q \in RequestRecords, Send(d, q), q.kind # "edit",
           InboxGood(d)
    PROVE  InboxGood(d)' /\ (EditAsked(d)' => EditAsked(d))
<1>1. /\ Len(inbox[d]) \in Nat /\ Len(inbox'[d]) = Len(inbox[d]) + 1
      /\ inbox'[d][Len(inbox[d]) + 1] = q
      /\ \A i \in 1 .. Len(inbox[d]) : inbox'[d][i] = inbox[d][i]
  BY Sent
<1>2. \A i \in 1 .. Len(inbox'[d]) : i = Len(inbox[d]) + 1 \/ i \in 1 .. Len(inbox[d])
  BY <1>1
<1>3. \A j \in 1 .. Len(inbox'[d]) : inbox'[d][j].kind = "edit" =>
          j \in 1 .. Len(inbox[d]) /\ inbox[d][j].kind = "edit"
  BY <1>1, <1>2
<1>4. \A i \in 1 .. Len(inbox'[d]), j \in 1 .. Len(inbox[d]) : i < j => i \in 1 .. Len(inbox[d])
  BY <1>1
<1>5. EditAsked(d)' => EditAsked(d)
  BY <1>3, Asked, AskedPrimed
<1>6. InboxGood(d)'
  <2>1. SUFFICES ASSUME NEW i \in 1 .. Len(inbox'[d]), NEW j \in 1 .. Len(inbox'[d]),
                        inbox'[d][j].kind = "edit"
                 PROVE  /\ inbox'[d][i].kind = "edit" => i = j
                        /\ i < j => inbox'[d][i].kind # "fetch"
    BY DEF InboxGood
  <2>2. j \in 1 .. Len(inbox[d]) /\ inbox[d][j].kind = "edit"
    BY <1>3, <2>1
  <2>3. inbox'[d][i].kind = "edit" => i = j
    BY <1>3, <2>2 DEF InboxGood
  <2>4. i < j => inbox'[d][i].kind # "fetch"
    BY <1>1, <1>4, <2>2 DEF InboxGood
  <2>5. QED
    BY <2>3, <2>4
<1>7. QED
  BY <1>5, <1>6

LEMMA HandledFlight ==
    ASSUME TypeInv, NEW d \in Devices, inbox[d] # <<>>,
           inbox' = [inbox EXCEPT ![d] = Tail(inbox[d])], InboxGood(d)
    PROVE  /\ InboxGood(d)' /\ (EditAsked(d)' => EditAsked(d))
           /\ Head(inbox[d]).kind = "edit" => EditAsked(d) /\ ~EditAsked(d)'
           /\ Head(inbox[d]).kind = "fetch" => ~EditAsked(d)
<1>1. /\ Len(inbox[d]) \in Nat /\ Len(inbox[d]) >= 1 /\ Len(inbox'[d]) = Len(inbox[d]) - 1
      /\ \A i \in 1 .. Len(inbox'[d]) : inbox'[d][i] = inbox[d][i + 1]
      /\ Head(inbox[d]) = inbox[d][1]
  BY Handled
<1>2. \A i \in 1 .. Len(inbox'[d]) : i + 1 \in 1 .. Len(inbox[d]) /\ 1 < i + 1
  BY <1>1
<1>3. 1 \in 1 .. Len(inbox[d])
  BY <1>1
<1>4. EditAsked(d)' => EditAsked(d)
  BY <1>1, <1>2, Asked, AskedPrimed
<1>5. InboxGood(d)'
  <2>1. SUFFICES ASSUME NEW i \in 1 .. Len(inbox'[d]), NEW j \in 1 .. Len(inbox'[d]),
                        inbox'[d][j].kind = "edit"
                 PROVE  /\ inbox'[d][i].kind = "edit" => i = j
                        /\ i < j => inbox'[d][i].kind # "fetch"
    BY DEF InboxGood
  <2>2. /\ inbox[d][j + 1].kind = "edit" /\ inbox'[d][i] = inbox[d][i + 1]
        /\ i + 1 \in 1 .. Len(inbox[d]) /\ j + 1 \in 1 .. Len(inbox[d])
    BY <1>1, <1>2, <2>1
  <2>3. /\ inbox[d][i + 1].kind = "edit" => i + 1 = j + 1
        /\ i + 1 < j + 1 => inbox[d][i + 1].kind # "fetch"
    BY <2>2 DEF InboxGood
  <2>4. (i + 1 = j + 1 => i = j) /\ (i < j => i + 1 < j + 1)
    BY <1>1
  <2>5. QED
    BY <2>2, <2>3, <2>4
<1>6. Head(inbox[d]).kind = "edit" => EditAsked(d)
  BY <1>1, <1>3, Asked
<1>7. Head(inbox[d]).kind = "edit" => ~EditAsked(d)'
  <2>1. SUFFICES ASSUME inbox[d][1].kind = "edit", NEW i \in 1 .. Len(inbox'[d]),
                        inbox'[d][i].kind = "edit"
                 PROVE  FALSE
    BY <1>1, AskedPrimed
  <2>2. inbox[d][i + 1].kind = "edit" /\ i + 1 \in 1 .. Len(inbox[d]) /\ 1 < i + 1
    BY <1>1, <1>2, <2>1
  <2>3. 1 = i + 1
    BY <1>3, <2>1, <2>2 DEF InboxGood
  <2>4. QED
    BY <2>2, <2>3
<1>8. Head(inbox[d]).kind = "fetch" => ~EditAsked(d)
  <2>1. SUFFICES ASSUME inbox[d][1].kind = "fetch", NEW i \in 1 .. Len(inbox[d]),
                        inbox[d][i].kind = "edit"
                 PROVE  FALSE
    BY <1>1, Asked
  <2>2. i # 1 /\ (1 < i => inbox[d][1].kind # "fetch")
    BY <1>3, <2>1 DEF InboxGood
  <2>3. 1 < i
    BY <1>1, <2>2
  <2>4. QED
    BY <2>1, <2>2, <2>3
<1>9. QED
  BY <1>4, <1>5, <1>6, <1>7, <1>8

LEMMA FetchSentFlight ==
    ASSUME TypeInv, NEW d \in Devices, FetchKeys(d), FetchSends(d), InboxGood(d)
    PROVE  InboxGood(d)'
<1>1. /\ Len(inbox[d]) \in Nat /\ Len(inbox[d]) >= 1 /\ Len(inbox'[d]) = Len(inbox[d])
      /\ \A i \in 1 .. Len(inbox[d]) - 1 : inbox'[d][i] = inbox[d][i + 1]
      /\ \A i \in 2 .. Len(inbox[d]) : inbox[d][i].kind # "fetch"
  BY FetchSent
<1>2. inbox[d][1].kind = "fetch" /\ 1 \in 1 .. Len(inbox[d])
  <2>1. inbox[d] # <<>> /\ inbox[d] \in Seq(RequestRecords) /\ Head(inbox[d]).kind = "fetch"
    BY DEF FetchKeys, TypeInv, QueuesTyped
  <2>2. QED
    BY <1>1, <2>1
<1>3. \A i \in 2 .. Len(inbox[d]) : inbox[d][i].kind # "edit"
  <2>1. SUFFICES ASSUME NEW i \in 2 .. Len(inbox[d]), inbox[d][i].kind = "edit" PROVE FALSE
    OBVIOUS
  <2>2. i \in 1 .. Len(inbox[d]) /\ 1 < i
    BY <1>1
  <2>3. QED
    BY <1>2, <2>1, <2>2 DEF InboxGood
<1>4. \A i \in 1 .. Len(inbox[d]) - 1 : i + 1 \in 2 .. Len(inbox[d])
  BY <1>1
<1>5. \A i \in 1 .. Len(inbox[d]) - 1 : inbox'[d][i].kind # "edit" /\ inbox'[d][i].kind # "fetch"
  BY <1>1, <1>3, <1>4
<1>6. \A i \in 1 .. Len(inbox'[d]) : i = Len(inbox[d]) \/ i \in 1 .. Len(inbox[d]) - 1
  BY <1>1
<1>7. \A i, j \in 1 .. Len(inbox'[d]) : j = Len(inbox[d]) /\ i < j => i \in 1 .. Len(inbox[d]) - 1
  BY <1>1
<1>8. QED
  BY <1>5, <1>6, <1>7 DEF InboxGood

LEMMA RespondedFlight ==
    ASSUME TypeInv, NEW d \in Devices, NEW r \in ReplyRecords, Respond(d, r), AnswersGood(d),
           r.kind # "edit" \/ ~EditAnswered(d)
    PROVE  AnswersGood(d)' /\ (r.kind # "edit" => (EditAnswered(d)' => EditAnswered(d)))
<1>1. /\ Len(replies[d]) \in Nat
      /\ d \in online => /\ Len(replies'[d]) = Len(replies[d]) + 1
                         /\ replies'[d][Len(replies[d]) + 1] = r
      /\ d \notin online => replies' = replies
      /\ \A i \in 1 .. Len(replies[d]) : replies'[d][i] = replies[d][i]
  BY Responded
<1>2. CASE d \in online
  <2>1. \A i \in 1 .. Len(replies'[d]) : i = Len(replies[d]) + 1 \/ i \in 1 .. Len(replies[d])
    BY <1>1, <1>2
  <2>2. r.kind # "edit" => \A j \in 1 .. Len(replies'[d]) : replies'[d][j].kind = "edit" =>
            j \in 1 .. Len(replies[d]) /\ replies[d][j].kind = "edit"
    BY <1>1, <1>2, <2>1
  <2>3. ~EditAnswered(d) => \A j \in 1 .. Len(replies'[d]) : replies'[d][j].kind = "edit" =>
            j = Len(replies[d]) + 1
    BY <1>1, <2>1, Asked
  <2>4. r.kind # "edit" => (EditAnswered(d)' => EditAnswered(d))
    BY <2>2, Asked, AskedPrimed
  <2>5. AnswersGood(d)'
    BY <2>2, <2>3 DEF AnswersGood
  <2>6. QED
    BY <2>4, <2>5
<1>3. CASE d \notin online
  BY <1>1, <1>3 DEF AnswersGood, EditAnswered, Answers
<1>4. QED
  BY <1>2, <1>3

LEMMA AnsweredFlight ==
    ASSUME TypeInv, NEW d \in Devices, NEW kind, Answer(d, kind), AnswersGood(d)
    PROVE  /\ AnswersGood(d)' /\ (EditAnswered(d)' => EditAnswered(d))
           /\ kind = "edit" => EditAnswered(d) /\ ~EditAnswered(d)'
<1>1. /\ Len(replies[d]) \in Nat /\ Len(replies[d]) >= 1
      /\ Len(replies'[d]) = Len(replies[d]) - 1
      /\ \A i \in 1 .. Len(replies'[d]) : replies'[d][i] = replies[d][i + 1]
      /\ Head(replies[d]) = replies[d][1] /\ Head(replies[d]).kind = kind
  BY Answered
<1>2. \A i \in 1 .. Len(replies'[d]) : i + 1 \in 1 .. Len(replies[d]) /\ 1 < i + 1
  BY <1>1
<1>3. 1 \in 1 .. Len(replies[d])
  BY <1>1
<1>4. EditAnswered(d)' => EditAnswered(d)
  BY <1>1, <1>2, Asked, AskedPrimed
<1>5. AnswersGood(d)'
  <2>1. SUFFICES ASSUME NEW i \in 1 .. Len(replies'[d]), NEW j \in 1 .. Len(replies'[d]),
                        replies'[d][i].kind = "edit", replies'[d][j].kind = "edit"
                 PROVE  i = j
    BY DEF AnswersGood
  <2>2. i + 1 = j + 1
    BY <1>1, <1>2, <2>1 DEF AnswersGood
  <2>3. QED
    BY <1>1, <2>2
<1>6. kind = "edit" => EditAnswered(d)
  BY <1>1, <1>3, Asked
<1>7. kind = "edit" => ~EditAnswered(d)'
  <2>1. SUFFICES ASSUME replies[d][1].kind = "edit", NEW i \in 1 .. Len(replies'[d]),
                        replies'[d][i].kind = "edit"
                 PROVE  FALSE
    BY <1>1, AskedPrimed
  <2>2. 1 = i + 1
    BY <1>1, <1>2, <1>3, <2>1 DEF AnswersGood
  <2>3. QED
    BY <1>2, <2>2
<1>8. QED
  BY <1>4, <1>5, <1>6, <1>7

LEMMA InFlightStep ==
    ASSUME TypeInv, \A d \in Devices : InFlight(d), [Next]_vars
    PROVE  \A d \in Devices : InFlight(d)'
<1> DEFINE P == \A d \in Devices : InFlight(d)'
<1> SUFFICES P
  OBVIOUS
<1>0. /\ inbox \in [Devices -> Seq(RequestRecords)] /\ replies \in [Devices -> Seq(ReplyRecords)]
      /\ job \in [Devices -> JobRecords]
  BY DEF TypeInv, QueuesTyped, JobsTyped
<1> HIDE DEF P
<1>1. ASSUME NEW c \in Devices, inbox'[c] = inbox[c], replies'[c] = replies[c], job'[c] = job[c]
      PROVE  InFlight(c)'
  <2>1. InFlight(c)
    OBVIOUS
  <2>2. QED
    BY <1>1, <2>1 DEF InFlight, InboxGood, AnswersGood, EditAsked, EditAnswered, Requests, Answers
<1>2. ASSUME NEW d \in Devices, InFlight(d)',
             \A c \in Devices : c # d => /\ inbox'[c] = inbox[c] /\ replies'[c] = replies[c]
                                         /\ job'[c] = job[c]
      PROVE  P
  BY <1>1, <1>2 DEF P
<1>3. ASSUME inbox' = inbox, replies' = replies, job' = job PROVE P
  BY <1>1, <1>3 DEF P
<1>4. ASSUME NEW d \in Devices, replies' = replies PROVE
             (AnswersGood(d) => AnswersGood(d)') /\ (EditAnswered(d)' <=> EditAnswered(d))
  BY <1>4 DEF AnswersGood, EditAnswered, Answers
<1>5. ASSUME NEW d \in Devices, inbox' = inbox PROVE
             (InboxGood(d) => InboxGood(d)') /\ (EditAsked(d)' <=> EditAsked(d))
  BY <1>5 DEF InboxGood, EditAsked, Requests
<1>6. ASSUME NEW d \in Devices, NEW q \in RequestRecords, Send(d, q), q.kind # "edit",
             replies' = replies, job' = job
      PROVE  P
  <2>1. InFlight(d) /\ InboxGood(d)' /\ (EditAsked(d)' => EditAsked(d))
    BY <1>6, SentFlight DEF InFlight
  <2>2. InFlight(d)'
    BY <1>4, <1>6, <2>1 DEF InFlight
  <2>3. \A c \in Devices : c # d => inbox'[c] = inbox[c]
    BY <1>6, Sent
  <2>4. QED
    BY <1>2, <1>6, <2>2, <2>3
<1>7. ASSUME NEW D \in SUBSET Devices, Drop(D), job' = job \/ job' = [d \in Devices |-> NoJob] PROVE P
  <2>1. /\ inbox' = [d \in Devices |-> IF d \in D THEN <<>> ELSE inbox[d]]
        /\ replies' = [d \in Devices |-> IF d \in D THEN <<>> ELSE replies[d]]
    BY <1>7 DEF Drop
  <2>2. ASSUME NEW c \in Devices PROVE InFlight(c)'
    <3>1. CASE c \in D
      BY <2>1, <3>1 DEF InFlight, InboxGood, AnswersGood, EditAsked, EditAnswered, Requests, Answers
    <3>2. CASE c \notin D
      <4>1. inbox'[c] = inbox[c] /\ replies'[c] = replies[c]
        BY <2>1, <3>2
      <4>2. CASE job' = job
        BY <1>1, <4>1, <4>2
      <4>3. CASE job' = [d \in Devices |-> NoJob]
        <5>1. InFlight(c) /\ job'[c].kind = "none"
          BY <4>3 DEF NoJob
        <5>2. QED
          BY <4>1, <5>1 DEF InFlight, InboxGood, AnswersGood, EditAsked, EditAnswered, Requests, Answers
      <4>4. QED
        BY <1>7, <4>2, <4>3
    <3>3. QED
      BY <3>1, <3>2
  <2>3. QED
    BY <2>2 DEF P
<1>8. CASE UNCHANGED vars
  BY <1>3, <1>8 DEF vars, netVars, serverVars
<1>9. ASSUME NEW d \in Devices,
             \/ Login(d) \/ EditMessage(d) \/ FlushOutbox(d) \/ DeleteMessage(d)
             \/ OpenConversation(d)
      PROVE  P
  <2>1. /\ replies' = replies /\ job' = job
        /\ \E kind \in {"sync", "fetch", "delete", "open"} : \E a \in Nat : Send(d, Request(kind, a))
    BY <1>9 DEF Login, EditMessage, FlushOutbox, DeleteMessage, OpenConversation, serverVars,
        TypeInv, DevicesTyped
  <2>2. PICK kind \in {"sync", "fetch", "delete", "open"}, a \in Nat : Send(d, Request(kind, a))
    BY <2>1
  <2>3. PICK q \in RequestRecords : q = Request(kind, a) /\ q.kind = kind
    BY RequestNumbers
  <2>4. QED
    BY <1>6, <2>1, <2>2, <2>3
<1>10. ASSUME NEW d \in Devices, NEW kind \in {"delete", "open", "sync"}, Handling(d, kind),
              replies' = replies \/ \E r \in ReplyRecords : r.kind # "edit" /\ Respond(d, r),
              job' = job \/ \E j : job' = [job EXCEPT ![d] = j] /\ j.kind # "edit"
       PROVE  P
  <2>1. /\ inbox[d] # <<>> /\ inbox' = [inbox EXCEPT ![d] = Tail(inbox[d])] /\ job[d].kind = "none"
    BY <1>10, HandlingIs
  <2>2. InFlight(d) /\ InboxGood(d)' /\ (EditAsked(d)' => EditAsked(d))
    BY <2>1, HandledFlight DEF InFlight
  <2>3. AnswersGood(d)' /\ (EditAnswered(d)' => EditAnswered(d))
    BY <1>4, <1>10, <2>2, RespondedFlight DEF InFlight
  <2>4. job'[d].kind # "edit" /\ \A c \in Devices : c # d => job'[c] = job[c]
    BY <1>0, <1>10, <2>1
  <2>5. \A c \in Devices : c # d => replies'[c] = replies[c] /\ inbox'[c] = inbox[c]
    BY <1>0, <1>10, <2>1, Responded
  <2>6. InFlight(d)'
    BY <2>2, <2>3, <2>4 DEF InFlight
  <2>7. QED
    BY <1>2, <2>4, <2>5, <2>6
<1>11. ASSUME NEW d \in Devices, HandleEdit(d) PROVE P
  <2>1. /\ inbox[d] # <<>> /\ inbox' = [inbox EXCEPT ![d] = Tail(inbox[d])]
        /\ job[d].kind = "none" /\ Head(inbox[d]).kind = "edit" /\ Head(inbox[d]).arg \in Nat
    BY <1>11, HandlingIs DEF HandleEdit, FirstRequest
  <2>2. /\ InFlight(d) /\ InboxGood(d)' /\ EditAsked(d) /\ ~EditAsked(d)' /\ ~EditAnswered(d)
    BY <2>1, HandledFlight DEF InFlight
  <2>3. \A c \in Devices : c # d => inbox'[c] = inbox[c]
    BY <1>0, <2>1
  <2>4. CASE row.deleted
    <3>1. job' = job /\ Respond(d, Reply("edit", Head(inbox[d]).arg, FALSE, {}))
      BY Zenon, <1>11, <2>4 DEF HandleEdit
    <3>2. PICK r : r = Reply("edit", Head(inbox[d]).arg, FALSE, {})
      OBVIOUS
    <3>3. IsReply(r, "edit", Head(inbox[d]).arg, {})
      <4>1. "edit" \in ReplyKinds /\ {} \in SUBSET Nat
        BY DEF ReplyKinds
      <4>2. QED
        BY Zenon, <2>1, <3>2, <4>1, Refused
    <3>8. r \in ReplyRecords
      BY <3>3 DEF IsReply
    <3>4. AnswersGood(d)'
      BY <2>2, <3>1, <3>2, <3>8, RespondedFlight DEF InFlight
    <3>5. InFlight(d)'
      BY <2>1, <2>2, <3>1, <3>4 DEF InFlight
    <3>6. \A c \in Devices : c # d => replies'[c] = replies[c]
      BY <3>1, <3>2, <3>8, Responded
    <3>7. QED
      BY <1>2, <2>3, <3>1, <3>5, <3>6
  <2>5. CASE ~row.deleted
    <3>1. replies' = replies /\ StartJob(d, "edit", Head(inbox[d]).arg, Users)
      BY <1>11, <2>5 DEF HandleEdit
    <3>2. AnswersGood(d)' /\ ~EditAnswered(d)'
      BY <1>4, <2>2, <3>1 DEF InFlight
    <3>3. InFlight(d)'
      BY <2>2, <3>2 DEF InFlight
    <3>4. \A c \in Devices : c # d => job'[c] = job[c]
      BY <1>0, <3>1 DEF StartJob
    <3>5. QED
      BY <1>2, <2>3, <3>1, <3>3, <3>4
  <2>6. QED
    BY <2>4, <2>5
<1>12. ASSUME NEW d \in Devices, HandleDelete(d) PROVE P
  <2>1. PICK j : j = [kind |-> "delete", arg |-> 0, todo |-> Users]
    OBVIOUS
  <2>2. Handling(d, "delete") /\ replies' = replies /\ job' = [job EXCEPT ![d] = j] /\ j.kind # "edit"
    BY <1>12, <2>1 DEF HandleDelete, StartJob
  <2>3. QED
    BY <1>10, <2>2
<1>13. ASSUME NEW d \in Devices, HandleOpen(d) PROVE P
  <2>1. /\ Handling(d, "open") /\ job' = job /\ row.env \in Nat
        /\ Respond(d, Reply("open", row.env, TRUE, {}))
    BY <1>13 DEF HandleOpen, serverVars, TypeInv, ServerTyped
  <2>2. PICK r : r = Reply("open", row.env, TRUE, {})
    OBVIOUS
  <2>3. IsReply(r, "open", row.env, {})
    <3>1. "open" \in ReplyKinds /\ {} \in SUBSET Nat
      BY DEF ReplyKinds
    <3>2. QED
      BY Zenon, <2>1, <2>2, <3>1, Granted
  <2>4. r \in ReplyRecords /\ r.kind # "edit" /\ Respond(d, r)
    BY <2>1, <2>2, <2>3 DEF IsReply
  <2>5. QED
    BY <1>10, <2>1, <2>4
<1>14. ASSUME NEW d \in Devices, HandleSync(d) PROVE P
  <2>1. Handling(d, "sync") /\ FirstRequest(d).arg \in Nat
    BY <1>14, HandlingIs DEF HandleSync
  <2>2. CASE BehindWatermark(FirstRequest(d).arg)
    <3>1. job' = job /\ Respond(d, Reply("full", FullSyncSeq, TRUE, {}))
      BY Zenon, <1>14, <2>2 DEF HandleSync, FirstRequest
    <3>2. PICK r : r = Reply("full", FullSyncSeq, TRUE, {})
      OBVIOUS
    <3>3. IsReply(r, "full", FullSyncSeq, {})
      <4>1. "full" \in ReplyKinds /\ {} \in SUBSET Nat
        BY DEF ReplyKinds
      <4>2. QED
        BY Zenon, FullSyncSeqIs, <3>2, <4>1, Granted
    <3>4. r \in ReplyRecords /\ r.kind # "edit" /\ Respond(d, r)
      BY <3>1, <3>2, <3>3 DEF IsReply
    <3>5. QED
      BY <1>10, <2>1, <3>1, <3>4
  <2>3. CASE ~BehindWatermark(FirstRequest(d).arg)
    <3>1. PICK j : j = [kind |-> "sync", arg |-> FirstRequest(d).arg, todo |-> {}]
      OBVIOUS
    <3>2. replies' = replies /\ job' = [job EXCEPT ![d] = j] /\ j.kind # "edit"
      BY <1>14, <2>3, <3>1 DEF HandleSync, FirstRequest, StartJob
    <3>3. QED
      BY <1>10, <2>1, <3>2
  <2>4. QED
    BY <2>2, <2>3
<1>15. ASSUME NEW d \in Devices, NEW kind \in {"edit", "delete", "sync"}, NEW r \in ReplyRecords,
              job[d].kind = kind, r.kind = kind, inbox' = inbox, Respond(d, r),
              job' = [job EXCEPT ![d] = NoJob]
       PROVE  P
  <2>1. InFlight(d) /\ (kind = "edit" => ~EditAsked(d) /\ ~EditAnswered(d))
    BY <1>15 DEF InFlight
  <2>2. AnswersGood(d)' /\ (r.kind # "edit" => (EditAnswered(d)' => EditAnswered(d)))
    BY <1>15, <2>1, RespondedFlight DEF InFlight
  <2>3. InboxGood(d)' /\ (EditAsked(d)' => EditAsked(d))
    BY <1>5, <1>15, <2>1 DEF InFlight
  <2>4. job'[d].kind = "none" /\ \A c \in Devices : c # d => job'[c] = job[c]
    BY <1>0, <1>15 DEF NoJob
  <2>5. InFlight(d)'
    BY <1>15, <2>1, <2>2, <2>3, <2>4 DEF InFlight
  <2>6. \A c \in Devices : c # d => replies'[c] = replies[c]
    BY <1>15, Responded
  <2>7. QED
    BY <1>2, <1>15, <2>4, <2>5, <2>6
<1>16. ASSUME NEW d \in Devices, ReadEvents(d) PROVE P
  <2>1. /\ job[d].kind = "sync" /\ job[d].arg \in Nat /\ inbox' = inbox
        /\ job' = [job EXCEPT ![d] = NoJob]
        /\ Respond(d, Reply("sync", job[d].arg, TRUE, EventsAfter(d, job[d].arg)))
    BY <1>16, JobIs DEF ReadEvents
  <2>2. EventsAfter(d, job[d].arg) \in SUBSET Nat
    BY <2>1, EventsAfterAre
  <2>3. PICK r, a, page : r = Reply("sync", a, TRUE, page) /\ a = job[d].arg /\ page = EventsAfter(d, job[d].arg)
    OBVIOUS
  <2>4. IsReply(r, "sync", a, page)
    <3>1. "sync" \in ReplyKinds /\ a \in Nat /\ page \in SUBSET Nat
      BY <2>1, <2>2, <2>3 DEF ReplyKinds
    <3>2. r = Reply("sync", a, TRUE, page)
      BY <2>3
    <3>3. QED
      BY Zenon, <3>1, <3>2, Granted
  <2>5. r \in ReplyRecords /\ r.kind = "sync" /\ Respond(d, r)
    BY <2>1, <2>3, <2>4 DEF IsReply
  <2>6. QED
    BY <1>15, <2>1, <2>5
<1>17. ASSUME NEW d \in Devices, NEW u \in Users, Announce(d, u) PROVE P
  <2>9. inbox' = inbox
    BY Zenon, <1>17 DEF Announce
  <2>1. job[d].kind \in {"edit", "delete"} /\ job[d].arg \in Nat /\ inbox' = inbox
    BY <1>17, <2>9, AnnounceLogs, JobIs
  <2>2. CASE job[d].todo = {u}
    <3>1. job' = [job EXCEPT ![d] = NoJob] /\ Respond(d, Reply(job[d].kind, job[d].arg, TRUE, {}))
      BY Zenon, <1>17, <2>2 DEF Announce
    <3>2. PICK r : r = Reply(job[d].kind, job[d].arg, TRUE, {})
      OBVIOUS
    <3>3. IsReply(r, job[d].kind, job[d].arg, {})
      <4>1. job[d].kind \in ReplyKinds /\ {} \in SUBSET Nat
        BY <2>1 DEF ReplyKinds
      <4>2. QED
        BY Zenon, <2>1, <3>2, <4>1, Granted
    <3>4. r \in ReplyRecords /\ r.kind = job[d].kind /\ Respond(d, r)
      BY <3>1, <3>2, <3>3 DEF IsReply
    <3>5. QED
      BY <1>15, <2>1, <3>1, <3>4
  <2>3. CASE job[d].todo # {u}
    <3>1. PICK j : j = [job[d] EXCEPT !.todo = job[d].todo \ {u}]
      OBVIOUS
    <3>2. job' = [job EXCEPT ![d] = j] /\ replies' = replies
      BY <1>17, <2>3, <3>1 DEF Announce
    <3>3. j.kind = job[d].kind
      BY <1>0, <3>1 DEF JobRecords
    <3>4. job'[d].kind = job[d].kind /\ \A c \in Devices : c # d => job'[c] = job[c]
      BY <1>0, <3>2, <3>3
    <3>5. InFlight(d)'
      BY <1>4, <1>5, <2>1, <3>2, <3>4 DEF InFlight
    <3>6. QED
      BY <1>2, <2>1, <3>2, <3>4, <3>5
  <2>4. QED
    BY <2>2, <2>3
<1>18. ASSUME NEW d \in Devices, FetchKeys(d) PROVE P
  <2>1. /\ job[d].kind = "none" /\ job' = job /\ replies' = replies /\ replies[d] = <<>>
        /\ inbox[d] # <<>> /\ Head(inbox[d]).kind = "fetch"
    BY <1>18 DEF FetchKeys, serverVars
  <2>2. ~EditAnswered(d) /\ ~EditAnswered(d)' /\ AnswersGood(d)' /\ InFlight(d)
    BY <2>1 DEF EditAnswered, Answers, AnswersGood
  <2>3. CASE FetchSends(d)
    <3>1. InboxGood(d)' /\ \A c \in Devices : c # d => inbox'[c] = inbox[c]
      BY <1>18, <2>2, <2>3, FetchSentFlight, FetchSent DEF InFlight
    <3>2. InFlight(d)'
      BY <2>1, <2>2, <3>1 DEF InFlight
    <3>3. QED
      BY <1>2, <2>1, <3>1, <3>2
  <2>4. CASE FetchEnds(d)
    <3>1. /\ inbox' = [inbox EXCEPT ![d] = Tail(inbox[d])]
          /\ \A c \in Devices : c # d => inbox'[c] = inbox[c]
      BY <1>0, <2>4 DEF FetchEnds
    <3>2. InboxGood(d)'
      BY <2>1, <2>2, <3>1, HandledFlight DEF InFlight
    <3>3. InFlight(d)'
      BY <2>1, <2>2, <3>2 DEF InFlight
    <3>4. QED
      BY <1>2, <2>1, <3>1, <3>3
  <2>5. QED
    BY <1>18, <2>3, <2>4, FetchCases
<1>19. ASSUME NEW d \in Devices,
              \/ ReceiveEdit(d) \/ ReceiveDelete(d) \/ ReceiveFull(d) \/ ReceiveOpen(d)
       PROVE  P
  <2>1. inbox' = inbox /\ job' = job /\ \E kind : Answer(d, kind)
    BY <1>19 DEF ReceiveEdit, ReceiveDelete, ReceiveFull, ReceiveOpen, serverVars
  <2>2. InFlight(d) /\ AnswersGood(d)' /\ (EditAnswered(d)' => EditAnswered(d))
    BY <2>1, AnsweredFlight DEF InFlight
  <2>3. InFlight(d)'
    BY <1>5, <2>1, <2>2 DEF InFlight
  <2>4. \A c \in Devices : c # d => replies'[c] = replies[c]
    BY <2>1, Answered
  <2>5. QED
    BY <1>2, <2>1, <2>3, <2>4
<1>20. ASSUME NEW d \in Devices, ReceiveEvents(d) PROVE P
  <2>1. /\ Answer(d, "sync") /\ job' = job
        /\ inbox' = inbox \/ Send(d, Request("sync", LastSeq(Head(replies[d]))))
    BY <1>20 DEF ReceiveEvents, serverVars
  <2>2. LastSeq(Head(replies[d])) \in Nat
    BY <2>1, Answered, LastSeqIs
  <2>3. PICK q \in RequestRecords : q = Request("sync", LastSeq(Head(replies[d]))) /\ q.kind = "sync"
    BY <2>2, RequestNumbers
  <2>4. InFlight(d) /\ AnswersGood(d)' /\ (EditAnswered(d)' => EditAnswered(d))
    BY <2>1, AnsweredFlight DEF InFlight
  <2>5. InboxGood(d)' /\ (EditAsked(d)' => EditAsked(d))
    BY <1>5, <2>1, <2>3, <2>4, SentFlight DEF InFlight
  <2>6. InFlight(d)'
    BY <2>1, <2>4, <2>5 DEF InFlight
  <2>7. \A c \in Devices : c # d => replies'[c] = replies[c] /\ inbox'[c] = inbox[c]
    BY <2>1, <2>3, Answered, Sent
  <2>8. QED
    BY <1>2, <2>1, <2>6, <2>7
<1>21. ASSUME NEW d \in Devices, ReceivePush(d) PROVE P
  BY <1>3, <1>21 DEF ReceivePush, serverVars
<1>22. ASSUME NEW d \in Devices, Disconnect(d) \/ Logout(d) PROVE P
  BY <1>7, <1>22 DEF Disconnect, Logout, serverVars
<1>23. CASE PruneDelete \/ PruneMark
  BY <1>3, <1>23 DEF PruneDelete, PruneMark, netVars
<1>24. CASE ServerCrash
  BY <1>7, <1>24 DEF ServerCrash
<1>25. QED
  BY <1>8, <1>9, <1>11, <1>12, <1>13, <1>14, <1>16, <1>17, <1>18, <1>19, <1>20, <1>21, <1>22,
     <1>23, <1>24 DEF Next

\* Who is online changes by a login, a disconnection, a logout or a crash.
LEMMA OnlineMoves ==
    ASSUME TypeInv, [Next]_vars
    PROVE  \A d \in Devices :
              \/ d \in online' <=> d \in online
              \/ Login(d) /\ d \notin online
              \/ d \notin online' /\ (Disconnect(d) \/ Logout(d) \/ ServerCrash)
<1>1. ASSUME NEW d \in Devices,
             \/ EditMessage(d) \/ FlushOutbox(d) \/ DeleteMessage(d)
             \/ OpenConversation(d) \/ HandleEdit(d) \/ HandleDelete(d) \/ HandleOpen(d)
             \/ HandleSync(d) \/ ReadEvents(d) \/ (\E u \in Users : Announce(d, u))
             \/ FetchKeys(d) \/ ReceiveEdit(d) \/ ReceiveDelete(d) \/ ReceiveEvents(d)
             \/ ReceiveFull(d) \/ ReceiveOpen(d) \/ ReceivePush(d)
      PROVE  online' = online
  BY Zenon, <1>1 DEF EditMessage, FlushOutbox, DeleteMessage, OpenConversation, HandleEdit,
     HandleDelete, HandleOpen, HandleSync, ReadEvents, Announce, FetchKeys, ReceiveEdit,
     ReceiveDelete, ReceiveEvents, ReceiveFull, ReceiveOpen, ReceivePush
<1>2. PruneDelete \/ PruneMark \/ UNCHANGED vars => online' = online
  BY DEF PruneDelete, PruneMark, vars, netVars
<1>3. ASSUME NEW d \in Devices, Login(d) PROVE online' = online \cup {d} /\ d \notin online
  BY <1>3 DEF Login
<1>4. ASSUME NEW d \in Devices, Disconnect(d) \/ Logout(d) PROVE online' = online \ {d}
  BY <1>4 DEF Disconnect, Logout, Drop
<1>5. ServerCrash => online' = online \ Devices
  BY DEF ServerCrash, Drop
<1>6. QED
  BY <1>1, <1>2, <1>3, <1>4, <1>5 DEF Next

\* What is on its way was, or an edit is sent.
LEMMA ItsWay ==
    ASSUME TypeInv, [Next]_vars, NEW d \in Devices, NEW e, OnItsWay(d, e)'
    PROVE  OnItsWay(d, e) \/ (FetchKeys(d) /\ FetchSends(d) /\ e = Len(made) + 1)
<1>1. ASSUME NEW q \in Requests(d)', q.kind = "edit", q.arg = e
      PROVE  OnItsWay(d, e) \/ (FetchKeys(d) /\ FetchSends(d) /\ e = Len(made) + 1)
  BY <1>1, RequestsCome DEF OnItsWay, NewRequest
<1>2. ASSUME NEW r \in Answers(d)', r.kind = "edit", r.arg = e PROVE OnItsWay(d, e)
  <2>1. CASE r \in Answers(d)
    BY <1>2, <2>1 DEF OnItsWay
  <2>2. CASE d \in online /\ NewReply(d, r)
    <3>1. CASE inbox[d] # <<>> /\ Head(inbox[d]).kind = "edit" /\ r.arg = Head(inbox[d]).arg
      <4>1. Head(inbox[d]) \in Requests(d)
        <5>1. inbox[d] \in Seq(RequestRecords)
          BY DEF TypeInv, QueuesTyped
        <5>2. Head(inbox[d]) = inbox[d][1] /\ 1 \in 1 .. Len(inbox[d])
          BY <3>1, <5>1
        <5>3. QED
          BY <5>2 DEF Requests
      <4>2. QED
        BY <1>2, <3>1, <4>1 DEF OnItsWay
    <3>2. CASE r.kind = job[d].kind /\ r.arg = job[d].arg
      BY <1>2, <2>2, <3>2 DEF OnItsWay
    <3>3. QED
      BY <1>2, <2>2, <3>1, <3>2 DEF NewReply
  <2>3. QED
    BY <2>1, <2>2, AnswersCome
<1>3. ASSUME job'[d].kind = "edit", d \in online', job'[d].arg = e PROVE OnItsWay(d, e)
  <2>1. CASE job'[d] = job[d]
    <3>1. d \in online
      <4>1. Login(d) => job[d].kind = "none"
        BY DEF Login
      <4>2. QED
        BY <1>3, <2>1, <4>1, OnlineMoves
    <3>2. QED
      BY <1>3, <2>1, <3>1 DEF OnItsWay
  <2>2. CASE EditStarts(d)
    <3>1. FirstRequest(d) \in Requests(d) /\ FirstRequest(d).kind = "edit"
      BY <2>2, HandlingIs DEF EditStarts, HandleEdit
    <3>2. e = FirstRequest(d).arg
      BY <1>3, <2>2 DEF EditStarts, IsJob
    <3>3. QED
      BY <3>1, <3>2 DEF OnItsWay
  <2>3. CASE AnnounceGoesOn(d)
    <3>1. job[d].kind = "edit" /\ job[d].arg = e /\ online' = online
      BY <1>3, <2>3 DEF AnnounceGoesOn, IsJob, Announce
    <3>2. QED
      BY <1>3, <3>1 DEF OnItsWay
  <2>4. CASE DeleteStarts(d) \/ SyncStarts(d) \/ JobEnds(d)
    BY <1>3, <2>4 DEF DeleteStarts, SyncStarts, JobEnds, IsJob, NoJob
  <2>5. QED
    BY <2>1, <2>2, <2>3, <2>4, JobsMove DEF JobMove
<1>4. QED
  BY <1>1, <1>2, <1>3 DEF OnItsWay

LEMMA WayIsGood ==
    ASSUME TypeInv, NEW d \in Devices, NEW e, OnItsWay(d, e)
    PROVE  GoodEdit(e, d) /\ d \in online
<1>1. GoodJob(d)
  BY JobIs
<1>2. \A q \in Requests(d) : q.kind = "edit" => GoodEdit(q.arg, d) /\ d \in online
  BY RequestIn DEF GoodRequest
<1>3. \A r \in Answers(d) : r.kind = "edit" => GoodEdit(r.arg, d) /\ d \in online
  BY AnswerIn DEF GoodReply
<1>4. QED
  BY <1>1, <1>2, <1>3 DEF OnItsWay, GoodJob

LEMMA NothingOnItsWay ==
    ASSUME NEW d, ~EditAsked(d), ~EditAnswered(d), job[d].kind # "edit"
    PROVE  \A e : ~OnItsWay(d, e)
BY DEF OnItsWay, EditAsked, EditAnswered

LEMMA EditWaitsStep ==
    ASSUME TypeInv, FlightInv, [Next]_vars, NEW d \in Devices
    PROVE  EditWaits(d)'
<1>0. /\ Grows /\ TypeInv' /\ EditMove(d) /\ edit' \in [Devices -> Nat] /\ InFlight(d) /\ EditWaits(d)
      /\ JobMove(d) /\ slips[d] \subseteq slips'[d]
  BY StepGrows, TypeStep, EditsMove, JobsMove DEF FlightInv, Grows
<1>1. ASSUME NEW e, OnItsWay(d, e)' PROVE Waits(d, e)'
  <2>1. CASE FetchKeys(d) /\ FetchSends(d) /\ e = Len(made) + 1
    <3>1. /\ made'[Len(made) + 1] = NewEnvelope(d) /\ NewEnvelope(d).text = edit[d]
          /\ edit[d] # 0 /\ edit' = edit
      BY <2>1, FetchMakes DEF FetchSends
    <3>2. QED
      BY <2>1, <3>1 DEF Waits
  <2>2. CASE OnItsWay(d, e)
    <3>1. Waits(d, e) /\ GoodEdit(e, d)
      BY <1>0, <2>2, WayIsGood DEF EditWaits
    <3>2. made'[e] = made[e]
      BY <1>0, <3>1 DEF Grows, GoodEdit
    <3>3. CASE edit'[d] = edit[d]
      BY <1>0, <3>1, <3>2, <3>3 DEF Waits
    <3>4. CASE EditMessage(d) /\ edit'[d] = texts' /\ texts' # 0
      <4>1. SlipAt({d}, "overlapped")
        BY <3>1, <3>4 DEF EditMessage, Waits
      <4>2. "overlapped" \in slips'[d]
        BY <4>1, SlipsAdded, SlipNames
      <4>3. QED
        BY <3>4, <4>2 DEF Waits
    <3>5. CASE FetchKeys(d) /\ FetchEnds(d) /\ edit'[d] = 0
      <4>1. /\ replies[d] = <<>> /\ job[d].kind = "none" /\ inbox[d] # <<>>
            /\ Head(inbox[d]).kind = "fetch" /\ inbox' = [inbox EXCEPT ![d] = Tail(inbox[d])]
        BY <3>5 DEF FetchKeys, FetchEnds
      <4>2. ~EditAnswered(d)
        BY <4>1 DEF EditAnswered, Answers
      <4>3. InboxGood(d)
        BY <1>0 DEF InFlight
      <4>4. ~EditAsked(d)
        BY <4>1, <4>3, HandledFlight
      <4>5. QED
        BY <2>2, <4>1, <4>2, <4>4, NothingOnItsWay
    <3>6. CASE ReceiveEdit(d) /\ edit'[d] = 0
      <4>1. Answer(d, "edit") /\ inbox' = inbox /\ job' = job
        BY <3>6 DEF ReceiveEdit, serverVars
      <4>2. EditAnswered(d) /\ ~EditAnswered(d)'
        BY <1>0, <4>1, AnsweredFlight DEF InFlight
      <4>3. ~EditAsked(d)' /\ job'[d].kind # "edit"
        BY <1>0, <4>1, <4>2 DEF InFlight, EditAsked, Requests
      <4>4. QED
        BY <1>1, <4>2, <4>3 DEF OnItsWay, EditAsked, EditAnswered
    <3>7. CASE d \notin online'
      <4>1. inbox'[d] = <<>> /\ replies'[d] = <<>>
        BY <1>0, <3>7 DEF TypeInv, NetTyped
      <4>2. QED
        BY <1>1, <3>7, <4>1 DEF OnItsWay, Requests, Answers
    <3>8. QED
      BY <1>0, <3>3, <3>4, <3>5, <3>6, <3>7 DEF EditMove
  <2>3. QED
    BY <1>1, <2>1, <2>2, ItsWay
<1>2. ASSUME job'[d].kind = "edit", d \notin online' PROVE "unanswered" \in slips'[d]
  <2>1. CASE d \notin online
    <3>1. job[d].kind = "edit"
      <4>1. ~EditStarts(d)
        BY <2>1, HandlingIs DEF EditStarts, HandleEdit
      <4>2. job'[d] = job[d] \/ AnnounceGoesOn(d)
        BY <1>0, <1>2, <4>1 DEF JobMove, DeleteStarts, SyncStarts, JobEnds, IsJob, NoJob
      <4>3. QED
        BY <1>2, <4>2 DEF AnnounceGoesOn, IsJob
    <3>2. QED
      BY <1>0, <2>1, <3>1 DEF EditWaits
  <2>2. CASE Disconnect(d)
    <3>1. job' = job /\ SlipAt(IF Unanswered(d) THEN {d} ELSE {}, "unanswered")
      BY <2>2 DEF Disconnect, serverVars
    <3>2. Unanswered(d)
      BY <1>2, <3>1 DEF Unanswered
    <3>3. QED
      BY <3>1, <3>2, SlipsAdded, SlipNames
  <2>3. CASE Logout(d) \/ ServerCrash
    BY <1>2, <2>3 DEF Logout, ServerCrash, serverVars, NoJob
  <2>4. QED
    BY <1>2, <2>1, <2>2, <2>3, OnlineMoves
<1>3. QED
  BY <1>1, <1>2 DEF EditWaits

LEMMA FlightStep ==
    ASSUME TypeInv, FlightInv, [Next]_vars
    PROVE  FlightInv'
BY InFlightStep, EditWaitsStep DEF FlightInv

LEMMA FlightInit ==
    ASSUME Init
    PROVE  FlightInv
<1>1. \A d \in Devices : inbox[d] = <<>> /\ replies[d] = <<>> /\ job[d] = NoJob
  BY DEF Init
<1>2. SUFFICES ASSUME NEW d \in Devices PROVE InFlight(d) /\ EditWaits(d)
  BY DEF FlightInv
<1>3. inbox[d] = <<>> /\ replies[d] = <<>> /\ job[d].kind = "none"
  BY <1>1 DEF NoJob
<1>4. ~EditAsked(d) /\ ~EditAnswered(d) /\ InboxGood(d) /\ AnswersGood(d)
  BY <1>3 DEF EditAsked, EditAnswered, Requests, Answers, InboxGood, AnswersGood
<1>5. QED
  BY <1>3, <1>4, NothingOnItsWay DEF InFlight, EditWaits

-----------------------------------------------------------------------------
(***************************************************************************)
(* What a device shows and can read.                                       *)
(***************************************************************************)
LocalInv == \A d \in Devices : GoodLocal(Local(d))

LEMMA LocalStep ==
    ASSUME TypeInv, FlightInv, LocalInv, [Next]_vars
    PROVE  LocalInv'
<1>1. SUFFICES ASSUME NEW d \in Devices PROVE GoodLocal(Local(d)')
  BY DEF LocalInv, GoodLocal
<1>2. PICK l, m : l = Local(d) /\ m = Local(d)'
  OBVIOUS
<1>3. LocalMove(d) /\ GoodLocal(l) /\ LocalTyped(d, l)
  BY <1>2, LocalsMove, LocalIs DEF LocalInv
<1>4. CASE m = l
  BY <1>2, <1>3, <1>4
<1>5. CASE ReceiveOpen(d) /\ m = TakeMessage(d, l, FirstAnswer(d).arg)
  BY <1>2, <1>3, <1>5, OpenAnswered, TakeMessageKeeps
<1>6. CASE ReceivePush(d) /\ m = TakeEvent(d, l, log[Head(pushes[d])])
  BY <1>2, <1>3, <1>6, PushTaken, TakeEventKeeps
<1>7. CASE ReceiveEvents(d) /\ m = TakePage(d, FirstAnswer(d).page)
  BY <1>2, <1>3, <1>7, PageAnswered, TakePageKeeps
<1>8. CASE m = TakeDelete(l)
  BY <1>2, <1>3, <1>8, TakeDeleteKeeps
<1>9. CASE ReceiveEdit(d) /\ m = OwnEditDone(d)
  <2>1. /\ m.used = used[d] /\ m.cache = edit[d]
        /\ m.row.has = store[d].has /\ m.row.deleted = store[d].deleted
        /\ store[d].has /\ edit[d] # 0 => m.row.text = edit[d]
        /\ ~(store[d].has /\ edit[d] # 0) => m.row = store[d]
    BY <1>9, OwnEditDoneIs
  <2>2. edit[d] # 0
    <3>1. FirstAnswer(d) \in Answers(d) /\ FirstAnswer(d).kind = "edit"
      BY <1>9, Answered DEF ReceiveEdit, FirstAnswer
    <3>2. OnItsWay(d, FirstAnswer(d).arg)
      BY <3>1 DEF OnItsWay
    <3>3. QED
      BY <3>2 DEF FlightInv, EditWaits, Waits
  <2>3. ~store[d].has => store[d].text = 0
    BY <1>2, <1>3, LocalIs DEF LocalTyped, NoRow
  <2>4. GoodLocal(m)
    BY <2>1, <2>2, <2>3 DEF GoodLocal
  <2>5. QED
    BY <1>2, <2>4
<1>10. CASE m = Cleared(d)
  <2>1. m.row = NoRow /\ m.cache = l.cache /\ m.used = l.used
    BY <1>2, <1>10, ClearedIs, LocalIs
  <2>2. GoodLocal(m)
    BY <1>3, <2>1 DEF GoodLocal, NoRow
  <2>3. QED
    BY <1>2, <2>2
<1>11. QED
  BY <1>2, <1>3, <1>4, <1>5, <1>6, <1>7, <1>8, <1>9, <1>10 DEF LocalMove

LEMMA LocalInit ==
    ASSUME Init
    PROVE  LocalInv
<1>1. PICK w : w = [NoRow EXCEPT !.has = TRUE, !.text = 1]
  OBVIOUS
<1>2. /\ w.has /\ w.text = 1 /\ NoRow.text = 0 /\ ~NoRow.has
  BY <1>1 DEF NoRow
<1>3. /\ store = [d \in Devices |-> IF d = Origin THEN w ELSE NoRow]
      /\ cache = [d \in Devices |-> IF d = Origin THEN 1 ELSE 0]
      /\ used = [d \in Devices |-> {}]
  BY <1>1 DEF Init
<1>4. ASSUME NEW d \in Devices PROVE GoodLocal(Local(d))
  <2>1. /\ Local(d).row = store[d] /\ Local(d).cache = cache[d] /\ Local(d).used = {}
    BY <1>3 DEF Local
  <2>2. CASE d = Origin
    <3>1. store[d] = w /\ cache[d] = 1
      BY <1>3, <2>2
    <3>2. QED
      BY <1>2, <2>1, <3>1 DEF GoodLocal
  <2>3. CASE d # Origin
    <3>1. store[d] = NoRow /\ cache[d] = 0
      BY <1>3, <2>3
    <3>2. QED
      BY <1>2, <2>1, <3>1 DEF GoodLocal
  <2>4. QED
    BY <2>2, <2>3
<1>5. QED
  BY <1>4 DEF LocalInv

ShownInv == TypeInv /\ FlightInv /\ LocalInv

LEMMA ShownInvariant == Spec => []ShownInv
<1>1. Init => ShownInv
  BY TypeInit, FlightInit, LocalInit DEF ShownInv
<1>2. ShownInv /\ [Next]_vars => ShownInv'
  BY TypeStep, FlightStep, LocalStep DEF ShownInv
<1>3. QED
  BY <1>1, <1>2, PTL DEF Spec

LEMMA TypesOK ==
    ASSUME ShownInv
    PROVE  TypeOK
<1>0. /\ LogTyped /\ ServerTyped /\ JobsTyped /\ QueuesTyped /\ NetTyped /\ DevicesTyped /\ TypeInv
      /\ Len(log) \in Nat /\ Len(made) \in Nat /\ MaxActs \in Nat
  BY Lengths, EditNumbers DEF ShownInv, TypeInv
<1>1. /\ row \in [env : 0 .. Len(made), deleted : BOOLEAN] /\ (row.deleted <=> row.env = 0)
      /\ watermark \in 0 .. pruned /\ marking \in 0 .. pruned /\ pruned \in 0 .. Len(log)
      /\ texts \in 1 .. MaxActs + 1 /\ acts \in 0 .. MaxActs
  BY <1>0 DEF ServerTyped
<1>2. \A e \in Envelopes : made[e] \in [text : 1 .. texts, by : Authors]
  <2>1. \A e \in 1 .. Len(made) : made[e] \in MadeRecords /\ made[e].text \in 1 .. texts
    BY <1>0 DEF ServerTyped
  <2>2. QED
    BY <2>1 DEF Envelopes, MadeRecords
<1>3. ASSUME NEW i \in DOMAIN log
      PROVE  log[i] \in [to : Users, kind : {"other", "message", "edit", "delete"},
                         env : 0 .. Len(made), by : Authors]
  <2>1. i \in 1 .. Len(log)
    BY <1>0 DEF LogTyped
  <2>2. log[i] \in EventRecords /\ log[i].env \in 0 .. Len(made)
    BY <1>0, <2>1, EventIs
  <2>3. QED
    BY <2>2 DEF EventRecords
<1>4. ASSUME NEW d \in Devices
      PROVE  /\ job[d].kind \in {"none", "edit", "delete", "sync"} /\ job[d].todo \subseteq Users
             /\ \A i \in DOMAIN pushes[d] : pushes[d][i] \in 1 .. Len(log)
             /\ d \notin online => inbox[d] = <<>> /\ replies[d] = <<>> /\ pushes[d] = <<>>
  <2>1. job[d].kind \in {"none", "edit", "delete", "sync"} /\ job[d].todo \subseteq Users
    BY <1>0, JobIs DEF JobRecords
  <2>2. ASSUME NEW i \in DOMAIN pushes[d] PROVE pushes[d][i] \in 1 .. Len(log)
    <3>1. pushes[d] \in Seq(Nat)
      BY <1>0 DEF QueuesTyped
    <3>2. pushes[d][i] \in Pushed(d)
      BY <3>1, <2>2 DEF Pushed
    <3>3. QED
      BY <1>0, <3>2 DEF NetTyped, GoodPush, OwnEvents
  <2>3. QED
    BY <1>0, <2>1, <2>2 DEF NetTyped
<1>5. ASSUME NEW d \in Devices
      PROVE  /\ store[d] \in [has : BOOLEAN, text : 0 .. texts, deleted : BOOLEAN]
             /\ ~store[d].has => store[d] = NoRow
             /\ store[d].text # 0 => cache[d] # 0
             /\ cache[d] \in 0 .. texts /\ edit[d] \in 0 .. texts
             /\ used[d] \subseteq Envelopes /\ cursor[d] \in 0 .. Len(log)
             /\ slips[d] \subseteq Slips
  <2>1. /\ LocalTyped(d, Local(d)) /\ Local(d).row = store[d] /\ Local(d).cache = cache[d]
        /\ Local(d).used = used[d] /\ GoodLocal(Local(d)) /\ store[d] \in RowRecords
        /\ cache[d] \in Nat /\ edit[d] \in Nat /\ cursor[d] \in Nat /\ texts \in Nat
    BY <1>0, LocalIs DEF ShownInv, LocalInv, DevicesTyped, ServerTyped
  <2>2. /\ store[d].text <= texts /\ cache[d] <= texts /\ edit[d] <= texts
        /\ used[d] \subseteq 1 .. Len(made) /\ cursor[d] <= Len(log) /\ slips[d] \subseteq Slips
        /\ (~store[d].has => store[d] = NoRow)
    BY <1>0, <2>1 DEF LocalTyped, DevicesTyped
  <2>3. store[d] \in [has : BOOLEAN, text : 0 .. texts, deleted : BOOLEAN]
    BY <2>1, <2>2 DEF RowRecords
  <2>4. store[d].text # 0 => cache[d] # 0
    BY <2>1 DEF GoodLocal
  <2>5. QED
    BY <2>1, <2>2, <2>3, <2>4 DEF Envelopes
<1>6. online \subseteq Devices
  BY <1>0 DEF NetTyped
<1>7. QED
  BY <1>1, <1>2, <1>3, <1>4, <1>5, <1>6 DEF TypeOK

\* The server's tables and log, what is on the way on each connection and what each
\* device has stored keep their types, for any devices, page size and bounds: a row
\* without the message has no text, a text shown is in the cache, and nothing waits on
\* a closed connection (LocalStore::upsertMessage, the reset of a lost connection).
THEOREM EditTypes == Spec => []TypeOK
<1>1. ShownInv => TypeOK
  BY TypesOK
<1>2. QED
  BY <1>1, ShownInvariant, PTL

\* A step keeps the mark of a deletion.
LEMMA StepKeeps ==
    ASSUME ShownInv, [Next]_vars, NEW d \in Devices
    PROVE  store[d].deleted => store'[d].deleted \/ d \notin online'
<1>0. TypeInv /\ FlightInv /\ LocalInv
  BY DEF ShownInv
<1>1. PICK l, m : l = Local(d) /\ m = Local(d)'
  OBVIOUS
<1>2. l.row = store[d] /\ m.row = store'[d] /\ LocalTyped(d, l) /\ LocalMove(d)
  BY <1>0, <1>1, LocalIs, LocalsMove DEF Local
<1>3. SUFFICES Kept(l, m) \/ (l.row.deleted => m.row.deleted \/ d \notin online')
  BY <1>2 DEF Kept
<1>4. CASE m = l
  BY <1>4, KeptSelf
<1>5. CASE ReceiveOpen(d) /\ m = TakeMessage(d, l, FirstAnswer(d).arg)
  BY <1>0, <1>1, <1>2, <1>5, OpenAnswered, TakeMessageKeeps
<1>6. CASE ReceivePush(d) /\ m = TakeEvent(d, l, log[Head(pushes[d])])
  BY <1>0, <1>1, <1>2, <1>6, PushTaken, TakeEventKeeps
<1>7. CASE ReceiveEvents(d) /\ m = TakePage(d, FirstAnswer(d).page)
  BY <1>0, <1>1, <1>2, <1>7, PageAnswered, TakePageKeeps
<1>8. CASE m = TakeDelete(l)
  BY <1>0, <1>2, <1>8, TakeDeleteKeeps
<1>9. CASE ReceiveEdit(d) /\ m = OwnEditDone(d)
  BY <1>0, <1>2, <1>9, OwnEditDoneIs
<1>10. CASE Logout(d) /\ m = Cleared(d)
  BY <1>10 DEF Logout, Drop
<1>11. QED
  BY <1>1, <1>2, <1>4, <1>5, <1>6, <1>7, <1>8, <1>9, <1>10 DEF LocalMove

\* The text in the row and the text in the decryption cache stay the same through
\* overlapping edits, pages, pushes, openings and logouts, so that what decryptMessageObject
\* takes from the cache is not older than what is shown (handleEditMessageResponse,
\* decryptEditContent, LocalStore::upsertMessage).
THEOREM CacheFollowsEdits == Spec => []ShownIsCached
<1>1. ASSUME ShownInv, NEW d \in Devices
      PROVE  store[d].text \in {0, cache[d]}
  <2>1. /\ Local(d).row = store[d] /\ Local(d).cache = cache[d] /\ GoodLocal(Local(d))
    BY <1>1, LocalIs DEF ShownInv, LocalInv
  <2>2. QED
    BY <2>1 DEF GoodLocal
<1>2. ShownInv => ShownIsCached
  BY <1>1 DEF ShownIsCached
<1>3. QED
  BY <1>2, ShownInvariant, PTL

\* A message shown as deleted is not shown again by a page, a push, an answer or an
\* edit that arrives after the deletion; only a logout forgets it
\* (LocalStore::markMessageDeleted, LocalStore::upsertMessage).
THEOREM DeletionsStay == Spec => DeletedStays
<1>1. ShownInv /\ [Next]_vars =>
         [\A d \in Devices : store[d].deleted => store'[d].deleted \/ d \notin online']_vars
  BY StepKeeps
<1>2. QED
  BY <1>1, ShownInvariant, PTL DEF Spec, DeletedStays

-----------------------------------------------------------------------------
(***************************************************************************)
(* Pages without gaps.                                                     *)
(***************************************************************************)
\* No event of d's user between the beginning and the end of the page is missing.
Whole(d, r) == OwnEvents(d, r.arg, LastSeq(r)) \subseteq r.page

PageInv ==
    \A d \in Devices :
        /\ job[d].kind = "sync" /\ job[d].arg > 0 /\ "hole" \notin slips[d] => pruned <= job[d].arg
        /\ \A r \in Answers(d) :
              r.kind = "sync" /\ (pruned = 0 \/ (r.arg > 0 /\ "hole" \notin slips[d])) => Whole(d, r)

LEMMA OwnStays ==
    ASSUME Grows, NEW d, NEW a \in Nat, NEW h \in Nat, h <= Len(log)
    PROVE  OwnEvents(d, a, h)' = OwnEvents(d, a, h)
BY DEF Grows, OwnEvents

LEMMA PrunedMoves ==
    ASSUME TypeInv, [Next]_vars
    PROVE  pruned' = pruned \/ PruneDelete
<1>1. ASSUME NEW d \in Devices,
             \/ Login(d) \/ EditMessage(d) \/ FlushOutbox(d) \/ DeleteMessage(d)
             \/ OpenConversation(d) \/ HandleEdit(d) \/ HandleDelete(d) \/ HandleOpen(d)
             \/ HandleSync(d) \/ ReadEvents(d) \/ (\E u \in Users : Announce(d, u)) \/ FetchKeys(d)
             \/ ReceiveEdit(d) \/ ReceiveDelete(d) \/ ReceiveEvents(d) \/ ReceiveFull(d)
             \/ ReceiveOpen(d) \/ ReceivePush(d) \/ Disconnect(d) \/ Logout(d)
      PROVE  pruned' = pruned
  BY Zenon, <1>1 DEF Login, EditMessage, FlushOutbox, DeleteMessage, OpenConversation,
      HandleEdit, HandleDelete, HandleOpen, HandleSync, ReadEvents, Announce, FetchKeys,
      ReceiveEdit, ReceiveDelete, ReceiveEvents, ReceiveFull, ReceiveOpen, ReceivePush,
      Disconnect, Logout, serverVars
<1>2. PruneMark \/ ServerCrash \/ UNCHANGED vars => pruned' = pruned
  BY DEF PruneMark, ServerCrash, vars, serverVars
<1>3. QED
  BY <1>1, <1>2 DEF Next

\* getSyncEvents(): from a place that nothing after was removed, the page leaves out
\* nothing before its end.
LEMMA PageIsWhole ==
    ASSUME TypeInv, NEW d \in Devices, NEW r \in ReplyRecords, GoodReply(d, r), r.kind = "sync",
           pruned <= r.arg, r.page = EventsAfter(d, r.arg)
    PROVE  Whole(d, r)
<1>0. /\ r.arg \in Nat /\ pruned \in Nat /\ Len(log) \in Nat /\ PageLimit \in Nat
      /\ LastSeq(r) \in Nat /\ LastSeq(r) <= Len(log)
      /\ r.page = {} => LastSeq(r) = r.arg
      /\ r.page # {} => LastSeq(r) \in r.page
  BY Lengths, LastSeqIs, EditNumbers DEF ReplyRecords
<1>1. CASE r.page = {}
  BY <1>0, <1>1 DEF Whole, OwnEvents
<1>2. CASE r.page # {}
  <2>1. PICK last, mine : /\ last = LastSeq(r)
                          /\ mine = {i \in OwnEvents(d, r.arg, Len(log)) : i > pruned}
    OBVIOUS
  <2>2. r.page = {i \in mine : Cardinality({j \in mine : j < i}) < PageLimit}
    BY <2>1 DEF EventsAfter
  <2>3. /\ last \in r.page /\ last \in Nat /\ last <= Len(log)
        /\ Cardinality({j \in mine : j < last}) < PageLimit
    BY <1>0, <1>2, <2>1, <2>2
  <2>4. mine \subseteq 1 .. Len(log) /\ mine \subseteq Nat
    BY <1>0, <2>1 DEF OwnEvents
  <2>5. IsFiniteSet(1 .. Len(log))
    <3>1. PICK n \in Int : n = Len(log) /\ 1 \in Int
      BY <1>0
    <3>2. QED
      BY <3>1, FS_Interval
  <2>6. \A k : IsFiniteSet({j \in mine : j < k}) /\ Cardinality({j \in mine : j < k}) \in Nat
    BY <2>4, <2>5, FS_Subset, FS_CardinalityType
  <2>7. ASSUME NEW i \in OwnEvents(d, r.arg, last) PROVE i \in r.page
    <3>1. i \in mine /\ i \in Nat /\ i <= last
      BY <1>0, <2>1, <2>3, <2>7 DEF OwnEvents
    <3>2. {j \in mine : j < i} \subseteq {j \in mine : j < last}
      <4>1. ASSUME NEW j \in mine, j < i PROVE j < last
        <5>1. PICK a \in Nat, b \in Nat, c \in Nat : a = j /\ b = i /\ c = last
          BY <2>3, <2>4, <3>1, <4>1
        <5>2. QED
          BY <3>1, <4>1, <5>1
      <4>2. QED
        BY <4>1
    <3>3. Cardinality({j \in mine : j < i}) <= Cardinality({j \in mine : j < last})
      BY <2>6, <3>2, FS_Subset
    <3>4. Cardinality({j \in mine : j < i}) < PageLimit
      <4>1. PICK ci \in Nat, cl \in Nat : /\ ci = Cardinality({j \in mine : j < i})
                                         /\ cl = Cardinality({j \in mine : j < last})
        BY <2>6
      <4>2. PICK n \in Nat : n = PageLimit
        BY <1>0
      <4>3. QED
        BY <2>3, <3>3, <4>1, <4>2
    <3>5. QED
      BY <2>2, <3>1, <3>4
  <2>8. QED
    BY <2>1, <2>7 DEF Whole
<1>3. QED
  BY <1>1, <1>2

LEMMA PageStep ==
    ASSUME TypeInv, PageInv, [Next]_vars
    PROVE  PageInv'
<1>0. /\ Grows /\ pruned \in Nat /\ pruned' \in Nat /\ pruned <= pruned' /\ TypeInv'
  BY StepGrows, Lengths, TypeStep DEF Grows, TypeInv, ServerTyped
<1>1. SUFFICES ASSUME NEW d \in Devices
               PROVE  /\ job'[d].kind = "sync" /\ job'[d].arg > 0 /\ "hole" \notin slips'[d]
                            => pruned' <= job'[d].arg
                      /\ \A r \in Answers(d)' :
                            r.kind = "sync" /\ (pruned' = 0 \/ (r.arg > 0 /\ "hole" \notin slips'[d]))
                               => Whole(d, r)'
  BY DEF PageInv
<1>2. /\ job[d].kind = "sync" /\ job[d].arg > 0 /\ "hole" \notin slips[d] => pruned <= job[d].arg
      /\ \A r \in Answers(d) :
            r.kind = "sync" /\ (pruned = 0 \/ (r.arg > 0 /\ "hole" \notin slips[d])) => Whole(d, r)
      /\ slips[d] \subseteq slips'[d] /\ JobMove(d) /\ job[d].arg \in Nat
  BY <1>0, JobsMove, JobIs DEF PageInv, Grows
<1>3. ASSUME job'[d].kind = "sync", job'[d].arg > 0, "hole" \notin slips'[d]
      PROVE  pruned' <= job'[d].arg
  <2>1. CASE job'[d] = job[d]
    <3>1. ~PruneDelete
      <4>1. PruneDelete => SlipAt({c \in Devices : job[c].kind = "sync"}, "hole")
        BY DEF PruneDelete
      <4>2. QED
        BY <1>3, <2>1, <4>1, SlipsAdded, SlipNames
    <3>2. QED
      BY <1>2, <1>3, <2>1, <3>1, PrunedMoves
  <2>2. CASE SyncStarts(d)
    <3>1. /\ FirstRequest(d).arg \in Nat /\ ~BehindWatermark(FirstRequest(d).arg)
          /\ job'[d].arg = FirstRequest(d).arg
          /\ SlipAt(IF watermark < pruned THEN {d} ELSE {}, "hole") /\ pruned' = pruned
      BY <2>2, HandlingIs DEF SyncStarts, HandleSync, FirstRequest, IsJob
    <3>2. ~(watermark < pruned)
      BY <1>3, <3>1, SlipsAdded, SlipNames
    <3>3. watermark \in Nat
      BY DEF TypeInv, ServerTyped
    <3>4. QED
      BY <1>0, <1>3, <3>1, <3>2, <3>3 DEF BehindWatermark
  <2>3. CASE EditStarts(d) \/ DeleteStarts(d) \/ JobEnds(d)
    BY <1>3, <2>3 DEF EditStarts, DeleteStarts, JobEnds, IsJob, NoJob
  <2>4. CASE AnnounceGoesOn(d)
    BY <1>3, <2>4, AnnounceLogs DEF AnnounceGoesOn, IsJob
  <2>5. QED
    BY <1>2, <2>1, <2>2, <2>3, <2>4 DEF JobMove
<1>4. ASSUME NEW r \in Answers(d)', r.kind = "sync",
             pruned' = 0 \/ (r.arg > 0 /\ "hole" \notin slips'[d])
      PROVE  Whole(d, r)'
  <2>1. pruned = 0 \/ (r.arg > 0 /\ "hole" \notin slips[d])
    BY <1>0, <1>2, <1>4
  <2>2. r \in ReplyRecords /\ GoodReply(d, r) /\ Whole(d, r)
    <3>1. CASE r \in Answers(d)
      BY <1>2, <1>4, <2>1, <3>1, AnswerIn
    <3>2. CASE r \in ReplyRecords /\ NewReply(d, r)
      <4>1. /\ job[d].kind = "sync" /\ r.arg = job[d].arg /\ r.page = EventsAfter(d, job[d].arg)
        BY <1>4, <3>2 DEF NewReply
      <4>2. pruned <= r.arg
        BY <1>0, <1>2, <2>1, <4>1
      <4>3. GoodReply(d, r)
        BY <1>4, <4>1, JobIs, EventsAfterAre DEF GoodReply, GoodJob
      <4>4. QED
        BY <1>4, <3>2, <4>1, <4>2, <4>3, PageIsWhole
    <3>3. QED
      BY <3>1, <3>2, AnswersCome
  <2>3. r.arg \in Nat /\ LastSeq(r) \in Nat /\ LastSeq(r) <= Len(log)
    BY <1>4, <2>2, LastSeqIs DEF ReplyRecords
  <2>4. OwnEvents(d, r.arg, LastSeq(r))' = OwnEvents(d, r.arg, LastSeq(r))
    BY <1>0, <2>3, OwnStays
  <2>5. QED
    BY <2>2, <2>4 DEF Whole
<1>5. QED
  BY <1>3, <1>4

LEMMA PageInit ==
    ASSUME Init
    PROVE  PageInv
BY DEF Init, PageInv, Answers, NoJob

\* A page of sync_events for a cursor that was not behind the watermark leaves out no
\* event of the user up to its last one, unless events were removed around the request
\* without being written to the watermark in time
\* (getSyncEvents, pruneSyncEvents and the watermark check of handleSyncEvents).
THEOREM NoSilentGaps == Spec => []GapsAnnounced
<1>1. Init => TypeInv /\ PageInv
  BY TypeInit, PageInit
<1>2. TypeInv /\ PageInv /\ [Next]_vars => TypeInv' /\ PageInv'
  BY TypeStep, PageStep
<1>3. TypeInv /\ PageInv => GapsAnnounced
  <2>1. SUFFICES ASSUME TypeInv, PageInv, NEW d \in Devices, NEW i \in DOMAIN replies[d],
                        replies[d][i].kind = "sync", replies[d][i].arg > 0,
                        "hole" \notin slips[d],
                        NEW s \in OwnEvents(d, replies[d][i].arg, LastSeq(replies[d][i]))
                 PROVE  s \in replies[d][i].page
    BY DEF GapsAnnounced
  <2>2. replies[d][i] \in Answers(d)
    BY <2>1 DEF Answers, TypeInv, QueuesTyped
  <2>3. QED
    BY <2>1, <2>2 DEF PageInv, Whole
<1>4. QED
  BY <1>1, <1>2, <1>3, PTL DEF Spec

-----------------------------------------------------------------------------
(***************************************************************************)
(* What a device has seen of its event stream, while nothing is pruned.    *)
(***************************************************************************)
\* The place of the event that tells d of the message.
MsgAt(d) == IF d \in Readers THEN 3 ELSE 4

\* Event i has left its trace in the local state l of d.
SeenEvent(d, i, l) ==
    /\ log[i].kind = "message" => l.row.has
    /\ log[i].kind = "delete" /\ log[i].by # d => l.row.deleted
    /\ log[i].kind = "edit" /\ d \in Readers => log[i].env \in l.used

Seen(d, upto, l) == \A i \in OwnEvents(d, 0, upto) : SeenEvent(d, i, l)

StreamOf(d) ==
    /\ \A q \in Requests(d) : q.kind = "sync" => q.arg <= cursor[d]
    /\ job[d].kind = "sync" => job[d].arg <= cursor[d]
    /\ \A r \in Answers(d) : r.kind # "full" /\ (r.kind = "sync" => r.arg <= cursor[d])
    /\ Seen(d, cursor[d], Local(d))

StreamInv == pruned = 0 => \A d \in Devices : StreamOf(d)

LEMMA MessageAt ==
    ASSUME TypeInv, NEW d \in Devices
    PROVE  /\ MsgAt(d) \in OwnEvents(d, 0, Len(log)) /\ log[MsgAt(d)].kind = "message"
           /\ MsgAt(d) \in Nat
           /\ \A i \in OwnEvents(d, 0, Len(log)) :
                 /\ i \in Nat /\ i \in 1 .. Len(log)
                 /\ log[i].kind \in {"edit", "delete"} => MsgAt(d) < i
<1>1. /\ log[3].to = "reader" /\ log[3].kind = "message"
      /\ log[4].to = "author" /\ log[4].kind = "message"
      /\ log[1].kind = "other" /\ log[2].kind = "other"
      /\ Len(log) \in Nat /\ 4 <= Len(log)
  BY Lengths DEF TypeInv, LogTyped
<1>2. UserOf(d) = IF d \in Readers THEN "reader" ELSE "author"
  BY EditNumbers
<1>3. MsgAt(d) \in OwnEvents(d, 0, Len(log)) /\ log[MsgAt(d)].kind = "message" /\ MsgAt(d) \in {3, 4}
  BY <1>1, <1>2 DEF MsgAt, OwnEvents
<1>4. ASSUME NEW i \in OwnEvents(d, 0, Len(log))
      PROVE  /\ i \in Nat /\ i \in 1 .. Len(log)
             /\ log[i].kind \in {"edit", "delete"} => MsgAt(d) < i
  <2>1. i \in 1 .. Len(log)
    BY <1>1 DEF OwnEvents
  <2>2. log[i].kind \in {"edit", "delete"} => i # 1 /\ i # 2 /\ i # 3 /\ i # 4
    BY <1>1
  <2>3. i \in Nat /\ (i # 1 /\ i # 2 /\ i # 3 /\ i # 4 => 4 < i)
    BY <1>1, <2>1
  <2>4. QED
    BY <1>3, <2>1, <2>2, <2>3
<1>5. QED
  BY <1>3, <1>4

LEMMA KeptSeen ==
    ASSUME NEW d, NEW i, NEW l, NEW m, Kept(l, m), SeenEvent(d, i, l)
    PROVE  SeenEvent(d, i, m)
BY DEF Kept, SeenEvent

\* An event leaves its trace, if the message was there before it.
LEMMA TakenSeen ==
    ASSUME TypeInv, NEW d \in Devices, NEW l, LocalTyped(d, l), NEW i \in 1 .. Len(log),
           NEW m, m = TakeEvent(d, l, log[i]),
           log[i].kind = "delete" => l.row.has
    PROVE  SeenEvent(d, i, m)
<1>1. /\ log[i] \in EventRecords /\ GoodEvent(i) /\ log[i].env \in 0 .. Len(made)
      /\ 1 \in 0 .. Len(made) /\ l \in LocalRecords
  BY EventIs, Lengths DEF TypeInv, ServerTyped, LocalTyped
<1>2. CASE log[i].kind = "message"
  <2>1. m = TakeMessage(d, l, 1)
    BY <1>2, TakeEventIs
  <2>2. m.row.has
    BY <1>1, <2>1, TakeMessageIs
  <2>3. QED
    BY <1>2, <2>2 DEF SeenEvent
<1>3. CASE log[i].kind = "edit" /\ d \in Readers
  <2>1. log[i].by \in Authors /\ log[i].by # d /\ log[i].env # 0 /\ made[log[i].env].by # d
    BY <1>1, <1>3, EditNumbers, Lengths DEF GoodEvent, GoodEdit
  <2>2. m = TakeEdit(d, l, log[i].env)
    BY <1>3, <2>1, TakeEventIs
  <2>3. log[i].env \in m.used
    <3>1. CASE Opens(d, l, log[i].env)
      BY <1>1, <1>3, <2>2, <3>1, TakeEditIs
    <3>2. CASE ~Opens(d, l, log[i].env)
      BY <1>1, <1>3, <2>1, <2>2, <3>2, TakeEditIs DEF Opens
    <3>3. QED
      BY <3>1, <3>2
  <2>4. QED
    BY <1>3, <2>3 DEF SeenEvent
<1>4. CASE log[i].kind = "delete" /\ log[i].by # d
  <2>1. m = TakeDelete(l) /\ l.row.has
    BY <1>4, TakeEventIs
  <2>2. m.row.deleted
    BY <1>1, <2>1, TakeDeleteIs
  <2>3. QED
    BY <1>4, <2>2 DEF SeenEvent
<1>5. QED
  BY <1>2, <1>3, <1>4 DEF SeenEvent

\* ingestSyncEvents(): a page without gaps, from no later than the cursor, leaves
\* nothing unseen behind it.
LEMMA PageTrace ==
    ASSUME TypeInv, NEW d \in Devices, NEW r \in ReplyRecords, GoodReply(d, r), r.kind = "sync",
           Whole(d, r), r.arg <= cursor[d], Seen(d, cursor[d], Local(d))
    PROVE  \E f : /\ Trace(f, d, r.page)
                  /\ \A k \in 0 .. Len(log) :
                        /\ LocalTyped(d, f[k])
                        /\ \A i \in OwnEvents(d, 0, Len(log)) :
                              i <= cursor[d] \/ (i <= k /\ i <= LastSeq(r)) => SeenEvent(d, i, f[k])
<1>0. /\ r.arg \in Nat /\ Len(log) \in Nat /\ cursor[d] \in Nat /\ cursor[d] <= Len(log)
      /\ LastSeq(r) \in Nat /\ LastSeq(r) <= Len(log)
      /\ r.page \subseteq OwnEvents(d, r.arg, LastSeq(r)) /\ r.page \subseteq 1 .. Len(log)
  <2>1. /\ \A i \in r.page : i \in OwnEvents(d, r.arg, LastSeq(r))
        /\ r.arg \in Nat /\ LastSeq(r) \in Nat /\ LastSeq(r) <= Len(log) /\ Len(log) \in Nat
    BY LastSeqIs, Lengths DEF ReplyRecords
  <2>2. cursor[d] \in Nat /\ cursor[d] <= Len(log)
    BY DEF TypeInv, DevicesTyped
  <2>3. r.page \subseteq 1 .. Len(log)
    BY <2>1 DEF OwnEvents
  <2>4. QED
    BY <2>1, <2>2, <2>3
<1>9. PICK f : Trace(f, d, r.page)
  BY <1>0, PageIsTraced
<1>1. /\ f[0] = Local(d) /\ TakePage(d, r.page) = f[Len(log)]
      /\ \A i \in 1 .. Len(log) :
            f[i] = IF i \in r.page THEN TakeEvent(d, f[i - 1], log[i]) ELSE f[i - 1]
  BY <1>9 DEF Trace
<1>2. PICK last \in Nat, c \in Nat, n \in Nat : last = LastSeq(r) /\ c = cursor[d] /\ n = Len(log)
  BY <1>0
<1> DEFINE Due(k) == {i \in OwnEvents(d, 0, n) : i <= c \/ (i <= k /\ i <= last)}
           G(k) == LocalTyped(d, f[k]) /\ \A i \in Due(k) : SeenEvent(d, i, f[k])
<1>3. PICK S : S = {k \in 0 .. n : G(k)}
  OBVIOUS
<1>4. 0 \in S
  <2>1. LocalTyped(d, f[0])
    BY <1>1, LocalIs
  <2>2. \A i \in Due(0) : i \in OwnEvents(d, 0, c)
    BY DEF OwnEvents
  <2>3. \A i \in Due(0) : SeenEvent(d, i, f[0])
    BY <1>1, <1>2, <2>2 DEF Seen
  <2>4. QED
    BY <1>3, <2>1, <2>3
<1>5. ASSUME NEW k \in 1 .. n, k - 1 \in S PROVE k \in S
  <2>1. G(k - 1) /\ k - 1 \in Nat
    BY <1>3, <1>5
  <2>2. CASE k \in r.page
    <3>1. f[k] = TakeEvent(d, f[k - 1], log[k])
      BY <1>1, <1>2, <2>2
    <3>2. LocalTyped(d, f[k]) /\ Kept(f[k - 1], f[k])
      BY <1>2, <2>1, <3>1, TakeEventKeeps
    <3>3. k \in OwnEvents(d, 0, n) /\ k <= last
      BY <1>0, <1>2, <2>2 DEF OwnEvents
    <3>4. log[k].kind = "delete" => f[k - 1].row.has
      <4>1. SUFFICES ASSUME log[k].kind = "delete" PROVE f[k - 1].row.has
        OBVIOUS
      <4>2. /\ MsgAt(d) \in OwnEvents(d, 0, n) /\ log[MsgAt(d)].kind = "message"
            /\ MsgAt(d) \in Nat /\ MsgAt(d) < k
        BY <1>2, <3>3, <4>1, MessageAt
      <4>3. MsgAt(d) <= k - 1 /\ MsgAt(d) <= last
        BY <3>3, <4>2
      <4>4. MsgAt(d) \in Due(k - 1)
        BY <4>2, <4>3
      <4>5. QED
        BY <2>1, <4>2, <4>4 DEF SeenEvent
    <3>5. SeenEvent(d, k, f[k])
      BY <1>2, <2>1, <3>1, <3>4, TakenSeen
    <3>6. \A i \in Due(k) : i = k \/ i \in Due(k - 1)
      BY DEF OwnEvents
    <3>7. \A i \in Due(k - 1) : SeenEvent(d, i, f[k])
      BY <2>1, <3>2, KeptSeen
    <3>8. \A i \in Due(k) : SeenEvent(d, i, f[k])
      BY <3>5, <3>6, <3>7
    <3>9. QED
      BY <1>3, <3>2, <3>8
  <2>3. CASE k \notin r.page
    <3>1. f[k] = f[k - 1]
      BY <1>1, <1>2, <2>3
    <3>2. ASSUME NEW i \in Due(k) PROVE i \in Due(k - 1)
      <4>1. i \in 1 .. n /\ log[i].to = UserOf(d)
        BY <3>2 DEF OwnEvents
      <4>2. CASE i <= c \/ i # k
        BY <4>1, <4>2, <3>2
      <4>3. CASE ~(i <= c) /\ i = k
        <5>1. i \in OwnEvents(d, r.arg, LastSeq(r))
          BY <1>0, <1>2, <3>2, <4>1, <4>3 DEF OwnEvents
        <5>2. QED
          BY <2>3, <4>3, <5>1 DEF Whole
      <4>4. QED
        BY <4>2, <4>3
    <3>3. \A i \in Due(k) : SeenEvent(d, i, f[k])
      BY <2>1, <3>1, <3>2
    <3>4. QED
      BY <1>3, <2>1, <3>1, <3>3
  <2>4. QED
    BY <2>2, <2>3
<1>6. ASSUME NEW k \in 0 .. n PROVE k \in S
  <2>1. k \in Nat /\ \A i \in 1 .. k : i \in 1 .. n
    BY <1>6
  <2>2. QED
    BY <1>4, <1>5, <2>1, UpTo
<1>7. \A k \in 0 .. n : G(k)
  BY <1>3, <1>6
<1>8. ASSUME NEW k \in 0 .. Len(log)
      PROVE  /\ LocalTyped(d, f[k])
             /\ \A i \in OwnEvents(d, 0, Len(log)) :
                   i <= cursor[d] \/ (i <= k /\ i <= LastSeq(r)) => SeenEvent(d, i, f[k])
  BY <1>2, <1>7
<1>10. QED
  BY <1>8, <1>9

LEMMA PageSeen ==
    ASSUME TypeInv, NEW d \in Devices, NEW r \in ReplyRecords, GoodReply(d, r), r.kind = "sync",
           Whole(d, r), r.arg <= cursor[d], Seen(d, cursor[d], Local(d)),
           NEW m, m = TakePage(d, r.page)
    PROVE  Seen(d, cursor[d], m) /\ Seen(d, LastSeq(r), m)
<1>0. /\ Len(log) \in Nat /\ cursor[d] \in Nat /\ cursor[d] <= Len(log)
      /\ LastSeq(r) \in Nat /\ LastSeq(r) <= Len(log)
  BY LastSeqIs, Lengths DEF TypeInv, DevicesTyped
<1>1. PICK f : /\ Trace(f, d, r.page)
               /\ \A k \in 0 .. Len(log) :
                     /\ LocalTyped(d, f[k])
                     /\ \A i \in OwnEvents(d, 0, Len(log)) :
                           i <= cursor[d] \/ (i <= k /\ i <= LastSeq(r)) => SeenEvent(d, i, f[k])
  BY PageTrace
<1>2. f[Len(log)] = m /\ Len(log) \in 0 .. Len(log)
  BY <1>0, <1>1 DEF Trace
<1>3. \A i \in OwnEvents(d, 0, Len(log)) : i <= cursor[d] \/ i <= LastSeq(r) => SeenEvent(d, i, m)
  BY <1>0, <1>1, <1>2 DEF OwnEvents
<1>4. \A i \in OwnEvents(d, 0, cursor[d]) : i \in OwnEvents(d, 0, Len(log)) /\ i <= cursor[d]
  BY <1>0 DEF OwnEvents
<1>5. \A i \in OwnEvents(d, 0, LastSeq(r)) : i \in OwnEvents(d, 0, Len(log)) /\ i <= LastSeq(r)
  BY <1>0 DEF OwnEvents
<1>6. QED
  BY <1>3, <1>4, <1>5 DEF Seen

LEMMA StreamSteps ==
    ASSUME TypeInv, PageInv, StreamInv, [Next]_vars, pruned' = 0, NEW d \in Devices
    PROVE  StreamOf(d)'
<1>0. /\ Grows /\ TypeInv' /\ pruned = 0 /\ StreamOf(d) /\ CursorMove(d) /\ LocalMove(d) /\ JobMove(d)
      /\ cursor'[d] \in Nat /\ cursor[d] \in Nat /\ cursor'[d] <= Len(log) /\ Len(log) \in Nat
  <2>1. Grows /\ TypeInv' /\ pruned \in Nat
    BY StepGrows, TypeStep, Lengths
  <2>2. pruned = 0
    BY <2>1 DEF Grows
  <2>3. QED
    BY <2>1, <2>2, CursorsMove, LocalsMove, JobsMove, Lengths DEF StreamInv, TypeInv, DevicesTyped
<1>7. PICK l, m : l = Local(d) /\ m = Local(d)'
  OBVIOUS
<1>8. PICK c \in Nat, b \in Nat : c = cursor'[d] /\ b = cursor[d]
  BY <1>0
<1>1. l = Local(d) /\ m = Local(d)' /\ c = cursor'[d] /\ b = cursor[d]
  BY <1>7, <1>8
<1>2. OwnEvents(d, 0, c)' = OwnEvents(d, 0, c)
  BY <1>0, <1>1, OwnStays
<1>3. ASSUME Seen(d, c, m) PROVE Seen(d, cursor[d], Local(d))'
  <2>1. ASSUME NEW i \in OwnEvents(d, 0, c) PROVE SeenEvent(d, i, m)'
    <3>1. log'[i] = log[i]
      BY <1>0, <1>1, <2>1 DEF Grows, OwnEvents
    <3>2. QED
      BY <1>3, <2>1, <3>1 DEF Seen, SeenEvent
  <2>2. QED
    BY <1>1, <1>2, <2>1 DEF Seen
<1>4. CASE Logout(d)
  <2>1. d \notin online' /\ job'[d].kind = "none" /\ cursor'[d] = 0
    BY <1>4 DEF Logout, Drop, serverVars, TypeInv, DevicesTyped
  <2>2. inbox'[d] = <<>> /\ replies'[d] = <<>>
    BY <1>0, <2>1 DEF TypeInv, NetTyped
  <2>3. Seen(d, c, m)
    BY <1>1, <2>1 DEF Seen, OwnEvents
  <2>4. QED
    BY <1>3, <2>1, <2>2, <2>3 DEF StreamOf, Requests, Answers
<1>5. CASE ~Logout(d)
  <2>1. ~ReceiveFull(d)
    BY <1>0, Answered DEF ReceiveFull, StreamOf
  <2>2. b <= c /\ (c = b \/ (ReceiveEvents(d) /\ c = LastSeq(FirstAnswer(d))))
    <3>1. CASE cursor'[d] = cursor[d]
      BY <1>1, <3>1
    <3>2. CASE ReceiveEvents(d) /\ LastSeq(FirstAnswer(d)) > cursor[d] /\ cursor'[d] = LastSeq(FirstAnswer(d))
      BY <1>1, <3>2
    <3>3. QED
      BY <1>0, <1>5, <2>1, <3>1, <3>2 DEF CursorMove
  <2>3. ASSUME NEW q \in Requests(d)', q.kind = "sync" PROVE q.arg <= c
    <3>1. CASE q \in Requests(d)
      <4>1. q.arg <= b /\ q.arg \in Nat
        BY <1>0, <1>1, <2>3, <3>1, RequestIn DEF StreamOf, RequestRecords
      <4>2. QED
        BY <2>2, <4>1
    <3>2. CASE q.arg = cursor[d]
      BY <1>1, <2>2, <3>2
    <3>3. CASE /\ Answer(d, "sync") /\ q.arg = LastSeq(Head(replies[d]))
               /\ cursor' = [cursor EXCEPT ![d] =
                     IF LastSeq(Head(replies[d])) > @ THEN LastSeq(Head(replies[d])) ELSE @]
      <4>1. LastSeq(Head(replies[d])) \in Nat
        BY <3>3, Answered, LastSeqIs
      <4>2. PICK s \in Nat : s = LastSeq(Head(replies[d]))
        BY <4>1
      <4>3. c = IF s > b THEN s ELSE b
        BY <1>1, <3>3, <4>2 DEF TypeInv, DevicesTyped
      <4>4. QED
        BY <3>3, <4>2, <4>3
    <3>4. QED
      BY <2>3, <3>1, <3>2, <3>3, RequestsCome DEF NewRequest
  <2>4. ASSUME job'[d].kind = "sync" PROVE job'[d].arg <= c
    <3>1. CASE job'[d] = job[d]
      <4>1. job[d].arg <= b /\ job[d].arg \in Nat
        BY <1>0, <1>1, <2>4, <3>1, JobIs DEF StreamOf
      <4>2. QED
        BY <2>2, <3>1, <4>1
    <3>2. CASE SyncStarts(d)
      <4>1. /\ FirstRequest(d) \in Requests(d) /\ FirstRequest(d).kind = "sync"
            /\ FirstRequest(d).arg \in Nat /\ job'[d].arg = FirstRequest(d).arg
        BY <3>2, HandlingIs DEF SyncStarts, HandleSync, IsJob
      <4>2. FirstRequest(d).arg <= b
        BY <1>0, <1>1, <4>1 DEF StreamOf
      <4>3. QED
        BY <2>2, <4>1, <4>2
    <3>3. CASE EditStarts(d) \/ DeleteStarts(d) \/ JobEnds(d)
      BY <2>4, <3>3 DEF EditStarts, DeleteStarts, JobEnds, IsJob, NoJob
    <3>4. CASE AnnounceGoesOn(d)
      BY <2>4, <3>4, AnnounceLogs DEF AnnounceGoesOn, IsJob
    <3>5. QED
      BY <1>0, <3>1, <3>2, <3>3, <3>4 DEF JobMove
  <2>5. ASSUME NEW r \in Answers(d)' PROVE r.kind # "full" /\ (r.kind = "sync" => r.arg <= c)
    <3>1. CASE r \in Answers(d)
      <4>1. r.kind # "full" /\ (r.kind = "sync" => r.arg <= b) /\ r.arg \in Nat
        BY <1>0, <1>1, <3>1, AnswerIn DEF StreamOf, ReplyRecords
      <4>2. QED
        BY <2>2, <4>1
    <3>2. CASE NewReply(d, r)
      <4>1. r.kind # "full"
        BY <1>0, <3>2 DEF NewReply, TypeInv, JobsTyped, JobRecords
      <4>2. r.kind = "sync" => r.arg = job[d].arg /\ job[d].kind = "sync"
        BY <3>2 DEF NewReply
      <4>3. r.kind = "sync" => r.arg <= b /\ r.arg \in Nat
        BY <1>0, <1>1, <4>2, JobIs DEF StreamOf
      <4>4. QED
        BY <2>2, <4>1, <4>3
    <3>3. QED
      BY <2>5, <3>1, <3>2, AnswersCome
  <2>6. Seen(d, b, l) /\ LocalTyped(d, l)
    BY <1>0, <1>1, LocalIs DEF StreamOf
  <2>7. Seen(d, c, m)
    <3>1. CASE ReceiveEvents(d)
      <4>1. /\ FirstAnswer(d) \in Answers(d) /\ FirstAnswer(d) \in ReplyRecords
            /\ FirstAnswer(d).kind = "sync" /\ GoodReply(d, FirstAnswer(d))
            /\ Keep(d, TakePage(d, FirstAnswer(d).page)) /\ FirstAnswer(d).page \subseteq 1 .. Len(log)
        BY <3>1, PageAnswered
      <4>2. Whole(d, FirstAnswer(d)) /\ FirstAnswer(d).arg <= cursor[d]
        BY <1>0, <4>1 DEF PageInv, StreamOf
      <4>3. PICK k : k = TakePage(d, FirstAnswer(d).page)
        OBVIOUS
      <4>4. k = m
        <5>1. LocalTyped(d, k)
          BY <4>1, <4>3, TakePageKeeps
        <5>2. QED
          BY <1>1, <4>1, <4>3, <5>1, KeepIs DEF LocalTyped
      <4>5. Seen(d, b, l)
        BY <2>6
      <4>6. Seen(d, b, m) /\ Seen(d, LastSeq(FirstAnswer(d)), m)
        BY <1>1, <2>6, <4>1, <4>2, <4>3, <4>4, PageSeen
      <4>7. QED
        BY <2>2, <4>6
    <3>2. CASE ~ReceiveEvents(d)
      <4>1. c = b
        BY <2>2, <3>2
      <4>2. Kept(l, m) \/ (m.row.has = l.row.has /\ m.row.deleted = l.row.deleted /\ m.used = l.used)
        <5>1. CASE m = l
          BY <5>1, KeptSelf
        <5>2. CASE ReceiveOpen(d) /\ m = TakeMessage(d, l, FirstAnswer(d).arg)
          BY <2>6, <5>2, OpenAnswered, TakeMessageKeeps
        <5>3. CASE ReceivePush(d) /\ m = TakeEvent(d, l, log[Head(pushes[d])])
          BY <2>6, <5>3, PushTaken, TakeEventKeeps
        <5>4. CASE m = TakeDelete(l)
          BY <2>6, <5>4, TakeDeleteKeeps
        <5>5. CASE m = OwnEditDone(d)
          BY <1>1, <5>5, OwnEditDoneIs, LocalIs
        <5>6. QED
          BY <1>0, <1>1, <1>5, <3>2, <5>1, <5>2, <5>3, <5>4, <5>5 DEF LocalMove
      <4>3. \A i : SeenEvent(d, i, l) => SeenEvent(d, i, m)
        BY <4>2, KeptSeen DEF SeenEvent
      <4>4. QED
        BY <2>6, <4>1, <4>3 DEF Seen
    <3>3. QED
      BY <3>1, <3>2
  <2>8. QED
    BY <1>1, <1>3, <2>3, <2>4, <2>5, <2>7 DEF StreamOf
<1>6. QED
  BY <1>4, <1>5

LEMMA StreamStep ==
    ASSUME TypeInv, PageInv, StreamInv, [Next]_vars
    PROVE  StreamInv'
BY StreamSteps DEF StreamInv

LEMMA StreamInit ==
    ASSUME Init
    PROVE  StreamInv
<1>1. SUFFICES ASSUME NEW d \in Devices PROVE StreamOf(d)
  BY DEF StreamInv
<1>2. inbox[d] = <<>> /\ replies[d] = <<>> /\ job[d].kind = "none"
  BY DEF Init, NoJob
<1>3. cursor[d] = IF d \in Readers THEN 1 ELSE 2
  BY DEF Init
<1>4. log[1].kind = "other" /\ log[2].kind = "other"
  BY TypeInit DEF TypeInv, LogTyped
<1>5. \A i \in OwnEvents(d, 0, cursor[d]) : log[i].kind = "other"
  BY <1>3, <1>4 DEF OwnEvents
<1>6. Seen(d, cursor[d], Local(d))
  BY <1>5 DEF Seen, SeenEvent
<1>7. QED
  BY <1>2, <1>6 DEF StreamOf, Requests, Answers

StreamsInv == ShownInv /\ PageInv /\ StreamInv

LEMMA StreamsInvariant == Spec => []StreamsInv
<1>1. Init => StreamsInv
  BY TypeInit, FlightInit, LocalInit, PageInit, StreamInit DEF StreamsInv, ShownInv
<1>2. StreamsInv /\ [Next]_vars => StreamsInv'
  BY TypeStep, FlightStep, LocalStep, PageStep, StreamStep DEF StreamsInv, ShownInv
<1>3. QED
  BY <1>1, <1>2, PTL DEF Spec

\* A device that has read its event stream to the end has seen all of it.
LEMMA AllSeen ==
    ASSUME StreamsInv, pruned = 0, NEW d \in Devices, OwnEvents(d, cursor[d], Len(log)) = {}
    PROVE  \A i \in OwnEvents(d, 0, Len(log)) : SeenEvent(d, i, Local(d))
<1>1. cursor[d] \in Nat /\ Len(log) \in Nat /\ Seen(d, cursor[d], Local(d))
  BY Lengths DEF StreamsInv, ShownInv, TypeInv, DevicesTyped, StreamInv, StreamOf
<1>2. ASSUME NEW i \in OwnEvents(d, 0, Len(log)) PROVE i \in OwnEvents(d, 0, cursor[d])
  <2>1. i \notin OwnEvents(d, cursor[d], Len(log))
    OBVIOUS
  <2>2. QED
    BY <1>1, <2>1 DEF OwnEvents
<1>3. QED
  BY <1>1, <1>2 DEF Seen

\* A device that has read its stream to the end, and has the message, shows it as
\* deleted once another device has deleted it: whatever pushes were lost and in
\* whatever order pages, pushes and answers were taken (message_deleted in
\* ingestSyncEvents, markMessageDeleted).
THEOREM DeletionsArrive == Spec => []DeletesArrive
<1>1. StreamsInv => DeletesArrive
  BY AllSeen, LocalIs DEF StreamsInv, ShownInv, DeletesArrive, CaughtUp, SeenEvent
<1>2. QED
  BY <1>1, StreamsInvariant, PTL

\* What a device could read once it shows again after any logouts and logins, as soon
\* as it has read its stream to the end: the decryption cache outlives clearUserData,
\* and the stream brings the row back (decryptMessageObject, upsertMessage).
THEOREM ReadAgain == Spec => []ReadableAgain
<1>1. ASSUME StreamsInv, NEW d \in Devices, CaughtUp(d), pruned = 0, cache[d] # 0 \/ used[d] # {}
      PROVE  store[d].deleted \/ store[d].text # 0
  <2>1. TypeInv /\ GoodLocal(Local(d))
    BY <1>1 DEF StreamsInv, ShownInv, LocalInv
  <2>2. Local(d).row = store[d] /\ Local(d).cache = cache[d] /\ Local(d).used = used[d]
    BY <2>1, LocalIs
  <2>3. SeenEvent(d, MsgAt(d), Local(d)) /\ log[MsgAt(d)].kind = "message"
    BY <1>1, <2>1, AllSeen, MessageAt DEF CaughtUp
  <2>4. store[d].has
    BY <2>2, <2>3 DEF SeenEvent
  <2>5. QED
    BY <1>1, <2>1, <2>2, <2>4 DEF GoodLocal
<1>2. StreamsInv => ReadableAgain
  BY <1>1 DEF ReadableAgain
<1>3. QED
  BY <1>2, StreamsInvariant, PTL

-----------------------------------------------------------------------------
(***************************************************************************)
(* What the device that made the row's envelope knows of its edit.         *)
(***************************************************************************)
\* An answer joins those on their way.
LEMMA Joined ==
    ASSUME TypeInv, NEW d \in Devices, NEW x, Respond(d, x)
    PROVE  /\ \A c \in Devices : \A r \in Answers(c) : r \in Answers(c)'
           /\ d \in online => x \in Answers(d)'
<1>1. replies \in [Devices -> Seq(ReplyRecords)]
  BY DEF TypeInv, QueuesTyped
<1>2. CASE d \notin online
  BY <1>2 DEF Respond, Answers
<1>3. CASE d \in online
  <2>1. PICK S, p : S = ReplyRecords \cup {x} /\ p = Append(replies[d], x)
    OBVIOUS
  <2>2. replies[d] \in Seq(S) /\ x \in S
    BY <1>1, <2>1
  <2>3. /\ Len(p) = Len(replies[d]) + 1 /\ Len(replies[d]) \in Nat
        /\ p[Len(replies[d]) + 1] = x /\ \A i \in 1 .. Len(replies[d]) : p[i] = replies[d][i]
    BY <2>1, <2>2, Appended
  <2>4. replies' = [replies EXCEPT ![d] = p]
    BY <1>3, <2>1 DEF Respond
  <2>5. replies'[d] = p /\ \A c \in Devices : c # d => replies'[c] = replies[c]
    BY <1>1, <2>4
  <2>6. x \in Answers(d)' /\ \A r \in Answers(d) : r \in Answers(d)'
    BY <2>3, <2>5 DEF Answers
  <2>7. QED
    BY <2>5, <2>6 DEF Answers
<1>4. QED
  BY <1>2, <1>3

\* The answer to an edit stays on its way until its device receives it.
LEMMA AnswersStay ==
    ASSUME TypeInv, [Next]_vars, NEW d \in Devices, NEW r \in Answers(d), d \in online'
    PROVE  r \in Answers(d)' \/ (r = FirstAnswer(d) /\ (r.kind = "edit" => ReceiveEdit(d)))
<1> DEFINE P == r \in Answers(d)' \/ (r = FirstAnswer(d) /\ (r.kind = "edit" => ReceiveEdit(d)))
<1> SUFFICES P
  OBVIOUS
<1>0. replies \in [Devices -> Seq(ReplyRecords)]
  BY DEF TypeInv, QueuesTyped
<1> HIDE DEF P
<1>1. ASSUME replies'[d] = replies[d] PROVE P
  BY <1>1 DEF P, Answers
<1>2. ASSUME NEW c \in Devices, NEW x, Respond(c, x) PROVE P
  BY <1>2, Joined DEF P
<1>3. ASSUME NEW kind, Answer(d, kind) PROVE r \in Answers(d)' \/ r = FirstAnswer(d)
  <2>1. PICK i \in 1 .. Len(replies[d]) : r = replies[d][i]
    BY DEF Answers
  <2>2. /\ Len(replies[d]) \in Nat /\ Len(replies'[d]) = Len(replies[d]) - 1
        /\ \A j \in 1 .. Len(replies'[d]) : replies'[d][j] = replies[d][j + 1]
        /\ Head(replies[d]) = replies[d][1]
    BY <1>3, Answered
  <2>3. CASE i = 1
    BY <2>1, <2>2, <2>3 DEF FirstAnswer
  <2>4. CASE i # 1
    <3>1. i - 1 \in 1 .. Len(replies'[d]) /\ (i - 1) + 1 = i
      BY <2>2, <2>4
    <3>2. replies'[d][i - 1] = r
      BY <2>1, <2>2, <3>1
    <3>3. QED
      BY <3>1, <3>2 DEF Answers
  <2>5. QED
    BY <2>3, <2>4
<1>4. ASSUME NEW kind \in {"edit", "delete", "sync", "full", "open"}, NEW c \in Devices,
             Answer(c, kind), c = d /\ kind = "edit" => ReceiveEdit(d)
      PROVE  P
  <2>1. CASE c # d
    BY <1>1, <1>4, <2>1, Answered
  <2>2. CASE c = d
    <3>1. r = FirstAnswer(d) => r.kind = kind
      BY <1>4, <2>2, Answered DEF FirstAnswer
    <3>2. QED
      BY <1>3, <1>4, <2>2, <3>1 DEF P
  <2>3. QED
    BY <2>1, <2>2
<1>5. ASSUME NEW D, Drop(D) PROVE P
  <2>1. d \notin D
    BY <1>5 DEF Drop
  <2>2. QED
    BY <1>1, <1>5, <2>1 DEF Drop
<1>6. CASE UNCHANGED vars
  BY <1>1, <1>6 DEF vars, netVars
<1>7. ASSUME NEW c \in Devices,
             \/ Login(c) \/ EditMessage(c) \/ FlushOutbox(c) \/ DeleteMessage(c)
             \/ OpenConversation(c) \/ HandleDelete(c) \/ FetchKeys(c) \/ ReceivePush(c)
      PROVE  P
  BY <1>1, <1>7 DEF Login, EditMessage, FlushOutbox, DeleteMessage, OpenConversation,
     HandleDelete, FetchKeys, ReceivePush
<1>8. ASSUME NEW c \in Devices,
             \/ HandleEdit(c) \/ HandleOpen(c) \/ HandleSync(c) \/ ReadEvents(c)
             \/ \E u \in Users : Announce(c, u)
      PROVE  P
  <2>1. replies' = replies \/ \E x : Respond(c, x)
    BY Zenon, <1>8 DEF HandleEdit, HandleOpen, HandleSync, ReadEvents, Announce
  <2>2. QED
    BY <1>1, <1>2, <2>1
<1>9. ASSUME NEW c \in Devices, ReceiveEdit(c) PROVE P
  BY <1>4, <1>9 DEF ReceiveEdit
<1>10. ASSUME NEW c \in Devices,
              ReceiveDelete(c) \/ ReceiveEvents(c) \/ ReceiveFull(c) \/ ReceiveOpen(c)
       PROVE  P
  <2>1. \E kind \in {"delete", "sync", "full", "open"} : Answer(c, kind)
    BY <1>10 DEF ReceiveDelete, ReceiveEvents, ReceiveFull, ReceiveOpen
  <2>2. QED
    BY <1>4, <2>1
<1>11. ASSUME NEW c \in Devices, Disconnect(c) \/ Logout(c) PROVE P
  BY <1>5, <1>11 DEF Disconnect, Logout
<1>12. CASE PruneDelete \/ PruneMark
  BY <1>1, <1>12 DEF PruneDelete, PruneMark, netVars
<1>13. CASE ServerCrash
  BY <1>5, <1>13 DEF ServerCrash
<1>14. QED
  BY <1>6, <1>7, <1>8, <1>9, <1>10, <1>11, <1>12, <1>13 DEF Next

LEMMA UnansweredIs ==
    ASSUME TypeInv, NEW d \in Devices
    PROVE  /\ Unanswered(d) <=> job[d].kind = "edit" \/ \E r \in Answers(d) : r.kind = "edit" /\ r.ok
           /\ TypeInv' => (Unanswered(d)' <=> \/ job'[d].kind = "edit"
                                              \/ \E r \in Answers(d)' : r.kind = "edit" /\ r.ok)
BY DEF Unanswered, Answers, TypeInv, QueuesTyped

\* A change becomes known to be done when its answer is received, or never if the
\* connection is lost; it comes to be in the row when the edit is handled.
LEMMA UnansweredMoves ==
    ASSUME TypeInv, FlightInv, [Next]_vars, NEW d \in Devices
    PROVE  /\ Unanswered(d)' => Unanswered(d) \/ EditStarts(d)
           /\ Unanswered(d) /\ ~Unanswered(d)'
                => (ReceiveEdit(d) /\ FirstAnswer(d).ok) \/ "unanswered" \in slips'[d]
<1>0. TypeInv' /\ Grows /\ JobMove(d) /\ InFlight(d) /\ EditWaits(d)
  BY TypeStep, StepGrows, JobsMove DEF FlightInv
<1>1. ASSUME Unanswered(d)' PROVE Unanswered(d) \/ EditStarts(d)
  <2>1. CASE job'[d].kind = "edit"
    BY <1>0, <2>1, UnansweredIs DEF JobMove, DeleteStarts, SyncStarts, AnnounceGoesOn, JobEnds,
       IsJob, NoJob
  <2>2. ASSUME NEW r \in Answers(d)', r.kind = "edit", r.ok PROVE Unanswered(d)
    <3>1. r \in Answers(d) \/ NewReply(d, r)
      BY <2>2, AnswersCome
    <3>2. NewReply(d, r) => job[d].kind = "edit"
      BY <2>2 DEF NewReply
    <3>3. QED
      BY <2>2, <3>1, <3>2, UnansweredIs
  <2>3. QED
    BY <1>0, <1>1, <2>1, <2>2, UnansweredIs
<1>2. ASSUME Unanswered(d), ~Unanswered(d)'
      PROVE  (ReceiveEdit(d) /\ FirstAnswer(d).ok) \/ "unanswered" \in slips'[d]
  <2>1. CASE Disconnect(d)
    <3>1. SlipAt({d}, "unanswered")
      BY <1>2, <2>1 DEF Disconnect
    <3>2. QED
      BY <3>1, SlipsAdded, SlipNames
  <2>2. CASE ServerCrash
    BY <1>2, <2>2 DEF ServerCrash
  <2>3. CASE Logout(d)
    BY <1>2, <2>3 DEF Logout, Unanswered
  <2>4. CASE job[d].kind = "edit" /\ ~ServerCrash
    <3>1. JobEnds(d)
      <4>1. job'[d].kind # "edit"
        BY <1>0, <1>2, UnansweredIs
      <4>2. ~EditStarts(d) /\ ~DeleteStarts(d) /\ ~SyncStarts(d)
        BY <2>4, HandlingIs DEF EditStarts, DeleteStarts, SyncStarts, HandleEdit, HandleDelete, HandleSync
      <4>3. QED
        BY <1>0, <2>4, <4>1, <4>2 DEF JobMove, AnnounceGoesOn, IsJob
    <3>2. PICK u \in Users : Announce(d, u) /\ job[d].todo = {u}
      BY <2>4, <3>1 DEF JobEnds, ReadEvents
    <3>3. Respond(d, Reply(job[d].kind, job[d].arg, TRUE, {}))
      BY Zenon, <3>2 DEF Announce
    <3>4. CASE d \in online
      <4>1. PICK r : r = Reply(job[d].kind, job[d].arg, TRUE, {})
        OBVIOUS
      <4>2. r \in Answers(d)'
        BY <3>3, <3>4, <4>1, Joined
      <4>3. r.kind = "edit" /\ r.ok
        BY <2>4, <4>1 DEF Reply
      <4>4. QED
        BY <1>0, <1>2, <4>2, <4>3, UnansweredIs
    <3>5. CASE d \notin online
      BY <1>0, <2>4, <3>5 DEF EditWaits, Grows
    <3>6. QED
      BY <3>4, <3>5
  <2>5. ASSUME NEW r \in Answers(d), r.kind = "edit", r.ok, d \in online'
        PROVE  ReceiveEdit(d) /\ FirstAnswer(d).ok
    BY <1>0, <1>2, <2>5, AnswersStay, UnansweredIs
  <2>6. ASSUME NEW r \in Answers(d), d \notin online' PROVE Disconnect(d) \/ ServerCrash \/ Logout(d)
    BY <2>6, AnswerIn, OnlineMoves
  <2>7. QED
    BY <1>2, <2>1, <2>2, <2>3, <2>4, <2>5, <2>6, UnansweredIs
<1>3. QED
  BY <1>1, <1>2

\* An author's device keeps the text it has, whatever events it takes.
LEMMA AuthorKeeps ==
    ASSUME TypeInv, NEW d \in Authors, NEW l, LocalTyped(d, l), l.cache # 0,
           NEW i \in 1 .. Len(log), NEW m, m = TakeEvent(d, l, log[i])
    PROVE  m.cache = l.cache
<1>1. d \in Devices /\ d \notin Readers /\ log[i].env \in 0 .. Len(made) /\ GoodEvent(i) /\ 1 \in 0 .. Len(made)
  BY EventIs, EditNumbers, Lengths DEF TypeInv, ServerTyped
<1>2. ASSUME m = TakeMessage(d, l, 1) PROVE m.cache = l.cache
  BY <1>1, <1>2, TakeMessageIs
<1>3. ASSUME log[i].kind = "edit", log[i].by # d, m = TakeEdit(d, l, log[i].env) PROVE m.cache = l.cache
  <2>1. ~Opens(d, l, log[i].env)
    BY <1>1, <1>3 DEF Opens, GoodEvent, GoodEdit
  <2>2. QED
    BY <1>1, <1>3, <2>1, TakeEditIs
<1>4. ASSUME m = TakeDelete(l) PROVE m.cache = l.cache
  <2>1. l \in LocalRecords
    BY DEF LocalTyped
  <2>2. QED
    BY <1>4, <2>1, TakeDeleteIs
<1>5. \/ m = l \/ m = TakeMessage(d, l, 1)
      \/ log[i].kind = "edit" /\ log[i].by # d /\ m = TakeEdit(d, l, log[i].env)
      \/ m = TakeDelete(l)
  BY <1>1, TakeEventIs
<1>6. QED
  BY <1>2, <1>3, <1>4, <1>5

LEMMA AuthorKeepsPage ==
    ASSUME TypeInv, NEW d \in Authors, cache[d] # 0, NEW page, page \subseteq 1 .. Len(log),
           NEW m, m = TakePage(d, page)
    PROVE  m.cache = cache[d]
<1>0. d \in Devices
  BY EditNumbers
<1>1. PICK G : G = {l \in LocalRecords : LocalTyped(d, l) /\ l.cache = cache[d]}
  OBVIOUS
<1>2. Local(d) \in G
  BY <1>0, <1>1, LocalIs
<1>3. ASSUME NEW i \in page, NEW l \in G PROVE TakeEvent(d, l, log[i]) \in G
  <2>1. PICK k : k = TakeEvent(d, l, log[i])
    OBVIOUS
  <2>2. LocalTyped(d, k)
    BY <1>0, <1>1, <1>3, <2>1, TakeEventKeeps
  <2>3. k.cache = cache[d]
    BY <1>1, <1>3, <2>1, AuthorKeeps
  <2>4. QED
    BY <1>1, <2>1, <2>2, <2>3 DEF LocalTyped
<1>4. m \in G
  BY <1>0, <1>2, <1>3, PageFold
<1>5. QED
  BY <1>1, <1>4

LEMMA EditStartsIs ==
    ASSUME TypeInv, NEW c \in Devices, HandleEdit(c), ~row.deleted
    PROVE  /\ EditStarts(c) /\ row'.env = FirstRequest(c).arg /\ ~row'.deleted
           /\ GoodEdit(FirstRequest(c).arg, c) /\ OnItsWay(c, FirstRequest(c).arg)
           /\ job'[c].kind = "edit" /\ edit' = edit /\ made' = made
<1>1. /\ Handling(c, "edit") /\ row' = [row EXCEPT !.env = Head(inbox[c]).arg]
      /\ StartJob(c, "edit", Head(inbox[c]).arg, Users) /\ edit' = edit /\ made' = made
  BY DEF HandleEdit, uiVars
<1>2. /\ FirstRequest(c).arg \in Nat /\ row \in [env : Nat, deleted : BOOLEAN]
      /\ FirstRequest(c) \in Requests(c) /\ FirstRequest(c).kind = "edit" /\ GoodRequest(c, FirstRequest(c))
  BY <1>1, HandlingIs DEF TypeInv, ServerTyped
<1>3. row'.env = FirstRequest(c).arg /\ ~row'.deleted
  BY <1>1, <1>2 DEF FirstRequest
<1>4. IsJob(job'[c], "edit", FirstRequest(c).arg, Users)
  BY <1>1, <1>2, StartJobIs DEF FirstRequest
<1>5. QED
  BY <1>1, <1>2, <1>3, <1>4 DEF EditStarts, GoodRequest, OnItsWay, IsJob

\* How the row changes: an edit or a deletion is handled.
LEMMA RowMoves ==
    ASSUME TypeInv, [Next]_vars
    PROVE  \/ row' = row
           \/ row'.deleted /\ row'.env = 0
           \/ \E c \in Devices : /\ EditStarts(c) /\ row'.env = FirstRequest(c).arg
                                 /\ ~row'.deleted
<1> DEFINE P == \/ row' = row
                \/ row'.deleted /\ row'.env = 0
                \/ \E c \in Devices : /\ EditStarts(c) /\ row'.env = FirstRequest(c).arg
                                      /\ ~row'.deleted
<1> SUFFICES P
  OBVIOUS
<1> HIDE DEF P
<1>1. ASSUME row' = row PROVE P
  BY <1>1 DEF P
<1>2. ASSUME NEW d \in Devices,
             \/ Login(d) \/ EditMessage(d) \/ FlushOutbox(d) \/ DeleteMessage(d)
             \/ OpenConversation(d) \/ HandleOpen(d)
             \/ HandleSync(d) \/ ReadEvents(d) \/ (\E u \in Users : Announce(d, u)) \/ FetchKeys(d)
             \/ ReceiveEdit(d) \/ ReceiveDelete(d) \/ ReceiveEvents(d) \/ ReceiveFull(d)
             \/ ReceiveOpen(d) \/ ReceivePush(d) \/ Disconnect(d) \/ Logout(d)
      PROVE  P
  <2>1. row' = row
    BY Zenon, <1>2 DEF Login, EditMessage, FlushOutbox, DeleteMessage, OpenConversation,
       HandleOpen, HandleSync, ReadEvents, Announce, FetchKeys,
       ReceiveEdit, ReceiveDelete, ReceiveEvents, ReceiveFull, ReceiveOpen, ReceivePush,
       Disconnect, Logout, serverVars
  <2>2. QED
    BY <1>1, <2>1
<1>3. PruneDelete \/ PruneMark \/ ServerCrash \/ UNCHANGED vars => P
  BY <1>1 DEF PruneDelete, PruneMark, ServerCrash, vars, serverVars
<1>4. ASSUME NEW d \in Devices, HandleDelete(d) PROVE P
  BY <1>4 DEF HandleDelete, P
<1>5. ASSUME NEW d \in Devices, HandleEdit(d) PROVE P
  <2>1. CASE row.deleted
    BY <1>1, <1>5, <2>1 DEF HandleEdit
  <2>2. CASE ~row.deleted
    BY <1>5, <2>2, EditStartsIs DEF P
  <2>3. QED
    BY <2>1, <2>2
<1>6. QED
  BY <1>2, <1>3, <1>4, <1>5 DEF Next

OwnCache(d) ==
    d \in Authors /\ ~row.deleted /\ made[row.env].by = d /\ slips[d] \cap {"unanswered", "overlapped"} = {}
    => /\ Unanswered(d) => edit[d] = made[row.env].text
       /\ ~Unanswered(d) => cache[d] = made[row.env].text

OwnCacheInv == \A d \in Devices : OwnCache(d)

LEMMA OwnCacheStep ==
    ASSUME TypeInv, FlightInv, OwnCacheInv, [Next]_vars
    PROVE  OwnCacheInv'
<1>1. SUFFICES ASSUME NEW d \in Devices, d \in Authors, ~row'.deleted, made'[row'.env].by = d,
                      slips'[d] \cap {"unanswered", "overlapped"} = {}
               PROVE  /\ Unanswered(d)' => edit'[d] = made'[row'.env].text
                      /\ ~Unanswered(d)' => cache'[d] = made'[row'.env].text
  BY DEF OwnCacheInv, OwnCache
<1>2. /\ Grows /\ TypeInv' /\ EditMove(d) /\ LocalMove(d) /\ OwnCache(d) /\ slips[d] \subseteq slips'[d]
      /\ InFlight(d) /\ EditWaits(d) /\ "unanswered" \notin slips'[d] /\ "overlapped" \notin slips'[d]
  BY <1>1, StepGrows, TypeStep, EditsMove, LocalsMove DEF OwnCacheInv, FlightInv, Grows
<1>3. CASE EditStarts(d)
  <2>1. /\ row'.env = FirstRequest(d).arg /\ GoodEdit(FirstRequest(d).arg, d)
        /\ OnItsWay(d, FirstRequest(d).arg) /\ job'[d].kind = "edit" /\ edit' = edit /\ made' = made
    BY <1>3, EditStartsIs DEF EditStarts
  <2>2. Waits(d, FirstRequest(d).arg)
    BY <1>2, <2>1 DEF EditWaits
  <2>3. edit[d] = made[FirstRequest(d).arg].text
    BY <1>2, <2>2 DEF Waits
  <2>4. Unanswered(d)'
    BY <2>1 DEF Unanswered
  <2>5. QED
    BY <2>1, <2>3, <2>4
<1>4. CASE row' = row /\ ~EditStarts(d)
  <2>1. /\ row.env \in 1 .. Len(made) /\ made'[row.env] = made[row.env]
        /\ made[row.env].text \in Nat \ {0}
    <3>1. row.env \in 1 .. Len(made)
      BY <1>1, <1>4, Lengths DEF TypeInv, ServerTyped
    <3>2. made[row.env].text \in Nat \ {0}
      BY <3>1, Lengths DEF TypeInv, ServerTyped
    <3>3. QED
      BY <1>2, <3>1, <3>2 DEF Grows
  <2>2. /\ Unanswered(d) => edit[d] = made[row.env].text
        /\ ~Unanswered(d) => cache[d] = made[row.env].text
    BY <1>1, <1>2, <1>4, <2>1 DEF OwnCache
  <2>3. d \in online \/ ~Unanswered(d)
    <3>1. job[d].kind = "edit" => d \in online
      BY <1>2 DEF EditWaits
    <3>2. QED
      BY <3>1, AnswerIn, UnansweredIs
  <2>4. ASSUME Unanswered(d)' PROVE edit'[d] = edit[d]
    <3>1. Unanswered(d)
      BY <1>4, <2>4, UnansweredMoves
    <3>2. CASE EditMessage(d)
      <4>1. SlipAt({d}, "overlapped")
        BY <2>1, <2>2, <3>1, <3>2 DEF EditMessage
      <4>2. QED
        BY <1>2, <4>1, SlipsAdded, SlipNames
    <3>3. CASE FetchKeys(d)
      <4>1. replies[d] = <<>> /\ job[d].kind = "none"
        BY <3>3 DEF FetchKeys
      <4>2. QED
        BY <3>1, <4>1, UnansweredIs DEF Answers
    <3>4. CASE ReceiveEdit(d)
      <4>1. Answer(d, "edit") /\ job' = job
        BY <3>4 DEF ReceiveEdit, serverVars
      <4>2. EditAnswered(d) /\ ~EditAnswered(d)'
        BY <1>2, <4>1, AnsweredFlight DEF InFlight
      <4>3. job'[d].kind # "edit"
        BY <1>2, <4>1, <4>2 DEF InFlight
      <4>4. QED
        BY <1>2, <2>4, <4>2, <4>3, UnansweredIs DEF EditAnswered
    <3>5. CASE d \notin online'
      <4>1. inbox'[d] = <<>> /\ replies'[d] = <<>>
        BY <1>2, <3>5 DEF TypeInv, NetTyped
      <4>2. job'[d].kind = "edit"
        BY <1>2, <2>4, <4>1, UnansweredIs DEF Answers
      <4>3. EditWaits(d)'
        BY EditWaitsStep
      <4>4. QED
        BY <1>2, <3>5, <4>2, <4>3 DEF EditWaits
    <3>6. QED
      BY <1>2, <3>2, <3>3, <3>4, <3>5 DEF EditMove
  <2>5. ASSUME Unanswered(d), ~Unanswered(d)' PROVE cache'[d] = edit[d]
    <3>1. ReceiveEdit(d) /\ FirstAnswer(d).ok
      BY <1>2, <2>5, UnansweredMoves
    <3>2. Keep(d, OwnEditDone(d))
      BY <3>1 DEF ReceiveEdit, FirstAnswer
    <3>3. PICK m : m = OwnEditDone(d)
      OBVIOUS
    <3>4. m \in LocalRecords /\ m.cache = edit[d]
      BY <3>3, OwnEditDoneIs
    <3>5. QED
      BY <3>2, <3>3, <3>4 DEF Keep, TypeInv, DevicesTyped
  <2>6. ASSUME ~Unanswered(d), ~Unanswered(d)' PROVE cache'[d] = cache[d]
    <3>1. PICK l, m : l = Local(d) /\ m = Local(d)'
      OBVIOUS
    <3>2. LocalTyped(d, l) /\ l.cache = cache[d] /\ m.cache = cache'[d] /\ cache[d] # 0 /\ l.cache # 0
      BY <2>1, <2>2, <2>6, <3>1, LocalIs DEF Local
    <3>3. CASE m = l
      BY <3>2, <3>3
    <3>4. CASE ReceiveOpen(d) /\ m = TakeMessage(d, l, FirstAnswer(d).arg)
      BY <3>2, <3>4, OpenAnswered, TakeMessageIs
    <3>5. CASE ReceivePush(d) /\ m = TakeEvent(d, l, log[Head(pushes[d])])
      BY <1>1, <3>2, <3>5, PushTaken, AuthorKeeps
    <3>6. CASE ReceiveEvents(d) /\ m = TakePage(d, FirstAnswer(d).page)
      BY <1>1, <3>2, <3>6, PageAnswered, AuthorKeepsPage
    <3>7. CASE m = TakeDelete(l)
      BY <3>2, <3>7, TakeDeleteIs DEF LocalTyped
    <3>8. CASE ReceiveEdit(d) /\ FirstAnswer(d).ok
      <4>1. FirstAnswer(d) \in Answers(d) /\ FirstAnswer(d).kind = "edit"
        BY <3>8, Answered DEF ReceiveEdit, FirstAnswer
      <4>2. QED
        BY <2>6, <3>8, <4>1, UnansweredIs
    <3>9. CASE m = Cleared(d)
      BY <3>2, <3>9, ClearedIs
    <3>10. QED
      BY <1>2, <3>1, <3>3, <3>4, <3>5, <3>6, <3>7, <3>8, <3>9 DEF LocalMove
  <2>7. Unanswered(d)' => Unanswered(d)
    BY <1>4, UnansweredMoves
  <2>8. QED
    BY <1>4, <2>1, <2>2, <2>4, <2>5, <2>6, <2>7
<1>5. ASSUME NEW c \in Devices, EditStarts(c), row'.env = FirstRequest(c).arg PROVE c = d
  <2>1. GoodEdit(FirstRequest(c).arg, c) /\ made' = made
    BY <1>5, EditStartsIs DEF EditStarts
  <2>2. QED
    BY <1>1, <1>5, <2>1 DEF GoodEdit
<1>6. QED
  BY <1>1, <1>3, <1>4, <1>5, RowMoves

LEMMA OwnCacheInit ==
    ASSUME Init
    PROVE  OwnCacheInv
<1>1. SUFFICES ASSUME NEW d \in Devices, made[row.env].by = d
               PROVE  ~Unanswered(d) /\ cache[d] = made[row.env].text
  BY DEF OwnCacheInv, OwnCache
<1>2. PICK v : v = [text |-> 1, by |-> Origin]
  OBVIOUS
<1>3. v.text = 1 /\ v.by = Origin /\ made = <<v>>
  BY <1>2 DEF Init
<1>4. row.env = 1
  BY DEF Init
<1>5. made[row.env] = v
  BY <1>3, <1>4
<1>6. cache[d] = 1
  BY <1>1, <1>3, <1>5 DEF Init
<1>7. ~Unanswered(d)
  BY DEF Init, Unanswered, NoJob
<1>8. QED
  BY <1>3, <1>5, <1>6, <1>7

OwnEditsInv == ShownInv /\ OwnCacheInv

\* The device whose edit the server holds shows it when nothing is on the way, unless
\* the answer was lost or it began another edit before the first was answered: the
\* text that waits is the text that was sent (handleEditMessageResponse stores the
\* waiting text, whatever the response says; decryptEditContent passes its own edits
\* by).
THEOREM OwnEditsShown == Spec => []OwnEditShown
<1>1. Init => OwnEditsInv
  BY TypeInit, FlightInit, LocalInit, OwnCacheInit DEF OwnEditsInv, ShownInv
<1>2. OwnEditsInv /\ [Next]_vars => OwnEditsInv'
  BY TypeStep, FlightStep, LocalStep, OwnCacheStep DEF OwnEditsInv, ShownInv
<1>3. OwnEditsInv => OwnEditShown
  <2>1. SUFFICES ASSUME OwnEditsInv, NEW d \in Authors, Quiet(d), ~row.deleted, made[row.env].by = d,
                        slips[d] \cap {"unanswered", "overlapped", "raced"} = {}
                 PROVE  store[d].text \in {0, made[row.env].text}
    BY DEF OwnEditShown
  <2>2. TypeInv /\ d \in Devices /\ GoodLocal(Local(d)) /\ OwnCache(d)
    BY <2>1, EditNumbers DEF OwnEditsInv, ShownInv, LocalInv, OwnCacheInv
  <2>3. ~Unanswered(d)
    BY <2>1, <2>2 DEF Quiet, Unanswered
  <2>4. cache[d] = made[row.env].text
    BY <2>1, <2>2, <2>3 DEF OwnCache
  <2>5. QED
    BY <2>2, <2>4, LocalIs DEF GoodLocal
<1>4. QED
  BY <1>1, <1>2, <1>3, PTL DEF Spec

-----------------------------------------------------------------------------
(***************************************************************************)
(* While the message is not deleted: no trace of a deletion anywhere, and  *)
(* a reader that has the message can read it.                              *)
(***************************************************************************)
Plain(d, l) ==
    /\ LocalTyped(d, l) /\ GoodLocal(l) /\ ~l.row.deleted
    /\ d \in Readers /\ l.row.has => l.row.text # 0

\* What a reader has not opened it opens.
LEMMA ReaderOpens ==
    ASSUME TypeInv, NEW d \in Readers, NEW l, NEW e \in 1 .. Len(made)
    PROVE  Opens(d, l, e) <=> e \notin l.used
<1>1. made[e].by \in Authors /\ d \notin Authors
  <2>1. made \in Seq(MadeRecords) /\ d \in Devices
    BY EditNumbers DEF TypeInv, ServerTyped
  <2>2. made[e] \in MadeRecords
    BY <2>1
  <2>3. QED
    BY <2>1, <2>2, EditNumbers DEF MadeRecords
<1>2. e # 0
  BY Lengths
<1>3. QED
  BY <1>1, <1>2 DEF Opens

LEMMA MessagePlain ==
    ASSUME TypeInv, NEW d \in Devices, NEW l, Plain(d, l), NEW e \in 1 .. Len(made),
           NEW m, m = TakeMessage(d, l, e)
    PROVE  Plain(d, m)
<1>1. e \in 0 .. Len(made) /\ LocalTyped(d, l) /\ GoodLocal(l)
  BY Lengths DEF Plain
<1>2. LocalTyped(d, m) /\ GoodLocal(m) /\ m.row.deleted = l.row.deleted
  BY <1>1, TakeMessageKeeps, TakeMessageIs
<1>3. ASSUME d \in Readers PROVE m.row.text # 0
  <2>1. CASE l.cache # 0
    BY <1>1, <2>1, TakeMessageIs
  <2>2. CASE l.cache = 0
    <3>1. Opens(d, l, e)
      BY <1>1, <1>3, <2>2, ReaderOpens DEF GoodLocal
    <3>2. QED
      BY <1>1, <2>2, <3>1, TakeMessageIs
  <2>3. QED
    BY <2>1, <2>2
<1>4. QED
  BY <1>2, <1>3 DEF Plain

LEMMA EventPlain ==
    ASSUME TypeInv, NEW d \in Devices, NEW l, Plain(d, l), NEW i \in 1 .. Len(log),
           log[i].kind # "delete", NEW m, m = TakeEvent(d, l, log[i])
    PROVE  Plain(d, m)
<1>1. /\ LocalTyped(d, l) /\ GoodLocal(l) /\ LocalTyped(d, m) /\ GoodLocal(m)
      /\ log[i].env \in 0 .. Len(made) /\ 1 \in 1 .. Len(made)
  BY EventIs, TakeEventKeeps, Lengths DEF Plain, TypeInv, ServerTyped
<1>2. CASE m = l
  BY <1>2
<1>3. CASE m = TakeMessage(d, l, 1)
  BY <1>1, <1>3, MessagePlain
<1>4. CASE m = TakeEdit(d, l, log[i].env)
  BY <1>1, <1>4, TakeEditIs DEF Plain
<1>5. QED
  BY <1>2, <1>3, <1>4, TakeEventIs

Undeleted(d) ==
    /\ job[d].kind # "delete"
    /\ \A r \in Answers(d) : r.kind # "delete" /\ (r.kind = "open" => r.arg # 0)
    /\ Plain(d, Local(d))

DeleteInv ==
    ~row.deleted => /\ \A i \in 1 .. Len(log) : log[i].kind # "delete"
                    /\ \A d \in Devices : Undeleted(d)

LEMMA PlainStep ==
    ASSUME ShownInv, DeleteInv, [Next]_vars, ~row.deleted, NEW d \in Devices
    PROVE  Plain(d, Local(d)')
<1>1. PICK l, m : l = Local(d) /\ m = Local(d)'
  OBVIOUS
<1> SUFFICES Plain(d, m)
  BY <1>1
<1>2. /\ TypeInv /\ LocalMove(d) /\ Plain(d, l) /\ LocalTyped(d, l) /\ LocalTyped(d, m)
      /\ \A r \in Answers(d) : r.kind # "delete" /\ (r.kind = "open" => r.arg # 0)
      /\ \A i \in 1 .. Len(log) : log[i].kind # "delete"
  BY <1>1, LocalsMove DEF ShownInv, DeleteInv, Undeleted, Plain
<1>3. CASE m = l
  BY <1>2, <1>3
<1>4. CASE ReceiveOpen(d) /\ m = TakeMessage(d, l, FirstAnswer(d).arg)
  <2>1. FirstAnswer(d).arg \in 1 .. Len(made)
    <3>1. FirstAnswer(d) \in Answers(d) /\ FirstAnswer(d).kind = "open" /\ FirstAnswer(d).arg \in 0 .. Len(made)
      BY <1>2, <1>4, OpenAnswered
    <3>2. QED
      BY <1>2, <3>1, Lengths
  <2>2. QED
    BY <1>2, <1>4, <2>1, MessagePlain
<1>5. CASE ReceivePush(d) /\ m = TakeEvent(d, l, log[Head(pushes[d])])
  BY <1>2, <1>5, PushTaken, EventPlain
<1>6. CASE ReceiveEvents(d) /\ m = TakePage(d, FirstAnswer(d).page)
  <2>1. PICK G : G = {x \in LocalRecords : Plain(d, x)}
    OBVIOUS
  <2>2. l \in G
    BY <1>2, <2>1 DEF LocalTyped
  <2>3. FirstAnswer(d).page \subseteq 1 .. Len(log)
    BY <1>2, <1>6, PageAnswered
  <2>4. ASSUME NEW i \in FirstAnswer(d).page, NEW x \in G PROVE TakeEvent(d, x, log[i]) \in G
    <3>1. PICK y : y = TakeEvent(d, x, log[i])
      OBVIOUS
    <3>2. Plain(d, y)
      BY <1>2, <2>1, <2>3, <2>4, <3>1, EventPlain
    <3>3. QED
      BY <2>1, <3>1, <3>2 DEF Plain, LocalTyped
  <2>5. m \in G
    BY <1>1, <1>2, <1>6, <2>2, <2>3, <2>4, PageFold
  <2>6. QED
    BY <2>1, <2>5
<1>7. CASE ReceiveDelete(d)
  BY <1>2, <1>7, Answered DEF ReceiveDelete
<1>8. CASE ReceiveEdit(d) /\ m = OwnEditDone(d)
  <2>1. FirstAnswer(d) \in Answers(d) /\ FirstAnswer(d).kind = "edit" /\ GoodReply(d, FirstAnswer(d))
    BY <1>2, <1>8, Answered DEF ReceiveEdit, FirstAnswer
  <2>2. d \notin Readers
    BY <2>1, EditNumbers DEF GoodReply, GoodEdit
  <2>3. GoodLocal(m)
    BY <1>1, LocalStep DEF ShownInv, LocalInv, GoodLocal
  <2>4. m.row.deleted = l.row.deleted
    BY <1>1, <1>2, <1>8, OwnEditDoneIs, LocalIs
  <2>5. QED
    BY <1>2, <2>2, <2>3, <2>4 DEF Plain
<1>9. CASE m = Cleared(d)
  <2>1. m.row = NoRow /\ m.cache = l.cache /\ m.used = l.used
    BY <1>1, <1>2, <1>9, ClearedIs, LocalIs
  <2>2. QED
    BY <1>2, <2>1 DEF Plain, GoodLocal, NoRow
<1>10. QED
  BY <1>1, <1>2, <1>3, <1>4, <1>5, <1>6, <1>7, <1>8, <1>9 DEF LocalMove

LEMMA DeleteStep ==
    ASSUME ShownInv, DeleteInv, [Next]_vars
    PROVE  DeleteInv'
<1>1. SUFFICES ASSUME ~row'.deleted
               PROVE  /\ \A i \in 1 .. Len(log') : log'[i].kind # "delete"
                      /\ \A d \in Devices : Undeleted(d)'
  BY DEF DeleteInv
<1>2. /\ TypeInv /\ Grows /\ TypeInv' /\ ~row.deleted /\ \A i \in 1 .. Len(log) : log[i].kind # "delete"
      /\ \A d \in Devices : Undeleted(d) /\ JobMove(d)
  BY <1>1, StepGrows, TypeStep, JobsMove DEF ShownInv, DeleteInv, Grows
<1>3. ASSUME NEW i \in 1 .. Len(log') PROVE log'[i].kind # "delete"
  <2>1. CASE log' = log
    BY <1>2, <1>3, <2>1
  <2>2. ASSUME NEW c \in Devices, NEW u \in Users, Announce(c, u) PROVE log'[i].kind # "delete"
    <3>1. /\ NewEvent(c, u).kind = job[c].kind /\ Len(log') = Len(log) + 1 /\ Len(log) \in Nat
          /\ log'[Len(log) + 1] = NewEvent(c, u) /\ \A j \in 1 .. Len(log) : log'[j] = log[j]
      BY <1>2, <2>2, AnnounceLogs, Lengths
    <3>2. job[c].kind # "delete"
      BY <1>2 DEF Undeleted
    <3>3. i \in 1 .. Len(log) \/ i = Len(log) + 1
      BY <1>3, <3>1
    <3>4. QED
      BY <1>2, <3>1, <3>2, <3>3
  <2>3. QED
    BY <1>2, <2>1, <2>2, LogStep
<1>4. ASSUME NEW d \in Devices PROVE Undeleted(d)'
  <2>1. job'[d].kind # "delete"
    <3>1. ~DeleteStarts(d)
      BY <1>1 DEF DeleteStarts, HandleDelete
    <3>2. QED
      BY <1>2, <3>1 DEF JobMove, Undeleted, EditStarts, SyncStarts, AnnounceGoesOn, JobEnds, IsJob, NoJob
  <2>2. ASSUME NEW r \in Answers(d)' PROVE r.kind # "delete" /\ (r.kind = "open" => r.arg # 0)
    <3>1. CASE r \in Answers(d)
      BY <1>2, <3>1 DEF Undeleted
    <3>2. CASE NewReply(d, r)
      <4>1. row.env # 0 /\ job[d].kind # "delete"
        BY <1>2 DEF TypeInv, ServerTyped, Undeleted
      <4>2. QED
        BY <3>2, <4>1 DEF NewReply
    <3>3. QED
      BY <1>2, <2>2, <3>1, <3>2, AnswersCome
  <2>3. PICK m : m = Local(d)'
    OBVIOUS
  <2>4. Plain(d, m)
    BY <1>2, <2>3, PlainStep
  <2>5. LocalTyped(d, m)'
    BY <1>2, <2>4, GoodStays DEF Plain
  <2>6. Plain(d, Local(d))'
    BY <2>3, <2>4, <2>5 DEF Plain, GoodLocal
  <2>7. QED
    BY <2>1, <2>2, <2>6 DEF Undeleted
<1>5. QED
  BY <1>3, <1>4

LEMMA DeleteInit ==
    ASSUME Init
    PROVE  DeleteInv
<1>1. TypeInv /\ LocalInv
  BY TypeInit, LocalInit
<1>2. ASSUME NEW d \in Devices PROVE Undeleted(d)
  <2>1. replies[d] = <<>> /\ job[d].kind = "none"
    BY DEF Init, NoJob
  <2>2. LocalTyped(d, Local(d)) /\ GoodLocal(Local(d)) /\ Local(d).row = store[d]
    BY <1>1, LocalIs DEF LocalInv
  <2>3. PICK w : w = [NoRow EXCEPT !.has = TRUE, !.text = 1]
    OBVIOUS
  <2>4. w.text = 1 /\ ~w.deleted /\ ~NoRow.has /\ ~NoRow.deleted
    BY <2>3 DEF NoRow
  <2>5. store[d] = w \/ store[d] = NoRow
    BY <2>3 DEF Init
  <2>6. Plain(d, Local(d))
    BY <2>2, <2>4, <2>5 DEF Plain
  <2>7. QED
    BY <2>1, <2>6 DEF Undeleted, Answers
<1>3. \A i \in 1 .. Len(log) : log[i].kind # "delete"
  <2>1. PICK a, b, c, e : /\ a = [to |-> "reader", kind |-> "other", env |-> 0, by |-> Origin]
                          /\ b = [to |-> "author", kind |-> "other", env |-> 0, by |-> Origin]
                          /\ c = [to |-> "reader", kind |-> "message", env |-> 1, by |-> Origin]
                          /\ e = [to |-> "author", kind |-> "message", env |-> 1, by |-> Origin]
    OBVIOUS
  <2>2. log = <<a, b, c, e>>
    BY <2>1 DEF Init
  <2>3. a.kind = "other" /\ b.kind = "other" /\ c.kind = "message" /\ e.kind = "message"
    BY <2>1
  <2>4. QED
    BY <2>2, <2>3
<1>4. QED
  BY <1>2, <1>3 DEF DeleteInv

-----------------------------------------------------------------------------
(***************************************************************************)
(* The edits in the reader's part of the log: each envelope once, and,     *)
(* unless the edits of two devices crossed or the server crashed before    *)
(* announcing one, in the order in which they were written to the row.     *)
(***************************************************************************)
Edits == {i \in 1 .. Len(log) : log[i].to = "reader" /\ log[i].kind = "edit"}
Logged(e) == \E i \in Edits : log[i].env = e
Pends(e) == \E c \in Devices : job[c].kind = "edit" /\ "reader" \in job[c].todo /\ job[c].arg = e

AnnouncesEdit(c) == Announce(c, "reader") /\ job[c].kind = "edit"

LEMMA EditsAre ==
    ASSUME TypeInv
    PROVE  \A i \in Edits : /\ i \in Nat /\ i <= Len(log) /\ Len(log) \in Nat
                            /\ log[i].env \in 2 .. Len(made) /\ log[i].env # 1
<1>1. ASSUME NEW i \in Edits PROVE /\ i \in Nat /\ i <= Len(log) /\ Len(log) \in Nat
                                   /\ log[i].env \in 2 .. Len(made) /\ log[i].env # 1
  <2>1. i \in 1 .. Len(log) /\ log[i].kind = "edit" /\ Len(log) \in Nat /\ Len(made) \in Nat
    BY Lengths DEF Edits
  <2>2. GoodEdit(log[i].env, log[i].by)
    BY <2>1, EventIs DEF GoodEvent
  <2>3. QED
    BY <2>1, <2>2 DEF GoodEdit
<1>2. QED
  BY <1>1

LEMMA EditAnnounced ==
    ASSUME TypeInv, NEW c \in Devices, AnnouncesEdit(c)
    PROVE  /\ Edits' = Edits \cup {Len(log) + 1} /\ log'[Len(log) + 1].env = job[c].arg
           /\ GoodEdit(job[c].arg, c) /\ "reader" \in job[c].todo /\ "reader" \notin job'[c].todo
           /\ Len(log) \in Nat /\ \A i \in Edits : log'[i] = log[i]
<1>1. "reader" \in Users /\ Len(log) \in Nat
  BY Lengths DEF Users
<1>2. /\ NewEvent(c, "reader").to = "reader" /\ NewEvent(c, "reader").kind = "edit"
      /\ NewEvent(c, "reader").env = job[c].arg
      /\ Len(log') = Len(log) + 1 /\ log'[Len(log) + 1] = NewEvent(c, "reader")
      /\ \A i \in 1 .. Len(log) : log'[i] = log[i]
  BY <1>1, AnnounceLogs DEF AnnouncesEdit
<1>3. Edits' = Edits \cup {Len(log) + 1}
  <2>1. ASSUME NEW i PROVE i \in Edits' <=> i \in Edits \/ i = Len(log) + 1
    <3>1. i \in 1 .. Len(log') <=> i \in 1 .. Len(log) \/ i = Len(log) + 1
      BY <1>1, <1>2
    <3>2. QED
      BY <1>1, <1>2, <3>1 DEF Edits
  <2>2. QED
    BY <2>1
<1>4. "reader" \notin job'[c].todo
  <2>1. job \in [Devices -> JobRecords]
    BY DEF TypeInv, JobsTyped
  <2>2. CASE job[c].todo = {"reader"}
    <3>1. job' = [job EXCEPT ![c] = NoJob]
      BY <2>2 DEF AnnouncesEdit, Announce
    <3>2. job'[c] = NoJob
      BY <2>1, <3>1
    <3>3. QED
      BY <3>2 DEF NoJob
  <2>3. CASE job[c].todo # {"reader"}
    <3>1. PICK j : j = [job[c] EXCEPT !.todo = job[c].todo \ {"reader"}]
      OBVIOUS
    <3>2. job' = [job EXCEPT ![c] = j]
      BY <2>3, <3>1 DEF AnnouncesEdit, Announce
    <3>3. job'[c] = j /\ job[c] \in JobRecords
      BY <2>1, <3>2
    <3>4. j.todo = job[c].todo \ {"reader"}
      BY <3>1, <3>3 DEF JobRecords
    <3>5. QED
      BY <3>3, <3>4
  <2>4. QED
    BY <2>2, <2>3
<1>5. GoodEdit(job[c].arg, c) /\ "reader" \in job[c].todo
  BY JobIs DEF AnnouncesEdit, Announce, GoodJob
<1>6. \A i \in Edits : i \in 1 .. Len(log)
  BY DEF Edits
<1>7. QED
  BY <1>1, <1>2, <1>3, <1>4, <1>5, <1>6

LEMMA EditsMoves ==
    ASSUME TypeInv, [Next]_vars
    PROVE  /\ Edits' = Edits \/ \E c \in Devices : AnnouncesEdit(c)
           /\ Edits \subseteq Edits' /\ \A i \in Edits : log'[i] = log[i]
<1>1. Grows /\ \A i \in Edits : i \in 1 .. Len(log)
  BY StepGrows DEF Edits
<1>2. Edits \subseteq Edits' /\ \A i \in Edits : log'[i] = log[i]
  BY <1>1 DEF Grows, Edits
<1>3. ASSUME NEW c \in Devices, NEW u \in Users, Announce(c, u)
      PROVE  Edits' = Edits \/ AnnouncesEdit(c)
  <2>1. /\ NewEvent(c, u).to = u /\ NewEvent(c, u).kind = job[c].kind
        /\ Len(log') = Len(log) + 1 /\ log'[Len(log) + 1] = NewEvent(c, u)
        /\ \A i \in 1 .. Len(log) : log'[i] = log[i] /\ Len(log) \in Nat
    BY <1>3, AnnounceLogs, Lengths
  <2>2. CASE u = "reader" /\ job[c].kind = "edit"
    BY <1>3, <2>2 DEF AnnouncesEdit
  <2>3. CASE u # "reader" \/ job[c].kind # "edit"
    <3>1. ASSUME NEW i \in Edits' PROVE i \in Edits
      <4>1. i \in 1 .. Len(log') /\ log'[i].to = "reader" /\ log'[i].kind = "edit"
        BY <3>1 DEF Edits
      <4>2. i # Len(log) + 1
        BY <2>1, <2>3, <4>1
      <4>3. i \in 1 .. Len(log)
        BY <1>1, <2>1, <4>1, <4>2 DEF Grows
      <4>4. QED
        BY <2>1, <4>1, <4>3 DEF Edits
    <3>2. QED
      BY <1>2, <3>1
  <2>4. QED
    BY <2>2, <2>3
<1>4. log' = log => Edits' = Edits
  BY DEF Edits
<1>5. QED
  BY <1>2, <1>3, <1>4, LogStep

LEMMA LoggedMoves ==
    ASSUME TypeInv, [Next]_vars, NEW e
    PROVE  /\ Logged(e) => Logged(e)'
           /\ Logged(e)' => Logged(e) \/ \E c \in Devices : AnnouncesEdit(c) /\ e = job[c].arg
<1>1. /\ Edits' = Edits \/ \E c \in Devices : AnnouncesEdit(c)
      /\ Edits \subseteq Edits' /\ \A i \in Edits : log'[i] = log[i]
  BY EditsMoves
<1>2. Logged(e) => Logged(e)'
  BY <1>1 DEF Logged
<1>3. ASSUME Logged(e)', NEW c \in Devices, AnnouncesEdit(c) PROVE Logged(e) \/ e = job[c].arg
  BY <1>1, <1>3, EditAnnounced DEF Logged
<1>4. Edits' = Edits /\ Logged(e)' => Logged(e)
  BY <1>1 DEF Logged
<1>5. QED
  BY <1>1, <1>2, <1>3, <1>4

\* No envelope is announced to the reader twice, now or later.
FreshInv ==
    /\ \A i, j \in Edits : log[i].env = log[j].env => i = j
    /\ \A c \in Devices :
        /\ \A q \in Requests(c) : q.kind = "edit" => ~Logged(q.arg)
        /\ job[c].kind = "edit" /\ "reader" \in job[c].todo => ~Logged(job[c].arg)

\* An edit job was one, or has just started.
LEMMA EditJobs ==
    ASSUME TypeInv, [Next]_vars, NEW c \in Devices, job'[c].kind = "edit"
    PROVE  \/ /\ job[c].kind = "edit" /\ job'[c].arg = job[c].arg
              /\ job'[c].todo \subseteq job[c].todo
           \/ EditStarts(c) /\ job'[c].arg = FirstRequest(c).arg
BY JobsMove DEF JobMove, EditStarts, DeleteStarts, SyncStarts, AnnounceGoesOn, JobEnds, IsJob, NoJob

LEMMA FreshStep ==
    ASSUME TypeInv, FlightInv, FreshInv, [Next]_vars
    PROVE  FreshInv'
<1>0. /\ Edits' = Edits \/ \E c \in Devices : AnnouncesEdit(c)
      /\ Edits \subseteq Edits' /\ \A i \in Edits : log'[i] = log[i]
      /\ \A c \in Devices : InFlight(c)
      /\ \A i \in Edits : log[i].env \in 2 .. Len(made)
  BY EditsMoves, EditsAre DEF FlightInv
<1>1. ASSUME NEW i \in Edits', NEW j \in Edits', log'[i].env = log'[j].env PROVE i = j
  <2>1. CASE Edits' = Edits
    BY <1>0, <1>1, <2>1 DEF FreshInv
  <2>2. ASSUME NEW c \in Devices, AnnouncesEdit(c) PROVE i = j
    <3>1. ~Logged(job[c].arg)
      BY <2>2, EditAnnounced DEF FreshInv, AnnouncesEdit
    <3>2. Edits' = Edits \cup {Len(log) + 1} /\ log'[Len(log) + 1].env = job[c].arg
      BY <2>2, EditAnnounced
    <3>3. QED
      BY <1>0, <1>1, <3>1, <3>2 DEF FreshInv, Logged
  <2>3. QED
    BY <1>0, <2>1, <2>2
<1>2. ASSUME NEW c \in Devices, NEW e, GoodEdit(e, c), ~Logged(e), Logged(e)'
      PROVE  AnnouncesEdit(c) /\ e = job[c].arg /\ ~EditAsked(c)
  <2>1. PICK b \in Devices : AnnouncesEdit(b) /\ e = job[b].arg
    BY <1>2, LoggedMoves
  <2>2. GoodEdit(e, b)
    BY <2>1, EditAnnounced
  <2>3. b = c
    BY <1>2, <2>2 DEF GoodEdit
  <2>4. QED
    BY <1>0, <2>1, <2>3 DEF AnnouncesEdit, InFlight
<1>3. ASSUME NEW c \in Devices, NEW q \in Requests(c)', q.kind = "edit" PROVE ~Logged(q.arg)'
  <2>1. CASE q \in Requests(c)
    <3>1. GoodEdit(q.arg, c) /\ ~Logged(q.arg) /\ EditAsked(c)
      BY <1>3, <2>1, RequestIn DEF GoodRequest, FreshInv, EditAsked
    <3>2. QED
      BY <1>2, <3>1
  <2>2. CASE q.arg = Len(made) + 1
    <3>1. Len(made) \in Nat
      BY Lengths
    <3>2. ~Logged(q.arg)
      BY <1>0, <2>2, <3>1 DEF Logged
    <3>3. ASSUME NEW b \in Devices, AnnouncesEdit(b) PROVE q.arg # job[b].arg
      BY <2>2, <3>1, <3>3, EditAnnounced DEF GoodEdit
    <3>4. QED
      BY <3>2, <3>3, LoggedMoves
  <2>3. QED
    BY <1>3, <2>1, <2>2, RequestsCome DEF NewRequest
<1>4. ASSUME NEW c \in Devices, job'[c].kind = "edit", "reader" \in job'[c].todo
      PROVE  ~Logged(job[c].arg)'
  <2>1. PICK e : e = job'[c].arg
    OBVIOUS
  <2>2. CASE /\ job[c].kind = "edit" /\ job'[c].arg = job[c].arg
             /\ job'[c].todo \subseteq job[c].todo
    <3>1. GoodEdit(e, c) /\ ~Logged(e)
      BY <1>4, <2>1, <2>2, JobIs DEF GoodJob, FreshInv
    <3>2. ~AnnouncesEdit(c)
      BY <1>4, EditAnnounced
    <3>3. QED
      BY <1>2, <2>1, <3>1, <3>2
  <2>3. CASE EditStarts(c) /\ job'[c].arg = FirstRequest(c).arg
    <3>1. /\ FirstRequest(c) \in Requests(c) /\ FirstRequest(c).kind = "edit"
          /\ GoodRequest(c, FirstRequest(c))
      BY <2>3, HandlingIs DEF EditStarts, HandleEdit
    <3>2. GoodEdit(e, c) /\ ~Logged(e) /\ EditAsked(c)
      BY <2>1, <2>3, <3>1 DEF GoodRequest, FreshInv, EditAsked
    <3>3. QED
      BY <1>2, <2>1, <3>2
  <2>4. QED
    BY <1>4, <2>2, <2>3, EditJobs
<1>5. QED
  BY <1>1, <1>3, <1>4 DEF FreshInv

\* The log ends with the edit that the row holds, or that edit is about to be announced.
InOrder(d) ==
    ~row.deleted /\ "raced" \notin slips[d] =>
        /\ \A c, b \in Devices : job[c].kind = "edit" /\ job[b].kind = "edit" => c = b
        /\ \A c \in Devices : job[c].kind = "edit" => job[c].arg = row.env
        /\ "unannounced" \notin slips[d] =>
            \/ Pends(row.env)
            \/ row.env = 1 /\ Edits = {}
            \/ \E i \in Edits : log[i].env = row.env /\ \A j \in Edits : j <= i

OrderInv == \A d \in Devices : InOrder(d)

\* An edit that is to be announced still is, or is announced, or lost in a crash.
LEMMA PendsMoves ==
    ASSUME TypeInv, [Next]_vars, NEW e, Pends(e), NEW d \in Devices
    PROVE  \/ Pends(e)'
           \/ \E c \in Devices : AnnouncesEdit(c) /\ job[c].arg = e
           \/ "unannounced" \in slips'[d]
<1>1. PICK c \in Devices : job[c].kind = "edit" /\ "reader" \in job[c].todo /\ job[c].arg = e
  BY DEF Pends
<1>2. CASE job'[c] = job[c]
  BY <1>1, <1>2 DEF Pends
<1>3. CASE AnnounceGoesOn(c)
  <2>1. PICK u \in Users : /\ Announce(c, u)
                           /\ IsJob(job'[c], job[c].kind, job[c].arg, job[c].todo \ {u})
    BY <1>3 DEF AnnounceGoesOn
  <2>2. CASE u = "reader"
    BY <1>1, <2>1, <2>2 DEF AnnouncesEdit
  <2>3. CASE u # "reader"
    BY <1>1, <2>1, <2>3 DEF Pends, IsJob
  <2>4. QED
    BY <2>2, <2>3
<1>4. CASE ServerCrash
  <2>1. \E b \in Devices : job[b].todo # {}
    BY <1>1
  <2>2. "unannounced" \in slips'[d]
    BY <1>4, <2>1 DEF ServerCrash
  <2>3. QED
    BY <2>2
<1>5. ASSUME NEW u \in Users, Announce(c, u), job[c].todo = {u} PROVE AnnouncesEdit(c)
  BY <1>1, <1>5 DEF AnnouncesEdit
<1>6. ~EditStarts(c) /\ ~DeleteStarts(c) /\ ~SyncStarts(c) /\ ~ReadEvents(c)
  BY <1>1, HandlingIs DEF EditStarts, DeleteStarts, SyncStarts, HandleEdit, HandleDelete, HandleSync,
     ReadEvents
<1>7. QED
  BY <1>1, <1>2, <1>3, <1>4, <1>5, <1>6, JobsMove DEF JobMove, JobEnds

LEMMA OrderStep ==
    ASSUME TypeInv, OrderInv, [Next]_vars
    PROVE  OrderInv'
<1>1. SUFFICES ASSUME NEW d \in Devices, ~row'.deleted, "raced" \notin slips'[d]
               PROVE  /\ \A c, b \in Devices : job'[c].kind = "edit" /\ job'[b].kind = "edit" => c = b
                      /\ \A c \in Devices : job'[c].kind = "edit" => job'[c].arg = row'.env
                      /\ "unannounced" \notin slips'[d] =>
                          \/ Pends(row.env)'
                          \/ row'.env = 1 /\ Edits' = {}
                          \/ \E i \in Edits' : log'[i].env = row'.env /\ \A j \in Edits' : j <= i
  BY DEF OrderInv, InOrder, Pends
<1>2. /\ Grows /\ ~row.deleted /\ slips[d] \subseteq slips'[d]
      /\ \A c, b \in Devices : job[c].kind = "edit" /\ job[b].kind = "edit" => c = b
      /\ \A c \in Devices : job[c].kind = "edit" => job[c].arg = row.env
      /\ "unannounced" \notin slips'[d] =>
          \/ Pends(row.env)
          \/ row.env = 1 /\ Edits = {}
          \/ \E i \in Edits : log[i].env = row.env /\ \A j \in Edits : j <= i
  BY <1>1, StepGrows DEF OrderInv, InOrder, Grows
<1>3. ASSUME NEW a \in Devices, EditStarts(a)
      PROVE  /\ \A c \in Devices : job'[c].kind = "edit" => c = a
             /\ job'[a].arg = row'.env /\ Pends(row.env)'
  <2>1. /\ row'.env = FirstRequest(a).arg /\ job'[a].kind = "edit" /\ IsJob(job'[a], "edit", FirstRequest(a).arg, Users)
    BY <1>3, EditStartsIs DEF EditStarts
  <2>2. \A c \in Devices : job[c].kind # "edit"
    <3>1. SUFFICES ASSUME \E c \in Devices : job[c].kind = "edit" PROVE FALSE
      OBVIOUS
    <3>2. SlipAt(Devices, "raced")
      BY <1>2, <1>3, <3>1 DEF EditStarts, HandleEdit
    <3>3. QED
      BY <1>1, <3>2, SlipsAdded, SlipNames
  <2>3. \A c \in Devices : c # a => job'[c] = job[c]
    BY <1>2, <1>3 DEF EditStarts, HandleEdit, StartJob, TypeInv, JobsTyped
  <2>4. QED
    BY <2>1, <2>2, <2>3 DEF Pends, IsJob, Users
<1>4. ASSUME row' = row, \A a \in Devices : ~EditStarts(a), "unannounced" \notin slips'[d]
      PROVE  \/ Pends(row.env)'
             \/ row'.env = 1 /\ Edits' = {}
             \/ \E i \in Edits' : log'[i].env = row'.env /\ \A j \in Edits' : j <= i
  <2>1. ASSUME NEW c \in Devices, AnnouncesEdit(c)
        PROVE  \E i \in Edits' : log'[i].env = row'.env /\ \A j \in Edits' : j <= i
    <3>1. /\ Edits' = Edits \cup {Len(log) + 1} /\ log'[Len(log) + 1].env = job[c].arg
          /\ Len(log) \in Nat
      BY <2>1, EditAnnounced
    <3>2. job[c].arg = row'.env
      BY <1>2, <1>4, <2>1 DEF AnnouncesEdit
    <3>3. \A j \in Edits' : j <= Len(log) + 1
      BY <3>1, EditsAre
    <3>4. QED
      BY <3>1, <3>2, <3>3
  <2>2. /\ Edits' = Edits \/ \E c \in Devices : AnnouncesEdit(c)
        /\ Edits \subseteq Edits' /\ \A i \in Edits : log'[i] = log[i]
    BY EditsMoves
  <2>3. CASE Pends(row.env)
    <3>1. Pends(row.env)' \/ \E c \in Devices : AnnouncesEdit(c)
      <4>1. PICK e : e = row.env
        OBVIOUS
      <4>2. Pends(e)' \/ \E c \in Devices : AnnouncesEdit(c)
        BY <1>4, <2>3, <4>1, PendsMoves
      <4>3. QED
        BY <1>4, <4>1, <4>2
    <3>2. QED
      BY <1>4, <2>1, <3>1
  <2>4. CASE ~(\E c \in Devices : AnnouncesEdit(c))
    BY <1>2, <1>4, <2>2, <2>3, <2>4
  <2>5. QED
    BY <2>1, <2>4
<1>5. ASSUME row' = row, \A a \in Devices : ~EditStarts(a)
      PROVE  /\ \A c, b \in Devices : job'[c].kind = "edit" /\ job'[b].kind = "edit" => c = b
             /\ \A c \in Devices : job'[c].kind = "edit" => job'[c].arg = row'.env
  BY <1>2, <1>5, EditJobs
<1>6. QED
  BY <1>1, <1>3, <1>4, <1>5, RowMoves

LEMMA EditsInit ==
    ASSUME Init
    PROVE  FreshInv /\ OrderInv /\ Edits = {}
<1>1. PICK a, b, c, e : /\ a = [to |-> "reader", kind |-> "other", env |-> 0, by |-> Origin]
                        /\ b = [to |-> "author", kind |-> "other", env |-> 0, by |-> Origin]
                        /\ c = [to |-> "reader", kind |-> "message", env |-> 1, by |-> Origin]
                        /\ e = [to |-> "author", kind |-> "message", env |-> 1, by |-> Origin]
  OBVIOUS
<1>2. log = <<a, b, c, e>>
  BY <1>1 DEF Init
<1>3. a.kind = "other" /\ b.kind = "other" /\ c.kind = "message" /\ e.kind = "message"
  BY <1>1
<1>4. \A i \in 1 .. Len(log) : log[i].kind # "edit"
  BY <1>2, <1>3
<1>5. Edits = {}
  BY <1>4 DEF Edits
<1>6. \A d \in Devices : inbox[d] = <<>> /\ job[d].kind = "none"
  BY DEF Init, NoJob
<1>7. row.env = 1
  BY DEF Init
<1>8. QED
  BY <1>5, <1>6, <1>7 DEF FreshInv, OrderInv, InOrder, Requests, Logged

-----------------------------------------------------------------------------
(***************************************************************************)
(* What a reader has read: every edit announced before one that it opened, *)
(* and the text it shows is that of the last one opened.                   *)
(***************************************************************************)
Known(e) == e = 1 \/ Logged(e) \/ Pends(e)

\* Event i is before every edit event of envelope e.
Precedes(i, e) == e # 1 /\ \A j \in Edits : log[j].env = e => i < j

Before(a, e) == a = e \/ a = 1 \/ \E i \in Edits : log[i].env = a /\ Precedes(i, e)

Reads(l) ==
    /\ \A e \in l.used : Known(e) /\ \A i \in Edits : Precedes(i, e) => log[i].env \in l.used
    /\ l.used # {} => \E e \in l.used : l.cache = made[e].text /\ \A a \in l.used : Before(a, e)
    /\ l.cache # 0 => l.used # {}

Straight(d) ==
    /\ d \in Readers /\ ~row.deleted /\ pruned = 0
    /\ slips[d] \cap {"overtaken", "raced", "unannounced"} = {}

ReaderOf(d) == Reads(Local(d)) /\ \A r \in Answers(d) : r.kind = "open" => Known(r.arg)

ReaderInv == \A d \in Devices : Straight(d) => ReaderOf(d)

LEMMA StraightStays ==
    ASSUME TypeInv, [Next]_vars, NEW d \in Devices, Straight(d)'
    PROVE  /\ Straight(d) /\ "unannounced" \notin slips'[d] /\ "raced" \notin slips[d]
           /\ "unannounced" \notin slips[d] /\ "overtaken" \notin slips'[d]
<1>1. /\ Grows /\ pruned \in Nat /\ pruned' = 0
  BY StepGrows, Lengths DEF Straight
<1>2. pruned = 0
  BY <1>1 DEF Grows
<1>3. QED
  BY <1>1, <1>2 DEF Grows, Straight

LEMMA KnownStays ==
    ASSUME TypeInv, [Next]_vars, NEW d \in Devices, "unannounced" \notin slips'[d], NEW e, Known(e)
    PROVE  Known(e)'
<1>1. CASE e = 1
  BY <1>1 DEF Known
<1>2. CASE Logged(e)
  BY <1>2, LoggedMoves DEF Known
<1>3. CASE Pends(e)
  <2>1. ASSUME NEW c \in Devices, AnnouncesEdit(c), job[c].arg = e PROVE Logged(e)'
    BY <2>1, EditAnnounced DEF Logged
  <2>2. QED
    BY <1>3, <2>1, PendsMoves DEF Known
<1>4. QED
  BY <1>1, <1>2, <1>3 DEF Known

\* A new edit in the log comes after all that is known.
LEMMA ReadsStays ==
    ASSUME TypeInv, FreshInv, OrderInv, [Next]_vars, NEW d \in Devices, Straight(d)',
           NEW l, l.used \subseteq 1 .. Len(made), Reads(l)
    PROVE  Reads(l)'
<1>0. /\ "unannounced" \notin slips'[d] /\ "raced" \notin slips[d] /\ ~row.deleted
      /\ Grows /\ Edits \subseteq Edits' /\ \A i \in Edits : log'[i] = log[i]
      /\ Edits' = Edits \/ \E c \in Devices : AnnouncesEdit(c)
      /\ \A i \in Edits : i \in Nat /\ i <= Len(log) /\ Len(log) \in Nat /\ log[i].env # 1
      /\ \A c, b \in Devices : job[c].kind = "edit" /\ job[b].kind = "edit" => c = b
  BY StraightStays, StepGrows, EditsMoves, EditsAre DEF Straight, OrderInv, InOrder
<1>1. ASSUME NEW i \in Edits, NEW e, Precedes(i, e)' PROVE Precedes(i, e)
  BY <1>0, <1>1 DEF Precedes
<1>2. ASSUME NEW i \in Edits, NEW e, Precedes(i, e) PROVE Precedes(i, e)'
  <2>1. ASSUME NEW j \in Edits', log'[j].env = e PROVE i < j
    <3>1. CASE j \in Edits
      BY <1>0, <1>2, <2>1, <3>1 DEF Precedes
    <3>2. CASE j \notin Edits
      <4>1. j = Len(log) + 1
        BY <1>0, <2>1, <3>2, EditAnnounced
      <4>2. QED
        BY <1>0, <4>1
    <3>3. QED
      BY <3>1, <3>2
  <2>2. QED
    BY <1>2, <2>1 DEF Precedes
<1>3. ASSUME NEW e \in l.used, NEW i \in Edits', Precedes(i, e)' PROVE log'[i].env \in l.used
  <2>1. CASE i \in Edits
    BY <1>0, <1>1, <1>3, <2>1 DEF Reads
  <2>2. CASE i \notin Edits
    <3>1. PICK c \in Devices : AnnouncesEdit(c) /\ i = Len(log) + 1 /\ log'[i].env = job[c].arg
      BY <1>0, <1>3, <2>2, EditAnnounced
    <3>2. ~Logged(e)
      <4>1. SUFFICES ASSUME NEW j \in Edits, log[j].env = e PROVE FALSE
        BY DEF Logged
      <4>2. i < j
        BY <1>0, <1>3, <4>1 DEF Precedes
      <4>3. QED
        BY <1>0, <3>1, <4>1, <4>2
    <3>3. e # 1 /\ Known(e)
      BY <1>3 DEF Precedes, Reads
    <3>4. PICK b \in Devices : job[b].kind = "edit" /\ job[b].arg = e
      BY <3>2, <3>3 DEF Known, Pends
    <3>5. b = c
      BY <1>0, <3>1, <3>4 DEF AnnouncesEdit
    <3>6. QED
      BY <1>3, <3>1, <3>4, <3>5
  <2>3. QED
    BY <2>1, <2>2
<1>4. \A e \in l.used : Known(e)'
  BY <1>0, KnownStays DEF Reads
<1>5. ASSUME l.used # {} PROVE \E e \in l.used : l.cache = made'[e].text /\ \A a \in l.used : Before(a, e)'
  <2>1. PICK e \in l.used : l.cache = made[e].text /\ \A a \in l.used : Before(a, e)
    BY <1>5 DEF Reads
  <2>2. made'[e] = made[e]
    BY <1>0, <2>1 DEF Grows
  <2>3. ASSUME NEW a \in l.used PROVE Before(a, e)'
    BY <1>0, <1>2, <2>1, <2>3 DEF Before
  <2>4. QED
    BY <2>1, <2>2, <2>3
<1>6. QED
  BY <1>3, <1>4, <1>5 DEF Reads

\* Opening an edit all of whose predecessors have been opened.
LEMMA OpenedReads ==
    ASSUME TypeInv, FreshInv, NEW l, NEW m, Reads(l), NEW e, e \notin l.used,
           (l.used = {} /\ Known(e)) \/ Logged(e),
           \A k \in Edits : Precedes(k, e) => log[k].env \in l.used \cup {e},
           m.used = l.used \cup {e}, m.cache = made[e].text
    PROVE  Reads(m)
<1>0. /\ \A i \in Edits : i \in Nat /\ log[i].env # 1
      /\ \A i, j \in Edits : log[i].env = log[j].env => i = j
  BY EditsAre DEF FreshInv
<1>1. Known(e)
  BY DEF Known
<1>2. ASSUME NEW a \in m.used
      PROVE  Known(a) /\ \A i \in Edits : Precedes(i, a) => log[i].env \in m.used
  BY <1>1, <1>2 DEF Reads
<1>3. ASSUME NEW a \in l.used PROVE Before(a, e)
  <2>1. PICK i \in Edits : log[i].env = e
    BY <1>3 DEF Logged
  <2>2. Known(a) /\ a # e /\ (Precedes(i, a) => e \in l.used)
    BY <1>3, <2>1 DEF Reads
  <2>3. ~Precedes(i, a)
    BY <2>2
  <2>4. CASE a = 1
    BY <2>4 DEF Before
  <2>5. CASE a # 1
    <3>1. PICK k \in Edits : log[k].env = a /\ ~(i < k)
      BY <2>3, <2>5 DEF Precedes
    <3>2. k < i
      BY <1>0, <2>1, <2>2, <3>1
    <3>3. Precedes(k, e)
      BY <1>0, <2>1, <3>2 DEF Precedes
    <3>4. QED
      BY <3>1, <3>3 DEF Before
  <2>6. QED
    BY <2>4, <2>5
<1>4. Before(e, e)
  BY DEF Before
<1>5. \A a \in m.used : Before(a, e)
  BY <1>3, <1>4
<1>6. e \in m.used
  OBVIOUS
<1>7. QED
  BY <1>2, <1>5, <1>6 DEF Reads

\* An edit that does not overtake another has all its predecessors opened.
LEMMA NotOvertaken ==
    ASSUME TypeInv, NEW d \in Readers, Seen(d, cursor[d], Local(d)), NEW e \in 1 .. Len(made),
           Opens(d, Local(d), e), ~Overtakes(d, e), NEW k \in Edits, Precedes(k, e)
    PROVE  log[k].env \in Local(d).used \cup {e}
<1>0. /\ d \in Devices /\ UserOf(d) = "reader" /\ cursor[d] \in Nat
      /\ k \in Nat /\ k <= Len(log) /\ Len(log) \in Nat /\ log[k].env \in 1 .. Len(made)
      /\ k \in 1 .. Len(log) /\ log[k].to = "reader" /\ log[k].kind = "edit"
  <2>1. d \in Devices /\ UserOf(d) = "reader" /\ log[k].env \in 2 .. Len(made) /\ Len(made) \in Nat
    BY EditNumbers, EditsAre, Lengths
  <2>2. log[k].env \in 1 .. Len(made)
    BY <2>1
  <2>3. QED
    BY <2>1, <2>2, EditsAre DEF TypeInv, DevicesTyped, Edits
<1>1. CASE k <= cursor[d]
  <2>1. k \in OwnEvents(d, 0, cursor[d])
    BY <1>0, <1>1 DEF OwnEvents
  <2>2. QED
    BY <1>0, <2>1 DEF Seen, SeenEvent
<1>2. CASE k > cursor[d]
  <2>1. k \in OwnEvents(d, cursor[d], Len(log))
    BY <1>0, <1>2 DEF OwnEvents
  <2>2. SUFFICES ASSUME log[k].env \notin Local(d).used, log[k].env # e PROVE FALSE
    OBVIOUS
  <2>3. Opens(d, Local(d), log[k].env)
    BY <1>0, <2>2, ReaderOpens
  <2>4. PICK j \in OwnEvents(d, cursor[d], k) : log[j].env = e
    BY <1>0, <2>1, <2>2, <2>3 DEF Overtakes
  <2>5. j \in 1 .. Len(log) /\ j <= k /\ log[j].to = "reader" /\ j \in Nat
    BY <1>0, <2>4 DEF OwnEvents
  <2>6. e # 0 /\ e # 1
    BY Lengths DEF Precedes
  <2>7. log[j].kind = "edit"
    BY <2>4, <2>5, <2>6, EventIs DEF GoodEvent
  <2>8. j \in Edits
    BY <2>5, <2>7 DEF Edits
  <2>9. k < j
    BY <2>4, <2>8 DEF Precedes
  <2>10. QED
    BY <1>0, <2>5, <2>9
<1>3. QED
  BY <1>0, <1>1, <1>2

LEMMA ReadsSame ==
    ASSUME NEW l, NEW m, Reads(l), m.used = l.used, m.cache = l.cache
    PROVE  Reads(m)
BY DEF Reads

LEMMA MessageReads ==
    ASSUME TypeInv, FreshInv, NEW d \in Readers, NEW l, LocalTyped(d, l), GoodLocal(l), Reads(l),
           NEW e \in 1 .. Len(made), Known(e),
           l.cache = 0 => \A k \in Edits : Precedes(k, e) => log[k].env \in l.used \cup {e},
           NEW m, m = TakeMessage(d, l, e)
    PROVE  Reads(m)
<1>1. d \in Devices /\ e \in 0 .. Len(made)
  BY EditNumbers, Lengths
<1>2. CASE l.cache # 0
  <2>1. m.used = l.used /\ m.cache = l.cache
    BY <1>1, <1>2, TakeMessageIs
  <2>2. QED
    BY <2>1, ReadsSame
<1>3. CASE l.cache = 0
  <2>1. l.used = {}
    BY <1>3 DEF GoodLocal
  <2>2. Opens(d, l, e)
    BY <2>1, ReaderOpens
  <2>3. m.used = l.used \cup {e} /\ m.cache = made[e].text
    BY <1>1, <1>3, <2>2, TakeMessageIs
  <2>4. QED
    BY <1>3, <2>1, <2>3, OpenedReads
<1>4. QED
  BY <1>2, <1>3

LEMMA EventReads ==
    ASSUME TypeInv, FreshInv, NEW d \in Readers, NEW l, LocalTyped(d, l), GoodLocal(l), Reads(l),
           NEW i \in OwnEvents(d, 0, Len(log)), log[i].kind # "delete",
           log[i].kind = "edit" /\ Opens(d, l, log[i].env) =>
              \A k \in Edits : Precedes(k, log[i].env) => log[k].env \in l.used \cup {log[i].env},
           NEW m, m = TakeEvent(d, l, log[i])
    PROVE  Reads(m)
<1>0. d \in Devices /\ UserOf(d) = "reader" /\ Len(log) \in Nat /\ Len(made) \in Nat
  BY EditNumbers, Lengths
<1>1. i \in 1 .. Len(log) /\ log[i].to = "reader" /\ 1 \in 1 .. Len(made)
  BY <1>0 DEF OwnEvents, TypeInv, ServerTyped
<1>2. CASE m = l
  BY <1>2
<1>3. CASE m = TakeMessage(d, l, 1)
  BY <1>1, <1>3, MessageReads DEF Known, Precedes
<1>4. CASE log[i].kind = "edit" /\ m = TakeEdit(d, l, log[i].env)
  <2>1. PICK e : e = log[i].env
    OBVIOUS
  <2>2. e \in 0 .. Len(made) /\ e \in 1 .. Len(made) /\ Logged(e)
    <3>1. i \in Edits
      BY <1>1, <1>4 DEF Edits
    <3>2. e \in 2 .. Len(made)
      BY <2>1, <3>1, EditsAre
    <3>3. QED
      BY <1>0, <2>1, <3>1, <3>2 DEF Logged
  <2>3. CASE Opens(d, l, e)
    <3>1. m.used = l.used \cup {e} /\ m.cache = made[e].text
      BY <1>0, <1>4, <2>1, <2>2, <2>3, TakeEditIs
    <3>2. e \notin l.used
      BY <2>2, <2>3, ReaderOpens
    <3>3. \A k \in Edits : Precedes(k, e) => log[k].env \in l.used \cup {e}
      BY <1>4, <2>1, <2>3
    <3>4. QED
      BY <2>2, <3>1, <3>2, <3>3, OpenedReads
  <2>4. CASE ~Opens(d, l, e)
    BY <1>0, <1>4, <2>1, <2>2, <2>4, TakeEditIs
  <2>5. QED
    BY <2>3, <2>4
<1>5. m = l \/ m = TakeMessage(d, l, 1) \/ (log[i].kind = "edit" /\ m = TakeEdit(d, l, log[i].env))
  BY <1>0, <1>1, TakeEventIs
<1>6. QED
  BY <1>2, <1>3, <1>4, <1>5

\* A page without gaps brings every edit after all those before it.
LEMMA PageReads ==
    ASSUME TypeInv, FreshInv, NEW d \in Readers, NEW r \in ReplyRecords, GoodReply(d, r), r.kind = "sync",
           Whole(d, r), r.arg <= cursor[d], Seen(d, cursor[d], Local(d)),
           GoodLocal(Local(d)), Reads(Local(d)), \A i \in 1 .. Len(log) : log[i].kind # "delete",
           NEW m, m = TakePage(d, r.page)
    PROVE  Reads(m)
<1>0. /\ d \in Devices /\ Len(log) \in Nat /\ cursor[d] \in Nat /\ LastSeq(r) \in Nat
      /\ UserOf(d) = "reader" /\ LastSeq(r) <= Len(log) /\ r.arg \in Nat
      /\ \A i \in r.page : i \in OwnEvents(d, r.arg, LastSeq(r))
  <2>1. d \in Devices /\ UserOf(d) = "reader" /\ r.arg \in Nat
    BY EditNumbers DEF ReplyRecords
  <2>2. QED
    BY <2>1, LastSeqIs, Lengths DEF TypeInv, DevicesTyped
<1>1. PICK f : /\ Trace(f, d, r.page)
               /\ \A k \in 0 .. Len(log) :
                     /\ LocalTyped(d, f[k])
                     /\ \A i \in OwnEvents(d, 0, Len(log)) :
                           i <= cursor[d] \/ (i <= k /\ i <= LastSeq(r)) => SeenEvent(d, i, f[k])
  BY <1>0, PageTrace
<1>2. PICK S : S = {k \in 0 .. Len(log) : GoodLocal(f[k]) /\ Reads(f[k])}
  OBVIOUS
<1>3. 0 \in S
  BY <1>0, <1>1, <1>2 DEF Trace
<1>4. ASSUME NEW k \in 1 .. Len(log), k - 1 \in S PROVE k \in S
  <2>1. GoodLocal(f[k - 1]) /\ Reads(f[k - 1]) /\ k - 1 \in 0 .. Len(log) /\ LocalTyped(d, f[k - 1])
    BY <1>1, <1>2, <1>4
  <2>2. CASE k \notin r.page
    <3>1. f[k] = f[k - 1]
      BY <1>1, <2>2 DEF Trace
    <3>2. QED
      BY <1>2, <2>1, <3>1
  <2>3. CASE k \in r.page
    <3>1. PICK l, p : l = f[k - 1] /\ p = f[k]
      OBVIOUS
    <3>2. p = TakeEvent(d, l, log[k])
      BY <1>1, <2>3, <3>1 DEF Trace
    <3>3. k \in OwnEvents(d, r.arg, LastSeq(r))
      BY <1>0, <2>3
    <3>4. k \in OwnEvents(d, 0, Len(log)) /\ k <= LastSeq(r) /\ k \in Nat
      BY <1>0, <3>3 DEF OwnEvents
    <3>5. LocalTyped(d, p) /\ GoodLocal(p)
      BY <1>0, <2>1, <3>1, <3>2, TakeEventKeeps
    <3>6. ASSUME log[k].kind = "edit", NEW j \in Edits, Precedes(j, log[k].env)
          PROVE  log[j].env \in l.used
      <4>1. k \in Edits
        BY <1>4, <3>4, <3>6, <1>0 DEF Edits, OwnEvents
      <4>2. j < k /\ j \in Nat /\ j <= Len(log) /\ j \in 1 .. Len(log)
        BY <3>6, <4>1, EditsAre DEF Precedes, Edits
      <4>3. j \in OwnEvents(d, 0, Len(log)) /\ log[j].kind = "edit"
        BY <1>0, <3>6, <4>2 DEF OwnEvents, Edits
      <4>4. j <= k - 1 /\ j <= LastSeq(r)
        BY <1>0, <3>4, <4>2
      <4>5. SeenEvent(d, j, l)
        BY <1>1, <2>1, <3>1, <4>3, <4>4
      <4>6. QED
        BY <4>3, <4>5 DEF SeenEvent
    <3>7. log[k].kind # "delete"
      OBVIOUS
    <3>8. Reads(p)
      BY <2>1, <3>1, <3>2, <3>4, <3>6, <3>7, EventReads
    <3>9. QED
      BY <1>2, <3>1, <3>5, <3>8
  <2>4. QED
    BY <2>2, <2>3
<1>5. Len(log) \in S
  BY <1>0, <1>3, <1>4, UpTo
<1>6. f[Len(log)] = m
  BY <1>1 DEF Trace
<1>7. QED
  BY <1>2, <1>5, <1>6

EditsInv == StreamsInv /\ DeleteInv /\ FreshInv /\ OrderInv

LEMMA RowKnown ==
    ASSUME OrderInv, NEW d \in Devices, ~row.deleted, "raced" \notin slips[d], "unannounced" \notin slips[d]
    PROVE  Known(row.env)
BY DEF OrderInv, InOrder, Known, Logged

\* What the reader has after a step, by the log before it.
LEMMA ReadNow ==
    ASSUME EditsInv, [Next]_vars, NEW d \in Devices, Straight(d)', Straight(d), ReaderOf(d)
    PROVE  Reads(Local(d)')
<1>1. PICK l, m : l = Local(d) /\ m = Local(d)'
  OBVIOUS
<1> SUFFICES Reads(m)
  BY <1>1
<1>2. /\ TypeInv /\ FreshInv /\ PageInv /\ LocalMove(d) /\ LocalTyped(d, l) /\ GoodLocal(l) /\ Reads(l)
      /\ d \in Readers /\ ~row.deleted /\ pruned = 0 /\ StreamOf(d) /\ Undeleted(d)
      /\ \A r \in Answers(d) : r.kind = "open" => Known(r.arg)
      /\ \A i \in 1 .. Len(log) : log[i].kind # "delete"
      /\ l.cache = cache[d] /\ l.used = used[d] /\ "overtaken" \notin slips'[d]
  BY <1>1, LocalIs, LocalsMove, StraightStays DEF EditsInv, StreamsInv, ShownInv, LocalInv, Straight,
     ReaderOf, StreamInv, DeleteInv
<1>3. CASE m = l
  BY <1>2, <1>3
<1>4. CASE ReceiveOpen(d) /\ m = TakeMessage(d, l, FirstAnswer(d).arg)
  <2>1. PICK e : e = FirstAnswer(d).arg
    OBVIOUS
  <2>2. e \in 1 .. Len(made) /\ Known(e)
    <3>1. FirstAnswer(d) \in Answers(d) /\ FirstAnswer(d).kind = "open" /\ FirstAnswer(d).arg \in 0 .. Len(made)
      BY <1>2, <1>4, OpenAnswered
    <3>2. e # 0 /\ Known(e)
      BY <1>2, <2>1, <3>1 DEF Undeleted
    <3>3. QED
      BY <1>2, <2>1, <3>1, <3>2, Lengths
  <2>3. ASSUME l.cache = 0, NEW k \in Edits, Precedes(k, e) PROVE log[k].env \in l.used \cup {e}
    <3>1. ~Overtakes(d, e)
      <4>1. SlipAt(IF cache[d] = 0 /\ Overtakes(d, e) THEN {d} ELSE {}, "overtaken")
        BY <1>4, <2>1 DEF ReceiveOpen, FirstAnswer
      <4>2. QED
        BY <1>2, <2>3, <4>1, SlipsAdded, SlipNames
    <3>2. Opens(d, l, e)
      BY <1>2, <2>2, <2>3, ReaderOpens DEF GoodLocal
    <3>3. QED
      BY <1>1, <1>2, <2>2, <2>3, <3>1, <3>2, NotOvertaken DEF StreamOf
  <2>4. QED
    BY <1>2, <1>4, <2>1, <2>2, <2>3, MessageReads
<1>5. CASE ReceivePush(d) /\ m = TakeEvent(d, l, log[Head(pushes[d])])
  <2>1. PICK i : i = Head(pushes[d])
    OBVIOUS
  <2>2. i \in OwnEvents(d, 0, Len(log)) /\ i \in 1 .. Len(log) /\ log[i].kind # "delete"
    BY <1>2, <1>5, <2>1, PushTaken DEF GoodPush
  <2>3. ASSUME log[i].kind = "edit", Opens(d, l, log[i].env), NEW k \in Edits, Precedes(k, log[i].env)
        PROVE  log[k].env \in l.used \cup {log[i].env}
    <3>1. PICK e : e = log[i].env
      OBVIOUS
    <3>2. e \in 1 .. Len(made)
      BY <1>2, <2>2, <2>3, <3>1, EventIs, Lengths DEF GoodEvent, GoodEdit
    <3>3. ~Overtakes(d, e)
      <4>1. SlipAt(IF log[i].kind = "edit" /\ Overtakes(d, e) THEN {d} ELSE {}, "overtaken")
        BY <1>5, <2>1, <3>1 DEF ReceivePush
      <4>2. QED
        BY <1>2, <2>3, <4>1, SlipsAdded, SlipNames
    <3>4. QED
      BY <1>1, <1>2, <2>3, <3>1, <3>2, <3>3, NotOvertaken DEF StreamOf
  <2>4. QED
    BY <1>2, <1>5, <2>1, <2>2, <2>3, EventReads
<1>6. CASE ReceiveEvents(d) /\ m = TakePage(d, FirstAnswer(d).page)
  <2>1. /\ FirstAnswer(d) \in Answers(d) /\ FirstAnswer(d) \in ReplyRecords
        /\ FirstAnswer(d).kind = "sync" /\ GoodReply(d, FirstAnswer(d))
    BY <1>2, <1>6, PageAnswered
  <2>2. Whole(d, FirstAnswer(d)) /\ FirstAnswer(d).arg <= cursor[d] /\ Seen(d, cursor[d], Local(d))
    BY <1>2, <2>1 DEF PageInv, StreamOf
  <2>3. QED
    BY <1>1, <1>2, <1>6, <2>1, <2>2, PageReads
<1>7. CASE m = TakeDelete(l)
  <2>1. m.used = l.used /\ m.cache = l.cache
    BY <1>2, <1>7, TakeDeleteIs DEF LocalTyped
  <2>2. QED
    BY <1>2, <2>1, ReadsSame
<1>8. CASE ReceiveEdit(d)
  <2>1. FirstAnswer(d).kind = "edit" /\ GoodReply(d, FirstAnswer(d))
    BY <1>2, <1>8, Answered DEF ReceiveEdit, FirstAnswer
  <2>2. QED
    BY <1>2, <2>1, EditNumbers DEF GoodReply, GoodEdit
<1>9. CASE m = Cleared(d)
  <2>1. m.used = l.used /\ m.cache = l.cache
    BY <1>2, <1>9, ClearedIs
  <2>2. QED
    BY <1>2, <2>1, ReadsSame
<1>10. QED
  BY <1>1, <1>2, <1>3, <1>4, <1>5, <1>6, <1>7, <1>8, <1>9 DEF LocalMove

LEMMA ReaderStep ==
    ASSUME EditsInv, ReaderInv, [Next]_vars
    PROVE  ReaderInv'
<1>1. SUFFICES ASSUME NEW d \in Devices, Straight(d)' PROVE ReaderOf(d)'
  BY DEF ReaderInv
<1>2. /\ TypeInv /\ FreshInv /\ OrderInv /\ Straight(d) /\ ReaderOf(d) /\ ~row.deleted
      /\ "unannounced" \notin slips'[d] /\ "raced" \notin slips[d] /\ "unannounced" \notin slips[d]
  BY <1>1, StraightStays DEF EditsInv, StreamsInv, ShownInv, ReaderInv, Straight
<1>3. Reads(Local(d))'
  <2>1. PICK m : m = Local(d)'
    OBVIOUS
  <2>2. Reads(m) /\ LocalTyped(d, m)
    BY <1>1, <1>2, <2>1, ReadNow, LocalsMove
  <2>3. Reads(m)'
    BY <1>1, <1>2, <2>2, ReadsStays DEF LocalTyped
  <2>4. QED
    BY <2>1, <2>3
<1>4. ASSUME NEW r \in Answers(d)', r.kind = "open" PROVE Known(r.arg)'
  <2>1. PICK e : e = r.arg
    OBVIOUS
  <2>2. Known(e)
    <3>1. CASE r \in Answers(d)
      BY <1>2, <1>4, <2>1, <3>1 DEF ReaderOf
    <3>2. CASE NewReply(d, r)
      <4>1. e = row.env
        BY <1>4, <2>1, <3>2 DEF NewReply
      <4>2. QED
        BY <1>2, <4>1, RowKnown
    <3>3. QED
      BY <1>2, <1>4, <3>1, <3>2, AnswersCome
  <2>3. Known(e)'
    BY <1>2, <2>2, KnownStays
  <2>4. QED
    BY <2>1, <2>3
<1>5. QED
  BY <1>3, <1>4 DEF ReaderOf

LEMMA ReaderInit ==
    ASSUME Init
    PROVE  ReaderInv
<1>1. SUFFICES ASSUME NEW d \in Devices, d \in Readers PROVE ReaderOf(d)
  BY DEF ReaderInv, Straight
<1>2. cache[d] = 0 /\ used[d] = {} /\ replies[d] = <<>> /\ TypeInv
  BY <1>1, TypeInit, EditConstants DEF Init
<1>3. Local(d).cache = 0 /\ Local(d).used = {}
  BY <1>2, LocalIs
<1>4. QED
  BY <1>2, <1>3 DEF ReaderOf, Reads, Answers

ArrivalInv == EditsInv /\ ReaderInv

LEMMA ArrivalInvariant == Spec => []ArrivalInv
<1>1. Init => ArrivalInv
  BY TypeInit, FlightInit, LocalInit, PageInit, StreamInit, DeleteInit, EditsInit, ReaderInit
  DEF ArrivalInv, EditsInv, StreamsInv, ShownInv
<1>2. ArrivalInv /\ [Next]_vars => ArrivalInv'
  <2>1. SUFFICES ASSUME ArrivalInv, [Next]_vars PROVE ArrivalInv'
    OBVIOUS
  <2>2. ShownInv /\ TypeInv /\ FlightInv /\ LocalInv /\ PageInv /\ StreamInv /\ DeleteInv /\ FreshInv /\ OrderInv
    BY <2>1 DEF ArrivalInv, EditsInv, StreamsInv, ShownInv
  <2>3. TypeInv' /\ FlightInv' /\ LocalInv'
    BY <2>1, <2>2, TypeStep, FlightStep, LocalStep
  <2>4. PageInv' /\ StreamInv' /\ DeleteInv'
    BY <2>1, <2>2, PageStep, StreamStep, DeleteStep
  <2>5. FreshInv' /\ OrderInv'
    BY <2>1, <2>2, FreshStep, OrderStep
  <2>6. ReaderInv'
    BY <2>1, ReaderStep DEF ArrivalInv
  <2>7. QED
    BY <2>3, <2>4, <2>5, <2>6 DEF ArrivalInv, EditsInv, StreamsInv, ShownInv
<1>3. QED
  BY <1>1, <1>2, PTL DEF Spec

\* With nothing to be announced, the envelope of the row is the last that the log
\* announces, and nothing comes after it.
LEMMA RowLast ==
    ASSUME TypeInv, FreshInv, OrderInv, NEW d \in Devices, Straight(d), NEW e, Known(e),
           \A c \in Devices : job[c].kind = "none", Before(row.env, e)
    PROVE  e = row.env
<1>1. ~Pends(row.env) /\ ~Pends(e)
  BY DEF Pends
<1>2. \/ row.env = 1 /\ Edits = {}
      \/ \E i \in Edits : log[i].env = row.env /\ \A j \in Edits : j <= i
  BY <1>1 DEF OrderInv, InOrder, Straight
<1>3. CASE row.env = 1 /\ Edits = {}
  BY <1>1, <1>3 DEF Known, Logged
<1>4. CASE \E i \in Edits : log[i].env = row.env /\ \A j \in Edits : j <= i
  <2>1. PICK i \in Edits : log[i].env = row.env /\ \A j \in Edits : j <= i
    BY <1>4
  <2>2. row.env # 1 /\ i \in Nat
    BY <2>1, EditsAre
  <2>3. SUFFICES ASSUME e # row.env PROVE FALSE
    OBVIOUS
  <2>4. PICK k \in Edits : log[k].env = row.env /\ Precedes(k, e)
    BY <2>2, <2>3 DEF Before
  <2>5. k = i
    BY <2>1, <2>4 DEF FreshInv
  <2>6. PICK j \in Edits : log[j].env = e
    BY <1>1, <2>4 DEF Precedes, Known, Logged
  <2>7. i < j /\ j <= i /\ j \in Nat
    BY <2>1, <2>4, <2>5, <2>6, EditsAre DEF Precedes
  <2>8. QED
    BY <2>2, <2>7
<1>5. QED
  BY <1>2, <1>3, <1>4

\* A reader that has read its stream to the end shows the text of the row: whatever
\* pushes were lost, pages, pushes and answers mixed and prekeys used, as long as it
\* opened no later edit before an earlier one, no two devices' edits crossed and the
\* server did not crash before announcing one (handleEditMessageResponse,
\* decryptEditContent and ingestSyncEvents together).
THEOREM EditsReachReaders == Spec => []EditsArrive
<1>1. ASSUME ArrivalInv, NEW d \in Readers, CaughtUp(d), pruned = 0, ~row.deleted,
             slips[d] \cap {"overtaken", "raced", "unannounced"} = {}
      PROVE  store[d].has /\ store[d].text = made[row.env].text
  <2>0. d \in Devices /\ UserOf(d) = "reader" /\ Straight(d)
    BY <1>1, EditNumbers DEF Straight
  <2>1. /\ TypeInv /\ FreshInv /\ OrderInv /\ StreamsInv /\ Reads(Local(d)) /\ Plain(d, Local(d))
        /\ \A c \in Devices : job[c].kind = "none"
    BY <1>1, <2>0 DEF ArrivalInv, EditsInv, StreamsInv, ShownInv, ReaderInv, ReaderOf, DeleteInv,
       Undeleted, CaughtUp, Quiet
  <2>2. PICK l : l = Local(d) /\ l.row = store[d]
    BY <2>0, <2>1, LocalIs
  <2>3. \A i \in OwnEvents(d, 0, Len(log)) : SeenEvent(d, i, l)
    BY <1>1, <2>0, <2>1, <2>2, AllSeen DEF CaughtUp
  <2>4. l.row.has
    BY <2>0, <2>1, <2>3, MessageAt DEF SeenEvent
  <2>5. l.row.text # 0 /\ l.row.text = l.cache
    BY <1>1, <2>1, <2>2, <2>4 DEF Plain, GoodLocal
  <2>6. PICK e \in l.used : l.cache = made[e].text /\ \A a \in l.used : Before(a, e)
    BY <2>1, <2>2, <2>5 DEF Reads
  <2>7. ASSUME NEW i \in Edits PROVE log[i].env \in l.used
    <3>1. i \in OwnEvents(d, 0, Len(log)) /\ log[i].kind = "edit"
      BY <2>0, <2>7, Lengths DEF Edits, OwnEvents
    <3>2. QED
      BY <1>1, <2>3, <3>1 DEF SeenEvent
  <2>8. Before(row.env, e) \/ Edits = {}
    <3>1. ~Pends(row.env)
      BY <2>1 DEF Pends
    <3>2. \/ row.env = 1 /\ Edits = {}
          \/ \E i \in Edits : log[i].env = row.env
      BY <2>0, <2>1, <3>1 DEF OrderInv, InOrder, Straight
    <3>3. QED
      BY <2>6, <2>7, <3>2
  <2>9. Known(e)
    BY <2>1, <2>2, <2>6 DEF Reads
  <2>10. e = row.env
    <3>1. Before(row.env, e)
      <4>1. SUFFICES ASSUME Edits = {} PROVE row.env = 1
        BY <2>8 DEF Before
      <4>2. ~Pends(row.env)
        BY <2>1 DEF Pends
      <4>3. QED
        BY <2>0, <2>1, <4>1, <4>2 DEF OrderInv, InOrder, Straight
    <3>2. QED
      BY <2>0, <2>1, <2>9, <3>1, RowLast
  <2>11. QED
    BY <2>2, <2>4, <2>5, <2>6, <2>10
<1>2. ArrivalInv => EditsArrive
  BY <1>1 DEF EditsArrive
<1>3. QED
  BY <1>2, ArrivalInvariant, PTL
=============================================================================
