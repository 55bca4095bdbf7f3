---------------------------- MODULE OutboxProofs ----------------------------
(***************************************************************************)
(* Outbox, for any number of messages, connections and accounts: types, no *)
(* message stored twice, none lost, none taken for in flight in vain; and, *)
(* with one account, that ReliableSend is implemented.                     *)
(*                                                                         *)
(* The invariant OutboxInv says which request, operation or answer stands  *)
(* for what the client has in flight, that an answer that confirms a       *)
(* message tells the truth, and that what is in memory is on disk too.     *)
(***************************************************************************)
EXTENDS Outbox, FiniteSetTheorems, FunctionTheorems, TLAPS

-----------------------------------------------------------------------------
(***************************************************************************)
(* InOrder and Without.                                                    *)
(***************************************************************************)

Rank(D, i) == Cardinality({j \in D : j < i})

LEMMA RankGrows ==
    ASSUME NEW D \in SUBSET Nat, IsFiniteSet(D), NEW i \in D, NEW k \in D, i < k
    PROVE  Rank(D, i) < Rank(D, k)
<1> DEFINE I == {j \in D : j < i}
           K == {j \in D : j < k}
<1>1. i \notin I /\ i \in K
  OBVIOUS
<1>2. \A j \in D : j < i => j < k
  OBVIOUS
<1>3. I \subseteq K /\ K \subseteq D
  BY <1>2
<1>4. IsFiniteSet(K) /\ Cardinality(K) \in Nat
  BY <1>3, FS_Subset, FS_CardinalityType
<1>5. /\ Cardinality(I) \in Nat /\ Cardinality(I) <= Cardinality(K)
      /\ Cardinality(I) = Cardinality(K) => I = K
  BY <1>3, <1>4, FS_Subset, FS_CardinalityType
<1>6. Cardinality(I) < Cardinality(K)
  BY <1>1, <1>4, <1>5
<1>7. QED
  BY <1>6 DEF Rank

LEMMA RankRange ==
    ASSUME NEW D \in SUBSET Nat, IsFiniteSet(D), NEW i \in D
    PROVE  Rank(D, i) + 1 \in 1 .. Cardinality(D)
<1> DEFINE I == {j \in D : j < i}
<1>1. I \subseteq D /\ i \notin I
  OBVIOUS
<1>2. /\ Cardinality(I) \in Nat /\ Cardinality(I) <= Cardinality(D)
      /\ Cardinality(D) \in Nat
      /\ Cardinality(I) = Cardinality(D) => I = D
  BY <1>1, FS_Subset, FS_CardinalityType
<1>3. Cardinality(I) < Cardinality(D)
  BY <1>1, <1>2
<1>4. QED
  BY <1>2, <1>3 DEF Rank

\* Two messages never have the same rank, so every rank has a message.
LEMMA RankReached ==
    ASSUME NEW D \in SUBSET Nat, IsFiniteSet(D), NEW k \in 1 .. Cardinality(D)
    PROVE  \E i \in D : Rank(D, i) = k - 1
<1> SUFFICES ASSUME \A i \in D : Rank(D, i) # k - 1
             PROVE  FALSE
  OBVIOUS
<1> DEFINE f == [i \in D |-> Rank(D, i) + 1]
           T == (1 .. Cardinality(D)) \ {k}
<1>1. Cardinality(D) \in Nat
  BY FS_CardinalityType
<1>2. \A i \in D : Rank(D, i) + 1 \in T
  <2> TAKE i \in D
  <2>1. Rank(D, i) + 1 \in 1 .. Cardinality(D) /\ Rank(D, i) \in Nat
    <3>1. {j \in D : j < i} \subseteq D
      OBVIOUS
    <3>2. Rank(D, i) \in Nat
      BY <3>1, FS_Subset, FS_CardinalityType DEF Rank
    <3>3. QED
      BY <3>2, RankRange
  <2>2. Rank(D, i) + 1 # k
    BY <1>1, <2>1
  <2>3. QED
    BY <2>1, <2>2
<1>3. \A i, j \in D : Rank(D, i) + 1 = Rank(D, j) + 1 => i = j
  <2> SUFFICES ASSUME NEW i \in D, NEW j \in D, Rank(D, i) + 1 = Rank(D, j) + 1, i # j
               PROVE  FALSE
    OBVIOUS
  <2>1. i < j \/ j < i
    OBVIOUS
  <2>2. Rank(D, i) \in Nat /\ Rank(D, j) \in Nat
    <3>1. {n \in D : n < i} \subseteq D /\ {n \in D : n < j} \subseteq D
      OBVIOUS
    <3>2. QED
      BY <3>1, FS_Subset, FS_CardinalityType DEF Rank
  <2>3. Rank(D, i) < Rank(D, j) \/ Rank(D, j) < Rank(D, i)
    BY <2>1, RankGrows
  <2>4. QED
    BY <2>2, <2>3
<1>4. f \in Injection(D, T)
  BY <1>2, <1>3, Fun_IsInj
<1>5. /\ IsFiniteSet(1 .. Cardinality(D))
      /\ Cardinality(1 .. Cardinality(D)) = Cardinality(D)
  BY <1>1, FS_Interval
<1>6. IsFiniteSet(T) /\ Cardinality(T) = Cardinality(D) - 1
  BY <1>1, <1>5, FS_RemoveElement
<1>7. Cardinality(D) <= Cardinality(T)
  BY <1>4, <1>6, FS_Injection
<1>8. QED
  BY <1>1, <1>6, <1>7

\* InOrder lists the messages of a set, all of them.
LEMMA InOrderLists ==
    ASSUME NEW D \in SUBSET Nat, IsFiniteSet(D)
    PROVE  /\ InOrder(D) \in [1 .. Cardinality(D) -> D]
           /\ Range(InOrder(D)) = D
           /\ Cardinality(D) \in Nat
<1> DEFINE n == Cardinality(D)
<1>1. n \in Nat
  BY FS_CardinalityType
<1>2. \A k \in 1 .. n : /\ InOrder(D)[k] \in D
                        /\ Rank(D, InOrder(D)[k]) = k - 1
  <2> TAKE k \in 1 .. n
  <2>1. \E i \in D : Cardinality({j \in D : j < i}) = k - 1
    BY RankReached DEF Rank
  <2>2. InOrder(D)[k] = CHOOSE i \in D : Cardinality({j \in D : j < i}) = k - 1
    BY DEF InOrder
  <2>3. QED
    BY <2>1, <2>2 DEF Rank
<1>3. InOrder(D) \in [1 .. n -> D]
  BY <1>2 DEF InOrder
<1>4. ASSUME NEW i \in D
      PROVE  i \in Range(InOrder(D))
  <2>1. PICK k \in 1 .. n : k = Rank(D, i) + 1
    BY RankRange
  <2>2. Rank(D, i) \in Nat
    <3>1. {j \in D : j < i} \subseteq D
      OBVIOUS
    <3>2. QED
      BY <3>1, FS_Subset, FS_CardinalityType DEF Rank
  <2>3. InOrder(D)[k] \in D /\ Rank(D, InOrder(D)[k]) = Rank(D, i)
    BY <1>2, <2>1, <2>2
  <2>4. PICK j \in D : j = InOrder(D)[k]
    BY <2>3
  <2>5. ~(i < j) /\ ~(j < i)
    <3>1. i < j => Rank(D, i) < Rank(D, j)
      BY RankGrows
    <3>2. j < i => Rank(D, j) < Rank(D, i)
      BY RankGrows
    <3>3. QED
      BY <2>2, <2>3, <2>4, <3>1, <3>2
  <2>6. i = j
    BY <2>5
  <2>7. QED
    BY <1>3, <2>4, <2>6 DEF Range
<1>5. QED
  BY <1>1, <1>3, <1>4 DEF Range

\* Without takes the messages of S out of a sequence and keeps the others.
LEMMA WithoutTakesOut ==
    ASSUME NEW T, NEW box \in Seq(T), NEW S
    PROVE  /\ Without(box, S) \in Seq(T)
           /\ Range(Without(box, S)) = Range(box) \ S
<1> DEFINE D == {n \in DOMAIN box : box[n] \notin S}
           kept == InOrder(D)
<1>1. D \subseteq 1 .. Len(box) /\ D \in SUBSET Nat /\ DOMAIN box = 1 .. Len(box)
  OBVIOUS
<1>2. IsFiniteSet(D)
  <2>1. IsFiniteSet(1 .. Len(box))
    BY FS_Interval
  <2>2. QED
    BY <1>1, <2>1, FS_Subset
<1>3. /\ kept \in [1 .. Cardinality(D) -> D] /\ Range(kept) = D
      /\ Cardinality(D) \in Nat
  BY <1>1, <1>2, InOrderLists
<1>4. Without(box, S) = [k \in DOMAIN kept |-> box[kept[k]]]
  BY DEF Without
<1> HIDE DEF kept
<1>5. /\ DOMAIN kept = 1 .. Cardinality(D)
      /\ \A k \in 1 .. Cardinality(D) : kept[k] \in D /\ box[kept[k]] \in T \ S
  BY <1>1, <1>3
<1>6. Without(box, S) \in Seq(T)
  BY <1>3, <1>4, <1>5
<1>7. Range(Without(box, S)) \subseteq Range(box) \ S
  BY <1>1, <1>4, <1>5 DEF Range
<1>8. ASSUME NEW i \in Range(box) \ S
      PROVE  i \in Range(Without(box, S))
  <2>1. PICK n \in D : box[n] = i
    BY <1>1 DEF Range
  <2>2. PICK k \in DOMAIN kept : kept[k] = n
    BY <1>3, <2>1 DEF Range
  <2>3. QED
    BY <1>4, <2>1, <2>2 DEF Range
<1>9. QED
  BY <1>6, <1>7, <1>8

-----------------------------------------------------------------------------
(***************************************************************************)
(* What sequences contain.                                                 *)
(***************************************************************************)
LEMMA RangeOf ==
    ASSUME NEW T, NEW s \in Seq(T)
    PROVE  Range(s) \subseteq T /\ Range(<<>>) = {}
BY DEF Range

LEMMA RangeAppend ==
    ASSUME NEW T, NEW s \in Seq(T), NEW x \in T
    PROVE  Append(s, x) \in Seq(T) /\ Range(Append(s, x)) = Range(s) \cup {x}
<1>1. /\ Append(s, x) \in Seq(T) /\ DOMAIN Append(s, x) = DOMAIN s \cup {Len(s) + 1}
      /\ Append(s, x)[Len(s) + 1] = x /\ Len(s) + 1 \notin DOMAIN s
      /\ \A n \in DOMAIN s : Append(s, x)[n] = s[n]
  OBVIOUS
<1>2. QED
  BY <1>1 DEF Range

LEMMA SeqIsFunction ==
    ASSUME NEW T, NEW s \in Seq(T)
    PROVE  s = [n \in DOMAIN s |-> s[n]]
OBVIOUS

LEMMA RangeTail ==
    ASSUME NEW T, NEW s \in Seq(T), s # <<>>
    PROVE  /\ Tail(s) \in Seq(T) /\ Head(s) \in T /\ Head(s) \in Range(s)
           /\ Range(Tail(s)) \subseteq Range(s)
           /\ Range(s) \subseteq Range(Tail(s)) \cup {Head(s)}
<1>1. /\ Tail(s) \in Seq(T) /\ Head(s) \in T /\ Head(s) = s[1] /\ 1 \in DOMAIN s
      /\ \A n \in DOMAIN Tail(s) : n + 1 \in DOMAIN s /\ Tail(s)[n] = s[n + 1]
  OBVIOUS
<1>2. \A n \in DOMAIN s : n # 1 => n - 1 \in DOMAIN Tail(s) /\ Tail(s)[n - 1] = s[n]
  OBVIOUS
<1>3. QED
  BY <1>1, <1>2 DEF Range

LEMMA RangeCat ==
    ASSUME NEW T, NEW s \in Seq(T), NEW t \in Seq(T)
    PROVE  s \o t \in Seq(T) /\ Range(s \o t) = Range(s) \cup Range(t)
<1>1. /\ s \o t \in Seq(T) /\ DOMAIN (s \o t) = 1 .. Len(s) + Len(t)
      /\ DOMAIN s = 1 .. Len(s) /\ DOMAIN t = 1 .. Len(t) /\ Len(s) \in Nat /\ Len(t) \in Nat
      /\ \A n \in 1 .. Len(s) : (s \o t)[n] = s[n] /\ n \in 1 .. Len(s) + Len(t)
      /\ \A n \in 1 .. Len(t) :
            (s \o t)[Len(s) + n] = t[n] /\ Len(s) + n \in 1 .. Len(s) + Len(t)
  OBVIOUS
<1>2. Range(s) \cup Range(t) \subseteq Range(s \o t)
  BY <1>1 DEF Range
<1>3. \A n \in 1 .. Len(s) + Len(t) :
         \/ n \in 1 .. Len(s)
         \/ n - Len(s) \in 1 .. Len(t) /\ (s \o t)[n] = t[n - Len(s)]
  BY <1>1
<1>4. Range(s \o t) \subseteq Range(s) \cup Range(t)
  BY <1>1, <1>3 DEF Range
<1>5. QED
  BY <1>1, <1>2, <1>4

-----------------------------------------------------------------------------
(***************************************************************************)
(* The inductive invariant.                                                *)
(***************************************************************************)
Requests == [kind : Kinds, item : 0 .. MaxItem]
Replies == [kind : Kinds, code : {"ok", "failed", "invalid", "refused"},
            item : 0 .. MaxItem, keys : SUBSET Items]
Ops == [step : {"idle", "insert", "announce"}, item : 0 .. MaxItem,
        sender : Accounts \cup {NoUser}, row : Nat]
Rows == [sender : Accounts, key : Items]

ClientTyped ==
    /\ user \in Accounts \cup {NoUser} /\ authed \in BOOLEAN
    /\ conn \in 0 .. MaxConn /\ nextConn \in 1 .. MaxConn + 1
    /\ outbox \in Seq(Items) /\ sending \subseteq Items
    /\ replies \in Seq(Replies) /\ queue \in [Conns -> Seq(Requests)]
    /\ disk \in [Accounts -> SUBSET Items]

SlotTyped ==
    /\ fetching \in BOOLEAN /\ backoff \in BOOLEAN /\ edit \in BOOLEAN /\ missed \in BOOLEAN
    /\ timers \in [TimerKinds -> 0 .. MaxTimer] /\ edits \in Nat

ServerTyped ==
    /\ account \in [Conns -> Accounts \cup {NoUser}]
    /\ op \in [Conns -> Ops]
    /\ rows \in Seq(Rows) /\ announced \subseteq DOMAIN rows

HistoryTyped ==
    /\ composer \in [Items -> Accounts \cup {NoUser}]
    /\ discarded \subseteq Items /\ refused \in BOOLEAN

\* A connected client that is not logged in has logged out: nothing is under
\* way.  What a connection does, it does for the user who is logged in on it.
Linked ==
    /\ conn < nextConn
    /\ authed => user # NoUser /\ conn # 0
    /\ conn = 0 => replies = <<>> /\ sending = {}
    /\ conn # 0 /\ ~authed =>
          user = NoUser /\ queue[conn] = <<>> /\ op[conn] = Idle /\ replies = <<>>
    /\ conn # 0 => /\ account[conn] \in {NoUser, user}
                   /\ op[conn] # Idle => op[conn].sender = user

\* Connections that do not exist yet.
Unused == \A c \in Conns : c >= nextConn =>
    queue[c] = <<>> /\ op[c] = Idle /\ account[c] = NoUser

\* What is asked for, and what the handlers work on, has been composed; what is
\* about to be announced is the row of the message.
OpFits(c) ==
    \/ op[c] = Idle
    \/ /\ op[c].step \in {"insert", "announce"}
       /\ op[c].item \in Composed /\ op[c].sender \in Accounts
       /\ op[c].step = "announce" => op[c].row \in Stored(op[c].sender, op[c].item)

Asked == \A c \in Conns :
    /\ \A r \in Range(queue[c]) : r.kind = "send" => r.item \in Composed
    /\ OpFits(c)

\* A message on disk is on its composer's, and is not given up; what is in
\* memory only is.
Kept ==
    /\ \A a \in Accounts : \A i \in disk[a] : composer[i] = a /\ i \notin discarded
    /\ \A i \in Range(outbox) :
          i \in discarded \/ (user # NoUser /\ i \in disk[user])
    /\ discarded \subseteq Composed

\* Whatever confirms a message to the client is true.
True(r) ==
    /\ r.kind = "sync" => \A i \in r.keys : Stored(user, i) # {}
    /\ r.kind = "send" /\ r.code = "ok" => Stored(user, r.item) # {}

Confirmed == \A r \in Range(replies) : True(r)

\* The answer that tells the client that its session is over.
Invalid == \E r \in Range(replies) : r.code = "invalid"

\* What is in flight is asked for, worked on or answered; or a request was
\* refused, or the session is over.
Answering(r, i) == r.kind = "send" /\ r.code \in {"ok", "failed"} /\ r.item = i

Pending(i) ==
    \/ Request("send", i) \in Range(queue[conn])
    \/ op[conn] # Idle /\ op[conn].item = i
    \/ \E r \in Range(replies) : Answering(r, i)

Tracked ==
    /\ \A i \in sending : refused \/ Invalid \/ Pending(i)
    /\ Invalid => account[conn] = NoUser

OutboxInv ==
    /\ ClientTyped /\ ServerTyped /\ HistoryTyped
    /\ Linked /\ Unused /\ Asked /\ Kept /\ Confirmed /\ Tracked
    /\ StoredOnce /\ NothingLost

LEMMA TypeParts == TypeOK <=> ClientTyped /\ SlotTyped /\ ServerTyped /\ HistoryTyped
<1>1. {fetching, backoff, edit, missed} \subseteq BOOLEAN
         <=> /\ fetching \in BOOLEAN /\ backoff \in BOOLEAN
             /\ edit \in BOOLEAN /\ missed \in BOOLEAN
  OBVIOUS
<1>2. QED
  BY <1>1, Zenon DEF TypeOK, ClientTyped, SlotTyped, ServerTyped, HistoryTyped, Requests,
                     Replies, Ops, Rows

LEMMA OutboxNumbers ==
    /\ MaxItem \in Nat /\ MaxConn \in Nat
    /\ Items \subseteq Nat /\ IsFiniteSet(Items)
    /\ Items \subseteq 0 .. MaxItem /\ 0 \in 0 .. MaxItem
    /\ \A c \in Conns : c \in Nat /\ c # 0
    /\ NoUser \notin Accounts
<1>1. MaxItem \in Nat /\ MaxConn \in Nat /\ NoUser \notin Accounts
  BY OutboxConstants
<1>2. IsFiniteSet(Items)
  BY <1>1, FS_Interval DEF Items
<1>3. QED
  BY <1>1, <1>2 DEF Items, Conns

-----------------------------------------------------------------------------
(***************************************************************************)
(* What one server thread does.                                            *)
(***************************************************************************)

\* Rows are only added.
RowsGrow == \A a, i : Stored(a, i) \subseteq Stored(a, i)'

\* The handler of connection c works on its own queue, operation and account,
\* and answers the client only when the client is still there.
LEMMA ServerStays ==
    ASSUME OutboxInv, NEW c \in Conns,
           UNCHANGED <<clientVars, nextConn, composer, discarded>>,
           ServerTyped', StoredOnce', RowsGrow,
           replies' \in Seq(Replies), queue' \in [Conns -> Seq(Requests)],
           refused' \in BOOLEAN, refused => refused',
           c < nextConn, c = conn => authed,
           \A d \in Conns \ {c} :
              queue'[d] = queue[d] /\ op'[d] = op[d] /\ account'[d] = account[d],
           Range(queue'[c]) \subseteq Range(queue[c]),
           account'[c] \in {account[c], NoUser},
           OpFits(c)', c = conn /\ op'[c] # Idle => op'[c].sender = user,
           c # conn => replies' = replies,
           Range(replies) \subseteq Range(replies'),
           \A r \in Range(replies') :
              r \in Range(replies) \/ (True(r)' /\ (r.code = "invalid" => account'[c] = NoUser)),
           c = conn => \A i \in sending : Pending(i) => refused' \/ Invalid' \/ Pending(i)'
    PROVE  OutboxInv'
<1>1. /\ ClientTyped /\ ServerTyped /\ HistoryTyped /\ Linked /\ Unused /\ Asked
      /\ Kept /\ Confirmed /\ Tracked /\ StoredOnce /\ NothingLost
  BY DEF OutboxInv
<1>2. /\ user' = user /\ authed' = authed /\ conn' = conn
      /\ outbox' = outbox
      /\ sending' = sending /\ disk' = disk
      /\ nextConn' = nextConn /\ composer' = composer /\ discarded' = discarded
  BY DEF clientVars, fetchVars
<1>3. ClientTyped' /\ HistoryTyped'
  BY <1>1, <1>2 DEF ClientTyped, HistoryTyped
<1>4. Composed' = Composed
  BY <1>2 DEF Composed
<1>5. conn \in Conns \/ conn = 0
  BY <1>1 DEF ClientTyped, Conns
<1>6. Linked'
  <2>1. conn < nextConn /\ (authed => user # NoUser /\ conn # 0)
        /\ (conn = 0 => replies = <<>> /\ sending = {})
    BY <1>1 DEF Linked
  <2>2. conn = 0 => c # conn /\ replies' = <<>>
    BY <2>1, OutboxNumbers
  <2>3. ASSUME conn # 0, ~authed
        PROVE  user = NoUser /\ queue'[conn] = <<>> /\ op'[conn] = Idle /\ replies' = <<>>
    <3>1. user = NoUser /\ queue[conn] = <<>> /\ op[conn] = Idle /\ replies = <<>>
      BY <1>1, <2>3 DEF Linked
    <3>2. conn \in Conns \ {c}
      BY <1>5, <2>3
    <3>3. QED
      BY <3>1, <3>2
  <2>4. ASSUME conn # 0
        PROVE  /\ account'[conn] \in {NoUser, user}
               /\ op'[conn] # Idle => op'[conn].sender = user
    <3>1. /\ account[conn] \in {NoUser, user}
          /\ op[conn] # Idle => op[conn].sender = user
      BY <1>1, <2>4 DEF Linked
    <3>2. CASE conn = c
      BY <3>1, <3>2
    <3>3. CASE conn # c
      BY <1>5, <2>4, <3>1, <3>3
    <3>4. QED
      BY <3>2, <3>3
  <2>5. QED
    BY <1>2, <2>1, <2>2, <2>3, <2>4 DEF Linked
<1>7. Unused'
  <2> SUFFICES ASSUME NEW d \in Conns, d >= nextConn
               PROVE  queue'[d] = <<>> /\ op'[d] = Idle /\ account'[d] = NoUser
    BY <1>2 DEF Unused
  <2>1. queue[d] = <<>> /\ op[d] = Idle /\ account[d] = NoUser
    BY <1>1 DEF Unused
  <2>2. d # c
    <3>1. d \in Nat /\ c \in Nat /\ nextConn \in Nat
      BY <1>1, OutboxNumbers DEF ClientTyped
    <3>2. QED
      BY <3>1
  <2>3. QED
    BY <2>1, <2>2
<1>8. Asked'
  <2> SUFFICES ASSUME NEW d \in Conns
               PROVE  /\ \A r \in Range(queue'[d]) : r.kind = "send" => r.item \in Composed
                      /\ OpFits(d)'
    BY <1>4 DEF Asked
  <2>1. \A r \in Range(queue[d]) : r.kind = "send" => r.item \in Composed
    BY <1>1 DEF Asked
  <2>2. CASE d = c
    BY <2>1, <2>2
  <2>3. CASE d # c
    <3>1. queue'[d] = queue[d] /\ op'[d] = op[d] /\ OpFits(d)
      BY <1>1, <2>3 DEF Asked
    <3>2. PICK a, i : a = op[d].sender /\ i = op[d].item
      OBVIOUS
    <3>3. Stored(a, i) \subseteq Stored(a, i)'
      BY DEF RowsGrow
    <3>4. OpFits(d)'
      BY <1>4, <3>1, <3>2, <3>3 DEF OpFits, Stored
    <3>5. QED
      BY <2>1, <3>1, <3>4
  <2>4. QED
    BY <2>2, <2>3
<1>9. Kept'
  BY <1>1, <1>2, <1>4 DEF Kept
<1>10. Confirmed'
  <2> SUFFICES ASSUME NEW r \in Range(replies)
               PROVE  True(r)'
    BY DEF Confirmed
  <2>1. True(r)
    BY <1>1 DEF Confirmed
  <2>2. QED
    BY <1>2, <2>1 DEF True, RowsGrow, Stored
<1>11. Tracked'
  <2>1. Invalid' => account'[conn] = NoUser
    <3>1. CASE conn = c
      <4>1. \A r \in Range(replies') :
               r.code = "invalid" => r \in Range(replies) \/ account'[c] = NoUser
        OBVIOUS
      <4>2. Invalid => account[conn] = NoUser
        BY <1>1 DEF Tracked
      <4>3. QED
        BY <3>1, <4>1, <4>2 DEF Invalid
    <3>2. CASE conn # c
      <4>1. replies' = replies /\ (Invalid => account[conn] = NoUser)
        BY <1>1, <3>2 DEF Tracked
      <4>2. Invalid' => conn # 0
        <5>1. conn = 0 => replies' = <<>>
          BY <1>1, <4>1 DEF Linked
        <5>2. QED
          BY <5>1 DEF Invalid, Range
      <4>3. Invalid' => account'[conn] = account[conn]
        BY <1>5, <3>2, <4>2
      <4>4. QED
        BY <4>1, <4>3 DEF Invalid
    <3>3. QED
      BY <3>1, <3>2
  <2>2. ASSUME NEW i \in sending
        PROVE  refused' \/ Invalid' \/ Pending(i)'
    <3>1. refused \/ Invalid \/ Pending(i)
      BY <1>1 DEF Tracked
    <3>2. Invalid => Invalid'
      BY DEF Invalid
    <3>3. CASE Pending(i)
      <4>1. CASE c = conn
        BY <3>3, <4>1
      <4>2. CASE c # conn
        <5>1. conn # 0
          BY <1>1 DEF Linked
        <5>2. queue'[conn] = queue[conn] /\ op'[conn] = op[conn]
          BY <1>5, <4>2, <5>1
        <5>3. QED
          BY <1>2, <3>3, <4>2, <5>2 DEF Pending
      <4>3. QED
        BY <4>1, <4>2
    <3>4. QED
      BY <3>1, <3>2, <3>3
  <2>3. QED
    BY <1>2, <2>1, <2>2 DEF Tracked
<1>12. NothingLost'
  BY <1>1, <1>2, <1>4 DEF NothingLost, RowsGrow
<1>13. QED
  BY <1>3, <1>6, <1>7, <1>8, <1>9, <1>10, <1>11, <1>12 DEF OutboxInv

\* Nothing is under way on a connection that does not exist yet, or on one that
\* is logged out.
LEMMA UnderWay ==
    ASSUME OutboxInv, NEW c \in Conns,
           queue[c] # <<>> \/ op[c] # Idle \/ account[c] # NoUser
    PROVE  /\ c < nextConn
           /\ c = conn /\ (queue[c] # <<>> \/ op[c] # Idle) => authed
<1>1. Unused /\ Linked /\ ClientTyped
  BY DEF OutboxInv
<1>2. c < nextConn
  <2>1. c \in Nat /\ nextConn \in Nat /\ ~(c >= nextConn)
    BY <1>1, OutboxNumbers DEF Unused, ClientTyped
  <2>2. QED
    BY <2>1
<1>3. c # 0
  BY OutboxNumbers
<1>4. QED
  BY <1>1, <1>2, <1>3 DEF Linked

LEMMA AnswerAdds ==
    ASSUME ClientTyped, NEW c, NEW kind, NEW code, NEW i, NEW keys,
           Reply(kind, code, i, keys) \in Replies, Answer(c, kind, code, i, keys)
    PROVE  /\ replies' \in Seq(Replies)
           /\ c = conn => Range(replies') = Range(replies) \cup {Reply(kind, code, i, keys)}
           /\ c # conn => replies' = replies
<1>1. replies \in Seq(Replies)
  BY DEF ClientTyped
<1>2. CASE c = conn
  BY <1>1, <1>2, RangeAppend DEF Answer
<1>3. CASE c # conn
  BY <1>1, <1>3 DEF Answer
<1>4. QED
  BY <1>2, <1>3

LEMMA ServeTakes ==
    ASSUME ClientTyped, NEW c \in Conns, NEW kind, Serve(c, kind)
    PROVE  /\ queue' \in [Conns -> Seq(Requests)]
           /\ \A d \in Conns \ {c} : queue'[d] = queue[d]
           /\ Head(queue[c]) \in Requests /\ Head(queue[c]) \in Range(queue[c])
           /\ Range(queue'[c]) \subseteq Range(queue[c])
           /\ Range(queue[c]) \subseteq Range(queue'[c]) \cup {Head(queue[c])}
           /\ op[c] = Idle /\ queue[c] # <<>> /\ Head(queue[c]).kind = kind
<1>1. /\ op[c] = Idle /\ queue[c] # <<>> /\ Head(queue[c]).kind = kind
      /\ queue' = [queue EXCEPT ![c] = Tail(@)]
  BY DEF Serve
<1>2. queue \in [Conns -> Seq(Requests)] /\ queue[c] \in Seq(Requests)
  BY DEF ClientTyped
<1>3. /\ Tail(queue[c]) \in Seq(Requests) /\ Head(queue[c]) \in Requests
      /\ Head(queue[c]) \in Range(queue[c])
      /\ Range(Tail(queue[c])) \subseteq Range(queue[c])
      /\ Range(queue[c]) \subseteq Range(Tail(queue[c])) \cup {Head(queue[c])}
  BY <1>1, <1>2, RangeTail
<1>4. /\ queue' \in [Conns -> Seq(Requests)] /\ queue'[c] = Tail(queue[c])
      /\ \A d \in Conns \ {c} : queue'[d] = queue[d]
  BY <1>1, <1>2, <1>3
<1>5. QED
  BY <1>1, <1>3, <1>4

\* A request that is answered at once: its handler is idle before and after.
LEMMA AnsweredAtOnce ==
    ASSUME OutboxInv, NEW c \in Conns, NEW kind \in Kinds, Serve(c, kind),
           NEW code \in {"ok", "failed", "invalid", "refused"},
           NEW i \in 0 .. MaxItem, NEW keys \in SUBSET Items,
           Answer(c, kind, code, i, keys),
           UNCHANGED <<account, op, announced, composer, discarded>>,
           refused' \in BOOLEAN, refused => refused',
           kind = "sync" => \A k \in keys : c = conn => Stored(user, k) # {},
           kind = "send" /\ code = "ok" /\ c = conn => Stored(user, i) # {},
           code = "invalid" => account[c] = NoUser,
           code = "refused" /\ c = conn => refused',
           kind = "send" /\ code \in {"ok", "failed"} => i = Head(queue[c]).item
    PROVE  OutboxInv'
<1> DEFINE r == Reply(kind, code, i, keys)
<1>1. ClientTyped /\ ServerTyped /\ StoredOnce /\ Asked
  BY DEF OutboxInv
<1>2. r \in Replies /\ r.kind = kind /\ r.code = code /\ r.item = i /\ r.keys = keys
  BY DEF Reply, Replies
<1> HIDE DEF r
<1>3. /\ replies' \in Seq(Replies)
      /\ c = conn => Range(replies') = Range(replies) \cup {r}
      /\ c # conn => replies' = replies
  BY <1>1, <1>2, AnswerAdds DEF r
<1>4. /\ queue' \in [Conns -> Seq(Requests)]
      /\ \A d \in Conns \ {c} : queue'[d] = queue[d]
      /\ Range(queue'[c]) \subseteq Range(queue[c])
      /\ Range(queue[c]) \subseteq Range(queue'[c]) \cup {Head(queue[c])}
      /\ op[c] = Idle /\ queue[c] # <<>> /\ Head(queue[c]).kind = kind
  BY <1>1, ServeTakes
<1>5. c < nextConn /\ (c = conn => authed)
  BY <1>4, UnderWay
<1>6. UNCHANGED <<clientVars, nextConn, rows>>
  BY DEF Serve
<1>7. /\ account' = account /\ op' = op /\ announced' = announced /\ rows' = rows
      /\ composer' = composer /\ discarded' = discarded
  BY <1>6
<1>8. ServerTyped' /\ StoredOnce' /\ RowsGrow
  BY <1>1, <1>7 DEF ServerTyped, StoredOnce, RowsGrow, Stored
<1>9. OpFits(c)' /\ (c = conn /\ op'[c] # Idle => op'[c].sender = user)
  BY <1>4, <1>7 DEF OpFits
<1>10. user' = user /\ sending' = sending /\ conn' = conn
  BY <1>6 DEF clientVars
<1>11. c = conn => True(r)' /\ (r.code = "invalid" => account'[c] = NoUser)
  BY <1>2, <1>7, <1>10 DEF True, Stored
<1>12. ASSUME c = conn, NEW j \in sending, Pending(j)
       PROVE  refused' \/ Invalid' \/ Pending(j)'
  <2>1. CASE Request("send", j) \in Range(queue[conn])
    <3>1. CASE Request("send", j) = Head(queue[c])
      <4>1. kind = "send" /\ Head(queue[c]).item = j
        BY <1>4, <3>1 DEF Request
      <4>2. r \in Range(replies')
        BY <1>3, <1>12
      <4>3. CASE code \in {"ok", "failed"}
        BY <1>2, <4>1, <4>2, <4>3 DEF Pending, Answering
      <4>4. CASE code = "invalid"
        BY <1>2, <4>2, <4>4 DEF Invalid
      <4>5. CASE code = "refused"
        BY <1>12, <4>5
      <4>6. QED
        BY <4>3, <4>4, <4>5
    <3>2. CASE Request("send", j) # Head(queue[c])
      BY <1>4, <1>10, <1>12, <2>1, <3>2 DEF Pending
    <3>3. QED
      BY <3>1, <3>2
  <2>2. CASE \E q \in Range(replies) : Answering(q, j)
    BY <1>3, <1>12, <2>2 DEF Pending, Answering
  <2>3. QED
    BY <1>4, <1>12, <2>1, <2>2 DEF Pending
<1>13. /\ Range(replies) \subseteq Range(replies')
       /\ \A q \in Range(replies') :
             \/ q \in Range(replies)
             \/ True(q)' /\ (q.code = "invalid" => account'[c] = NoUser)
  BY <1>3, <1>11
<1>14. account'[c] \in {account[c], NoUser}
           /\ \A d \in Conns \ {c} : op'[d] = op[d] /\ account'[d] = account[d]
  BY <1>7
<1>15. QED
  BY <1>3, <1>4, <1>5, <1>6, <1>7, <1>8, <1>9, <1>12, <1>13, <1>14, ServerStays

\* validateSession() or checkReplayProtection() fails.
LEMMA NotServedStep ==
    ASSUME OutboxInv, NEW c \in Conns, NotAuthenticated(c) \/ GuardRefuses(c)
    PROVE  OutboxInv'
<1>1. PICK kind \in Kinds, code \in {"invalid", "refused"} :
         /\ Serve(c, kind) /\ Answer(c, kind, code, 0, {})
         /\ UNCHANGED <<account, op, announced, composer, discarded>>
         /\ code = "invalid" => account[c] = NoUser /\ refused' = refused
         /\ code = "refused" => refused' = (refused \/ c = conn)
  BY DEF NotAuthenticated, GuardRefuses, historyVars
<1>2. 0 \in 0 .. MaxItem /\ {} \in SUBSET Items
  BY OutboxNumbers
<1>3. refused \in BOOLEAN
  BY DEF OutboxInv, HistoryTyped
<1>4. refused' \in BOOLEAN /\ (refused => refused') /\ (code = "refused" /\ c = conn => refused')
  <2>1. CASE code = "invalid"
    <3>1. code # "refused" /\ refused' = refused
      BY <1>1, <2>1
    <3>2. refused' \in BOOLEAN
      BY <1>3, <3>1
    <3>3. refused => refused'
      BY <3>1
    <3>4. QED
      BY <3>1, <3>2, <3>3
  <2>2. CASE code = "refused"
    <3>1. refused' = (refused \/ c = conn)
      BY <1>1, <2>2
    <3>2. QED
      BY <3>1, Zenon
  <2>3. QED
    BY <2>1, <2>2
<1>5. QED
  BY <1>1, <1>2, <1>4, AnsweredAtOnce

\* The account that a handler sees is the user's, if the client is still there.
LEMMA ServedUser ==
    ASSUME OutboxInv, NEW c \in Conns, account[c] # NoUser, c = conn
    PROVE  account[c] = user
BY OutboxNumbers DEF OutboxInv, Linked

\* sync_events answers with what has been stored.
LEMMA SyncStep ==
    ASSUME OutboxInv, NEW c \in Conns, ProcessSyncEvents(c)
    PROVE  OutboxInv'
<1> DEFINE keys == {rows[m].key : m \in {n \in announced : rows[n].sender = account[c]}}
<1>1. /\ Serve(c, "sync") /\ account[c] # NoUser
      /\ UNCHANGED <<account, op, announced, composer, discarded, refused>>
      /\ Answer(c, "sync", "ok", 0, keys)
  BY DEF ProcessSyncEvents, Valid, historyVars
<1>2. /\ rows \in Seq(Rows) /\ announced \subseteq DOMAIN rows /\ refused \in BOOLEAN
  BY DEF OutboxInv, ServerTyped, HistoryTyped
<1>3. \A m \in announced : rows[m] \in Rows /\ m \in DOMAIN rows
  BY <1>2
<1>4. \A k \in keys : k \in Items /\ Stored(account[c], k) # {}
  <2> SUFFICES ASSUME NEW m \in announced, rows[m].sender = account[c]
               PROVE  rows[m].key \in Items /\ Stored(account[c], rows[m].key) # {}
    OBVIOUS
  <2>1. rows[m] \in Rows /\ m \in DOMAIN rows
    BY <1>3
  <2>2. /\ rows[m].key \in Items
        /\ rows[m] = [sender |-> account[c], key |-> rows[m].key]
    BY <2>1 DEF Rows
  <2>3. QED
    BY <2>1, <2>2 DEF Stored
<1> HIDE DEF keys
<1>5. keys \in SUBSET Items /\ 0 \in 0 .. MaxItem
  BY <1>4, OutboxNumbers
<1>6. \A k \in keys : c = conn => Stored(user, k) # {}
  BY <1>1, <1>4, ServedUser
<1>7. "sync" \in Kinds
  BY DEF Kinds
<1>8. QED
  BY <1>1, <1>2, <1>5, <1>6, <1>7, AnsweredAtOnce

LEMMA FetchStep ==
    ASSUME OutboxInv, NEW c \in Conns, NEW code \in {"ok", "failed"},
           ProcessFetchKeys(c, code)
    PROVE  OutboxInv'
<1>1. /\ Serve(c, "fetch") /\ Answer(c, "fetch", code, 0, {})
      /\ UNCHANGED <<account, op, announced, composer, discarded, refused>>
  BY DEF ProcessFetchKeys, Valid, historyVars
<1>2. 0 \in 0 .. MaxItem /\ {} \in SUBSET Items /\ "fetch" \in Kinds /\ refused \in BOOLEAN
  BY OutboxNumbers DEF Kinds, OutboxInv, HistoryTyped
<1>3. QED
  BY <1>1, <1>2, AnsweredAtOnce

LEMMA EditServedStep ==
    ASSUME OutboxInv, NEW c \in Conns, NEW code \in {"ok", "failed"},
           ProcessEditMessage(c, code)
    PROVE  OutboxInv'
<1>1. /\ Serve(c, "edit") /\ Answer(c, "edit", code, 0, {})
      /\ UNCHANGED <<account, op, announced, composer, discarded, refused>>
  BY DEF ProcessEditMessage, Valid, historyVars
<1>2. 0 \in 0 .. MaxItem /\ {} \in SUBSET Items /\ "edit" \in Kinds /\ refused \in BOOLEAN
  BY OutboxNumbers DEF Kinds, OutboxInv, HistoryTyped
<1>3. QED
  BY <1>1, <1>2, AnsweredAtOnce

LEMMA SendRefusedStep ==
    ASSUME OutboxInv, NEW c \in Conns, SendRefused(c)
    PROVE  OutboxInv'
<1>1. /\ Serve(c, "send") /\ Answer(c, "send", "failed", Head(queue[c]).item, {})
      /\ UNCHANGED <<account, op, announced, composer, discarded, refused>>
  BY DEF SendRefused, Valid, historyVars
<1>2. {} \in SUBSET Items /\ "send" \in Kinds /\ refused \in BOOLEAN
  BY DEF Kinds, OutboxInv, HistoryTyped
<1>3. PICK i \in 0 .. MaxItem : i = Head(queue[c]).item
  BY <1>1, ServeTakes DEF OutboxInv, Requests
<1>4. QED
  BY <1>1, <1>2, <1>3, AnsweredAtOnce

\* A message that is there already is acknowledged, another one is taken up.
LEMMA SendCheckStep ==
    ASSUME OutboxInv, NEW c \in Conns, SendCheck(c)
    PROVE  OutboxInv'
<1>1. ClientTyped /\ ServerTyped /\ HistoryTyped /\ StoredOnce /\ Asked /\ Linked
  BY DEF OutboxInv
<1>2. /\ Serve(c, "send") /\ account[c] # NoUser
      /\ UNCHANGED <<account, announced, composer, discarded, refused>>
  BY DEF SendCheck, Valid, historyVars
<1>3. /\ queue' \in [Conns -> Seq(Requests)]
      /\ \A d \in Conns \ {c} : queue'[d] = queue[d]
      /\ Head(queue[c]) \in Requests /\ Head(queue[c]) \in Range(queue[c])
      /\ Range(queue'[c]) \subseteq Range(queue[c])
      /\ Range(queue[c]) \subseteq Range(queue'[c]) \cup {Head(queue[c])}
      /\ op[c] = Idle /\ queue[c] # <<>> /\ Head(queue[c]).kind = "send"
  BY <1>1, <1>2, ServeTakes
<1>4. PICK i \in Composed : i = Head(queue[c]).item
  BY <1>1, <1>3 DEF Asked
<1>5. i \in Items /\ i \in 0 .. MaxItem
  BY OutboxNumbers DEF Composed
<1>6. CASE Stored(account[c], i) # {}
  <2>1. Answer(c, "send", "ok", i, {}) /\ UNCHANGED op
    BY <1>4, <1>6 DEF SendCheck
  <2>2. {} \in SUBSET Items /\ "send" \in Kinds /\ refused \in BOOLEAN
    BY <1>1 DEF Kinds, HistoryTyped
  <2>3. c = conn => Stored(user, i) # {}
    BY <1>2, <1>6, ServedUser
  <2>4. QED
    BY <1>2, <1>4, <1>5, <2>1, <2>2, <2>3, AnsweredAtOnce
<1>7. CASE Stored(account[c], i) = {}
  <2>1. PICK o : o = [step |-> "insert", item |-> i, sender |-> account[c], row |-> 0]
    OBVIOUS
  <2>2. op' = [op EXCEPT ![c] = o] /\ replies' = replies
    BY <1>4, <1>7, <2>1 DEF SendCheck
  <2>3. account[c] \in Accounts
    BY <1>1, <1>2 DEF ServerTyped
  <2>4. /\ o \in Ops /\ o.step = "insert" /\ o.item = i /\ o.sender = account[c]
    BY <1>5, <2>1, <2>3 DEF Ops
  <2>5. o # Idle
    BY <2>4 DEF Idle
  <2>6. /\ op' \in [Conns -> Ops] /\ op'[c] = o
        /\ \A d \in Conns \ {c} : op'[d] = op[d]
    BY <1>1, <2>2, <2>4 DEF ServerTyped
  <2>7. UNCHANGED <<clientVars, nextConn, rows>>
    BY <1>2 DEF Serve
  <2>8. ServerTyped' /\ StoredOnce' /\ RowsGrow
    BY <1>1, <1>2, <2>6, <2>7 DEF ServerTyped, StoredOnce, RowsGrow, Stored
  <2>9. OpFits(c)'
    BY <1>2, <2>3, <2>4, <2>6 DEF OpFits, Composed
  <2>10. c < nextConn /\ (c = conn => authed)
    BY <1>3, UnderWay
  <2>11. c = conn /\ op'[c] # Idle => op'[c].sender = user
    BY <1>2, <2>4, <2>6, ServedUser
  <2>12. ASSUME c = conn, NEW j \in sending, Pending(j)
         PROVE  Pending(j)'
    <3>1. conn' = conn
      BY <2>7 DEF clientVars
    <3>2. CASE Request("send", j) \in Range(queue[conn])
      <4>1. CASE Request("send", j) = Head(queue[c])
        <5>1. i = j
          BY <1>4, <4>1 DEF Request
        <5>2. QED
          BY <2>4, <2>5, <2>6, <2>12, <3>1, <5>1 DEF Pending
      <4>2. CASE Request("send", j) # Head(queue[c])
        BY <1>3, <2>12, <3>1, <3>2, <4>2 DEF Pending
      <4>3. QED
        BY <4>1, <4>2
    <3>3. CASE \E q \in Range(replies) : Answering(q, j)
      BY <2>2, <3>3 DEF Pending, Answering
    <3>4. QED
      BY <1>3, <2>12, <3>2, <3>3 DEF Pending
  <2>13. replies' \in Seq(Replies) /\ refused' \in BOOLEAN /\ (refused => refused')
    BY <1>1, <1>2, <2>2 DEF ClientTyped, HistoryTyped
  <2>14. Range(replies) \subseteq Range(replies') /\ \A q \in Range(replies') : q \in Range(replies)
    BY <2>2
  <2>15. account'[c] \in {account[c], NoUser} /\ \A d \in Conns \ {c} : account'[d] = account[d]
    BY <1>2
  <2>16. QED
    BY <1>2, <1>3, <2>2, <2>6, <2>7, <2>8, <2>9, <2>10, <2>11, <2>12, <2>13, <2>14, <2>15,
       ServerStays
<1>8. QED
  BY <1>6, <1>7

\* A row of the key that is there already is taken for the new one; otherwise
\* there is no row of the key before, and one after.
LEMMA SendInsertStep ==
    ASSUME OutboxInv, NEW c \in Conns, SendInsert(c)
    PROVE  OutboxInv'
<1>1. ClientTyped /\ ServerTyped /\ HistoryTyped /\ StoredOnce /\ Asked /\ Linked
  BY DEF OutboxInv
<1>2. /\ op[c].step = "insert"
      /\ UNCHANGED <<clientVars, replies, nextConn, queue, account, announced>>
      /\ composer' = composer /\ discarded' = discarded /\ refused' = refused
  BY DEF SendInsert, historyVars
<1>3. op[c] # Idle /\ OpFits(c)
  BY <1>1, <1>2 DEF Asked, Idle
<1>4. PICK a \in Accounts, i \in Composed : a = op[c].sender /\ i = op[c].item
  BY <1>3 DEF OpFits
<1>5. i \in Items
  BY DEF Composed
<1>6. PICK row : row = [sender |-> a, key |-> i]
  OBVIOUS
<1>7. PICK m : /\ rows' = IF Stored(a, i) = {} THEN Append(rows, row) ELSE rows
               /\ m \in IF Stored(a, i) = {} THEN {Len(rows) + 1} ELSE Stored(a, i)
               /\ op' = [op EXCEPT ![c].step = "announce", ![c].row = m]
  <2>1. PICK n \in IF Stored(a, i) = {} THEN {Len(rows) + 1} ELSE Stored(a, i) :
           op' = [op EXCEPT ![c].step = "announce", ![c].row = n]
    BY <1>4 DEF SendInsert
  <2>2. rows' = IF Stored(a, i) = {} THEN Append(rows, row) ELSE rows
    BY <1>4, <1>6 DEF SendInsert
  <2>3. QED
    BY <2>1, <2>2
<1>8. /\ rows' \in Seq(Rows) /\ m \in DOMAIN rows' /\ rows'[m] = row
      /\ DOMAIN rows \subseteq DOMAIN rows' /\ \A n \in DOMAIN rows : rows'[n] = rows[n]
      /\ \A n \in DOMAIN rows' : n \in DOMAIN rows \/ (n = m /\ Stored(a, i) = {})
  <2>1. rows \in Seq(Rows) /\ row \in Rows
    BY <1>1, <1>5, <1>6 DEF ServerTyped, Rows
  <2>2. CASE Stored(a, i) = {}
    <3>1. rows' = Append(rows, row) /\ m = Len(rows) + 1
      BY <1>7, <2>2
    <3>2. QED
      BY <2>1, <2>2, <3>1
  <2>3. CASE Stored(a, i) # {}
    <3>1. rows' = rows /\ m \in Stored(a, i)
      BY <1>7, <2>3
    <3>2. m \in DOMAIN rows /\ rows[m] = row
      BY <1>6, <3>1 DEF Stored
    <3>3. QED
      BY <2>1, <3>1, <3>2
  <2>4. QED
    BY <2>2, <2>3
<1>9. RowsGrow
  BY <1>8 DEF RowsGrow, Stored
<1>10. StoredOnce'
  <2> SUFFICES ASSUME NEW p \in DOMAIN rows', NEW q \in DOMAIN rows', rows'[p] = rows'[q]
               PROVE  p = q
    BY DEF StoredOnce
  <2>1. CASE p \in DOMAIN rows /\ q \in DOMAIN rows
    BY <1>1, <1>8, <2>1 DEF StoredOnce
  <2>2. ASSUME NEW n \in DOMAIN rows, rows'[n] = row
        PROVE  Stored(a, i) # {}
    BY <1>6, <1>8, <2>2 DEF Stored
  <2>3. QED
    BY <1>8, <2>1, <2>2
<1>11. PICK o \in Ops : o = op[c]
  BY <1>1 DEF ServerTyped
<1>12. PICK b : b = [o EXCEPT !.step = "announce", !.row = m]
  OBVIOUS
<1>13. m \in Nat
  <2>1. DOMAIN rows' = 1 .. Len(rows') /\ Len(rows') \in Nat
    BY <1>8
  <2>2. QED
    BY <1>8, <2>1
<1>14. b \in Ops /\ b.step = "announce" /\ b.row = m /\ b.item = i /\ b.sender = a
  BY <1>4, <1>11, <1>12, <1>13 DEF Ops
<1>15. op' = [op EXCEPT ![c] = b]
  BY <1>1, <1>7, <1>11, <1>12 DEF ServerTyped
<1>16. /\ op' \in [Conns -> Ops] /\ op'[c] = b
       /\ \A d \in Conns \ {c} : op'[d] = op[d]
  BY <1>1, <1>14, <1>15 DEF ServerTyped
<1>17. ServerTyped'
  BY <1>1, <1>2, <1>8, <1>16 DEF ServerTyped
<1>18. m \in Stored(a, i)'
  BY <1>6, <1>8 DEF Stored
<1>19. OpFits(c)'
  BY <1>2, <1>14, <1>16, <1>18 DEF OpFits, Composed, Stored
<1>20. c < nextConn /\ (c = conn => authed)
  BY <1>3, UnderWay
<1>21. c = conn => op'[c].sender = user
  BY <1>1, <1>3, <1>4, <1>14, <1>16, OutboxNumbers DEF Linked
<1>22. /\ queue' \in [Conns -> Seq(Requests)] /\ replies' \in Seq(Replies)
       /\ refused' \in BOOLEAN /\ (refused => refused')
  BY <1>1, <1>2 DEF ClientTyped, HistoryTyped
<1>23. ASSUME c = conn, NEW j \in sending, Pending(j)
       PROVE  Pending(j)'
  <2>1. op'[conn] # Idle /\ op'[conn].item = op[conn].item /\ conn' = conn
    BY <1>2, <1>4, <1>14, <1>16, <1>23 DEF Idle, clientVars
  <2>2. QED
    BY <1>2, <1>23, <2>1 DEF Pending, Answering
<1>24. QED
  BY <1>2, <1>9, <1>10, <1>16, <1>17, <1>19, <1>20, <1>21, <1>22, <1>23, ServerStays

\* The handler answers and is idle again.
LEMMA SendEnds ==
    ASSUME OutboxInv, NEW c \in Conns, op[c] # Idle, op' = [op EXCEPT ![c] = Idle],
           NEW code \in {"ok", "failed"}, Answer(c, "send", code, op[c].item, {}),
           UNCHANGED <<clientVars, nextConn, queue, account, rows, historyVars>>,
           announced' \subseteq DOMAIN rows,
           code = "ok" => Stored(op[c].sender, op[c].item) # {}
    PROVE  OutboxInv'
<1>1. ClientTyped /\ ServerTyped /\ HistoryTyped /\ StoredOnce /\ Asked /\ Linked
  BY DEF OutboxInv
<1>2. PICK a \in Accounts, i \in Composed : a = op[c].sender /\ i = op[c].item
  BY <1>1 DEF Asked, OpFits
<1>3. PICK r : r = Reply("send", code, i, {})
  OBVIOUS
<1> i \in 0 .. MaxItem
  BY OutboxNumbers DEF Composed
<1> r \in Replies /\ r.kind = "send" /\ r.code = code /\ r.item = i
  BY <1>3 DEF Reply, Replies, Kinds
<1>4. /\ replies' \in Seq(Replies)
      /\ c = conn => Range(replies') = Range(replies) \cup {r}
      /\ c # conn => replies' = replies
  BY <1>1, <1>2, <1>3, AnswerAdds
<1>5. Idle \in Ops
  BY OutboxNumbers DEF Idle, Ops
<1>6. /\ op' \in [Conns -> Ops] /\ op'[c] = Idle
      /\ \A d \in Conns \ {c} : op'[d] = op[d]
  BY <1>1, <1>5 DEF ServerTyped
<1>7. /\ queue' = queue /\ account' = account /\ rows' = rows /\ refused' = refused
      /\ composer' = composer /\ discarded' = discarded /\ conn' = conn /\ user' = user
  BY DEF historyVars, clientVars
<1>8. ServerTyped' /\ StoredOnce' /\ RowsGrow
  BY <1>1, <1>6, <1>7 DEF ServerTyped, StoredOnce, RowsGrow, Stored
<1>9. OpFits(c)'
  BY <1>6 DEF OpFits
<1>10. c < nextConn /\ (c = conn => authed)
  BY UnderWay
<1>11. c = conn => True(r)' /\ r.code # "invalid"
  <2>1. c = conn => a = user
    BY <1>1, <1>2, OutboxNumbers DEF Linked
  <2>2. QED
    BY <1>2, <1>3, <1>7, <2>1 DEF True, Stored
<1>12. ASSUME c = conn, NEW j \in sending, Pending(j)
       PROVE  Pending(j)'
  <2>1. CASE Request("send", j) \in Range(queue[conn])
    BY <1>7, <2>1 DEF Pending
  <2>2. CASE op[conn].item = j
    BY <1>2, <1>3, <1>4, <1>12, <2>2 DEF Pending, Answering
  <2>3. CASE \E q \in Range(replies) : Answering(q, j)
    BY <1>4, <1>12, <2>3 DEF Pending, Answering
  <2>4. QED
    BY <1>12, <2>1, <2>2, <2>3 DEF Pending
<1>13. /\ Range(replies) \subseteq Range(replies')
       /\ \A q \in Range(replies') : q \in Range(replies) \/ (True(q)' /\ q.code # "invalid")
  BY <1>4, <1>11
<1>14. queue' \in [Conns -> Seq(Requests)] /\ refused' \in BOOLEAN /\ (refused => refused')
  BY <1>1, <1>7 DEF ClientTyped, HistoryTyped
<1>15. QED
  BY <1>4, <1>6, <1>7, <1>8, <1>9, <1>10, <1>12, <1>13, <1>14, ServerStays

LEMMA SendFailsStep ==
    ASSUME OutboxInv, NEW c \in Conns, SendFails(c)
    PROVE  OutboxInv'
<1>1. op[c] # Idle
  BY DEF SendFails, Idle
<1>2. announced' \subseteq DOMAIN rows
  BY DEF SendFails, OutboxInv, ServerTyped
<1>3. QED
  BY <1>1, <1>2, SendEnds DEF SendFails

LEMMA SendAnnounceStep ==
    ASSUME OutboxInv, NEW c \in Conns, SendAnnounce(c)
    PROVE  OutboxInv'
<1>1. op[c] # Idle /\ op[c].step = "announce"
  BY DEF SendAnnounce, Idle
<1>2. op[c].row \in Stored(op[c].sender, op[c].item)
  BY <1>1 DEF OutboxInv, Asked, OpFits
<1>3. announced' \subseteq DOMAIN rows
  BY <1>2 DEF SendAnnounce, OutboxInv, ServerTyped, Stored
<1>4. QED
  BY <1>1, <1>2, <1>3, SendEnds DEF SendAnnounce

LEMMA SessionEndsStep ==
    ASSUME OutboxInv, NEW c \in Conns, SessionEnds(c)
    PROVE  OutboxInv'
<1>1. ClientTyped /\ ServerTyped /\ HistoryTyped /\ StoredOnce /\ Asked /\ Linked
  BY DEF OutboxInv
<1>2. /\ account[c] # NoUser /\ account' = [account EXCEPT ![c] = NoUser]
      /\ UNCHANGED <<clientVars, replies, nextConn, queue, op, rows, announced, composer,
                     discarded, refused>>
  BY DEF SessionEnds, historyVars
<1>3. /\ account' \in [Conns -> Accounts \cup {NoUser}] /\ account'[c] = NoUser
      /\ \A d \in Conns \ {c} : account'[d] = account[d]
  BY <1>1, <1>2 DEF ServerTyped
<1>4. ServerTyped' /\ StoredOnce' /\ RowsGrow
  BY <1>1, <1>2, <1>3 DEF ServerTyped, StoredOnce, RowsGrow, Stored
<1>5. OpFits(c)'
  BY <1>1, <1>2 DEF Asked, OpFits, Composed, Stored
<1>6. c < nextConn
  BY <1>2, UnderWay
<1>7. c = conn => authed
  <2>1. c = conn => account[c] = user
    BY <1>2, ServedUser
  <2>2. QED
    BY <1>1, <1>2, <2>1, OutboxNumbers DEF Linked
<1>8. c = conn /\ op'[c] # Idle => op'[c].sender = user
  BY <1>1, <1>2, OutboxNumbers DEF Linked
<1>9. /\ queue' \in [Conns -> Seq(Requests)] /\ replies' \in Seq(Replies)
      /\ refused' \in BOOLEAN /\ (refused => refused')
  BY <1>1, <1>2 DEF ClientTyped, HistoryTyped
<1>10. \A j \in sending : Pending(j) => Pending(j)'
  BY <1>2 DEF Pending, Answering, clientVars
<1>11. QED
  BY <1>2, <1>3, <1>4, <1>5, <1>6, <1>7, <1>8, <1>9, <1>10, ServerStays

-----------------------------------------------------------------------------
(***************************************************************************)
(* What a connected client does.                                           *)
(***************************************************************************)

\* flushOutbox() adds to the queue of the client's connection.
LEMMA FlushAdds ==
    ASSUME ClientTyped, conn' \in Conns, NEW written \in Seq(Requests), NEW f,
           FlushOutbox(written, f)
    PROVE  /\ queue' \in [Conns -> Seq(Requests)]
           /\ \A d \in Conns \ {conn'} : queue'[d] = queue[d]
           /\ Range(queue[conn']) \cup Range(written) \subseteq Range(queue'[conn'])
           /\ \A r \in Range(queue'[conn']) :
                 r \in Range(queue[conn']) \cup Range(written) \/ r.kind = "fetch"
<1> DEFINE fetch == ~f /\ ~backoff' /\ Waiting'
           more == IF fetch THEN <<Request("fetch", 0)>> ELSE <<>>
<1>1. queue' = [queue EXCEPT ![conn'] = @ \o written \o more]
  BY Zenon DEF FlushOutbox
<1>3. more \in Seq(Requests) /\ \A r \in Range(more) : r.kind = "fetch"
  <2>1. Request("fetch", 0) \in Requests /\ Request("fetch", 0).kind = "fetch"
    BY OutboxNumbers DEF Request, Requests, Kinds
  <2> HIDE DEF fetch
  <2>2. more = <<>> \/ more = <<Request("fetch", 0)>>
    OBVIOUS
  <2>3. more \in Seq(Requests)
    BY <2>1, <2>2
  <2>4. \A r \in Range(more) : r.kind = "fetch"
    BY <2>1, <2>2 DEF Range
  <2>5. QED
    BY <2>3, <2>4
<1> HIDE DEF more
<1>4. queue \in [Conns -> Seq(Requests)] /\ queue[conn'] \in Seq(Requests)
  BY DEF ClientTyped
<1>5. /\ queue[conn'] \o written \in Seq(Requests)
      /\ Range(queue[conn'] \o written) = Range(queue[conn']) \cup Range(written)
  BY <1>4, RangeCat
<1>6. /\ (queue[conn'] \o written) \o more \in Seq(Requests)
      /\ Range((queue[conn'] \o written) \o more)
            = Range(queue[conn']) \cup Range(written) \cup Range(more)
  <2>1. PICK q \in Seq(Requests) : q = queue[conn'] \o written
    BY <1>5
  <2>2. q \o more \in Seq(Requests) /\ Range(q \o more) = Range(q) \cup Range(more)
    BY <1>3, RangeCat
  <2>3. QED
    BY <1>5, <2>1, <2>2
<1>7. /\ queue' \in [Conns -> Seq(Requests)]
      /\ queue'[conn'] = (queue[conn'] \o written) \o more
      /\ \A d \in Conns \ {conn'} : queue'[d] = queue[d]
  BY <1>1, <1>4, <1>6
<1>8. QED
  BY <1>3, <1>6, <1>7

\* The client goes on on the same connection: it asks for what is composed, and
\* what it takes for in flight is asked for, or was and is not yet answered.
LEMMA ClientStays ==
    ASSUME OutboxInv, UNCHANGED <<user, authed, conn, nextConn, serverVars, refused>>,
           ClientTyped', HistoryTyped', Kept', NothingLost', Composed \subseteq Composed',
           \A d \in Conns : queue'[d] = queue[d] \/ (d = conn /\ authed),
           conn # 0 =>
              /\ Range(queue[conn]) \subseteq Range(queue'[conn])
              /\ \A r \in Range(queue'[conn]) :
                    r \in Range(queue[conn]) \/ (r.kind = "send" => r.item \in Composed'),
           Range(replies') \subseteq Range(replies), replies = <<>> => replies' = <<>>,
           \A i \in sending' :
              \/ /\ i \in sending
                 /\ \A r \in Range(replies) :
                       Answering(r, i) \/ r.code = "invalid" => r \in Range(replies')
              \/ conn # 0 /\ Request("send", i) \in Range(queue'[conn])
    PROVE  OutboxInv'
<1>1. /\ ClientTyped /\ ServerTyped /\ HistoryTyped /\ Linked /\ Unused /\ Asked
      /\ Kept /\ Confirmed /\ Tracked /\ StoredOnce /\ NothingLost
  BY DEF OutboxInv
<1>2. /\ user' = user /\ authed' = authed /\ conn' = conn /\ nextConn' = nextConn
      /\ account' = account /\ op' = op /\ rows' = rows /\ announced' = announced
      /\ refused' = refused
  BY DEF serverVars
<1>3. ServerTyped' /\ StoredOnce'
  BY <1>1, <1>2 DEF ServerTyped, StoredOnce
<1>4. conn \in Conns \/ conn = 0
  BY <1>1 DEF ClientTyped, Conns
<1>5. Linked'
  <2>1. conn = 0 => sending' = {}
    BY <1>1 DEF Linked
  <2>2. conn # 0 /\ ~authed => queue'[conn] = queue[conn]
    BY <1>4
  <2>3. QED
    BY <1>1, <1>2, <2>1, <2>2 DEF Linked
<1>6. Unused'
  <2> SUFFICES ASSUME NEW d \in Conns, d >= nextConn
               PROVE  queue'[d] = <<>> /\ op[d] = Idle /\ account[d] = NoUser
    BY <1>2 DEF Unused
  <2>1. queue[d] = <<>> /\ op[d] = Idle /\ account[d] = NoUser
    BY <1>1 DEF Unused
  <2>2. d # conn
    <3>1. d \in Nat /\ nextConn \in Nat /\ conn \in Nat /\ conn < nextConn
      BY <1>1, OutboxNumbers DEF ClientTyped, Linked
    <3>2. QED
      BY <3>1
  <2>3. QED
    BY <2>1, <2>2
<1>7. Asked'
  <2> SUFFICES ASSUME NEW d \in Conns
               PROVE  /\ \A r \in Range(queue'[d]) : r.kind = "send" => r.item \in Composed'
                      /\ OpFits(d)'
    BY DEF Asked
  <2>1. /\ \A r \in Range(queue[d]) : r.kind = "send" => r.item \in Composed
        /\ OpFits(d)
    BY <1>1 DEF Asked
  <2>2. OpFits(d)'
    BY <1>2, <2>1 DEF OpFits, Stored
  <2>3. CASE queue'[d] = queue[d]
    BY <2>1, <2>2, <2>3
  <2>4. CASE d = conn
    <3>1. conn # 0
      BY <2>4, OutboxNumbers
    <3>2. QED
      BY <2>1, <2>2, <2>4, <3>1
  <2>5. QED
    BY <2>3, <2>4
<1>8. Confirmed'
  BY <1>1, <1>2 DEF Confirmed, True, Stored
<1>9. Tracked'
  <2>1. Invalid' => account'[conn'] = NoUser
    BY <1>1, <1>2 DEF Tracked, Invalid
  <2>2. ASSUME NEW i \in sending'
        PROVE  refused' \/ Invalid' \/ Pending(i)'
    <3>1. CASE Request("send", i) \in Range(queue'[conn])
      BY <1>2, <3>1 DEF Pending
    <3>2. CASE /\ i \in sending
               /\ \A r \in Range(replies) :
                     Answering(r, i) \/ r.code = "invalid" => r \in Range(replies')
      <4>1. refused \/ Invalid \/ Pending(i)
        BY <1>1, <3>2 DEF Tracked
      <4>2. conn # 0
        BY <1>1, <3>2 DEF Linked
      <4>3. Invalid => Invalid'
        BY <3>2 DEF Invalid
      <4>4. Pending(i) => Pending(i)'
        BY <1>2, <3>2, <4>2 DEF Pending, Answering
      <4>5. QED
        BY <1>2, <4>1, <4>3, <4>4
    <3>3. QED
      BY <3>1, <3>2
  <2>3. QED
    BY <2>1, <2>2 DEF Tracked
<1>10. QED
  BY <1>1, <1>3, <1>5, <1>6, <1>7, <1>8, <1>9 DEF OutboxInv

\* A reply finds the client logged in, and what it confirms is true.
LEMMA ReplyArrives ==
    ASSUME OutboxInv, conn # 0, replies # <<>>
    PROVE  /\ authed /\ user \in Accounts /\ conn \in Conns
           /\ Head(replies) \in Replies /\ Head(replies) \in Range(replies)
           /\ True(Head(replies))
           /\ Tail(replies) \in Seq(Replies)
           /\ Range(Tail(replies)) \subseteq Range(replies)
           /\ Range(replies) \subseteq Range(Tail(replies)) \cup {Head(replies)}
<1>1. ClientTyped /\ Linked /\ Confirmed
  BY DEF OutboxInv
<1>2. authed /\ user \in Accounts /\ conn \in Conns
  BY <1>1 DEF ClientTyped, Linked, Conns
<1>3. /\ Head(replies) \in Replies /\ Head(replies) \in Range(replies)
      /\ Tail(replies) \in Seq(Replies)
      /\ Range(Tail(replies)) \subseteq Range(replies)
      /\ Range(replies) \subseteq Range(Tail(replies)) \cup {Head(replies)}
  BY <1>1, RangeTail DEF ClientTyped
<1>4. QED
  BY <1>1, <1>2, <1>3 DEF Confirmed

\* Messages that are stored, or given up, leave the outbox and the disk.
LEMMA SettleKeeps ==
    ASSUME OutboxInv, user \in Accounts, NEW S, NEW D, Settle(S),
           UNCHANGED <<user, composer, rows>>, discarded' = discarded \cup D,
           D \subseteq S, D \subseteq Range(outbox),
           \A i \in S : i \in D \/ Stored(user, i) # {}
    PROVE  /\ outbox' \in Seq(Items) /\ disk' \in [Accounts -> SUBSET Items]
           /\ discarded' \subseteq Items /\ Kept' /\ NothingLost' /\ Composed' = Composed
<1>1. ClientTyped /\ HistoryTyped /\ Kept /\ NothingLost
  BY DEF OutboxInv
<1>2. /\ outbox' \in Seq(Items) /\ Range(outbox') = Range(outbox) \ S
  BY <1>1, WithoutTakesOut DEF Settle, ClientTyped
<1>3. /\ disk' \in [Accounts -> SUBSET Items] /\ disk'[user] = disk[user] \ S
      /\ \A a \in Accounts \ {user} : disk'[a] = disk[a]
  BY <1>1 DEF Settle, ClientTyped
<1>4. Composed' = Composed
  BY DEF Composed
<1>5. D \subseteq Items
  <2>1. Range(outbox) \subseteq Items
    BY <1>1, RangeOf DEF ClientTyped
  <2>2. QED
    BY <2>1
<1>6. discarded' \subseteq Items
  BY <1>1, <1>5 DEF HistoryTyped
<1>7. ASSUME NEW i \in D, i \notin discarded
      PROVE  i \in disk[user] /\ composer[i] = user /\ i \in Composed
  <2>1. i \in disk[user] /\ composer[i] = user
    BY <1>1, <1>7 DEF Kept
  <2>2. QED
    BY <1>5, <2>1, OutboxNumbers DEF Composed
<1>8. Kept'
  <2>1. ASSUME NEW a \in Accounts, NEW i \in disk'[a]
        PROVE  composer[i] = a /\ i \notin discarded'
    <3>1. i \in disk[a] /\ (a = user => i \notin S)
      BY <1>3, <2>1
    <3>2. composer[i] = a /\ i \notin discarded
      BY <1>1, <3>1 DEF Kept
    <3>3. QED
      BY <1>7, <3>1, <3>2
  <2>2. ASSUME NEW i \in Range(outbox')
        PROVE  i \in discarded' \/ (user # NoUser /\ i \in disk'[user])
    BY <1>1, <1>2, <1>3 DEF Kept
  <2>3. discarded' \subseteq Composed
    BY <1>1, <1>7 DEF Kept
  <2>4. QED
    BY <1>4, <2>1, <2>2, <2>3 DEF Kept
<1>9. NothingLost'
  <2> SUFFICES ASSUME NEW i \in Composed \ discarded'
               PROVE  i \in disk'[composer[i]] \/ Stored(composer[i], i)' # {}
    BY <1>4 DEF NothingLost
  <2>1. i \in disk[composer[i]] \/ Stored(composer[i], i) # {}
    BY <1>1 DEF NothingLost
  <2>2. composer[i] \in Accounts
    BY <1>1 DEF Composed, HistoryTyped
  <2>3. QED
    BY <1>3, <2>1, <2>2 DEF Stored
<1>10. QED
  BY <1>2, <1>3, <1>4, <1>6, <1>8, <1>9

\* sendMessage(): the message is new, on disk and in memory.
LEMMA ComposeStep ==
    ASSUME OutboxInv, NEW i \in Items, Compose(i)
    PROVE  OutboxInv'
<1>1. ClientTyped /\ HistoryTyped /\ Kept /\ NothingLost /\ Linked
  BY DEF OutboxInv
<1>2. /\ user # NoUser /\ i \notin Composed
      /\ composer' = [composer EXCEPT ![i] = user]
      /\ disk' = [disk EXCEPT ![user] = @ \cup {i}]
      /\ outbox' = Append(outbox, i)
      /\ UNCHANGED <<user, authed, conn, backoff, timers, sending, replies, nextConn,
                     serverVars, discarded, refused>>
  BY DEF Compose
<1>3. user \in Accounts
  BY <1>1, <1>2 DEF ClientTyped
<1>4. /\ composer' \in [Items -> Accounts \cup {NoUser}] /\ composer'[i] = user
      /\ \A j \in Items \ {i} : composer'[j] = composer[j]
  BY <1>1, <1>2, <1>3 DEF HistoryTyped
<1>5. Composed' = Composed \cup {i}
  BY <1>2, <1>4 DEF Composed
<1>6. /\ disk' \in [Accounts -> SUBSET Items] /\ disk'[user] = disk[user] \cup {i}
      /\ \A a \in Accounts \ {user} : disk'[a] = disk[a]
  BY <1>1, <1>2, <1>3 DEF ClientTyped
<1>7. outbox' \in Seq(Items) /\ Range(outbox') = Range(outbox) \cup {i}
  BY <1>1, <1>2, RangeAppend DEF ClientTyped
<1>8. /\ queue' \in [Conns -> Seq(Requests)]
      /\ \A d \in Conns : queue'[d] = queue[d] \/ (d = conn /\ authed)
      /\ conn # 0 => /\ Range(queue[conn]) \subseteq Range(queue'[conn])
                     /\ \A r \in Range(queue'[conn]) :
                           r \in Range(queue[conn]) \/ r.kind # "send"
  <2>1. CASE authed
    <3>1. conn' = conn /\ conn \in Conns /\ FlushOutbox(<<>>, fetching)
      BY <1>1, <1>2, <2>1 DEF ClientTyped, Linked, Conns, Compose
    <3>2. <<>> \in Seq(Requests) /\ Range(<<>>) = {}
      BY DEF Range
    <3>3. QED
      BY <1>1, <2>1, <3>1, <3>2, FlushAdds
  <2>2. CASE ~authed
    <3>1. queue' = queue
      BY <2>2 DEF Compose
    <3>2. QED
      BY <1>1, <3>1 DEF ClientTyped
  <2>3. QED
    BY <2>1, <2>2
<1>9. ClientTyped' /\ HistoryTyped'
  BY <1>1, <1>2, <1>4, <1>6, <1>7, <1>8 DEF ClientTyped, HistoryTyped
<1>10. Kept'
  <2>1. ASSUME NEW a \in Accounts, NEW j \in disk'[a]
        PROVE  composer'[j] = a /\ j \notin discarded
    <3>1. CASE j = i
      <4>1. i \notin disk[a]
        <5>1. i \in disk[a] => composer[i] = a
          BY <1>1 DEF Kept
        <5>2. QED
          BY <1>2, <5>1, OutboxNumbers DEF Composed
      <4>2. a = user
        BY <1>6, <2>1, <3>1, <4>1
      <4>3. i \notin discarded
        BY <1>1, <1>2 DEF Kept
      <4>4. QED
        BY <1>4, <3>1, <4>2, <4>3
    <3>2. CASE j # i
      <4>1. j \in disk[a] /\ j \in Items
        BY <1>1, <1>6, <2>1, <3>2 DEF ClientTyped
      <4>2. QED
        BY <1>1, <1>4, <3>2, <4>1 DEF Kept
    <3>3. QED
      BY <3>1, <3>2
  <2>2. \A j \in Range(outbox') : j \in discarded \/ (user # NoUser /\ j \in disk'[user])
    BY <1>1, <1>2, <1>6, <1>7 DEF Kept
  <2>3. QED
    BY <1>1, <1>2, <1>5, <2>1, <2>2 DEF Kept
<1>11. NothingLost'
  <2> SUFFICES ASSUME NEW j \in Composed' \ discarded, NEW a, a = composer'[j]
               PROVE  j \in disk'[a] \/ Stored(a, j)' # {}
    BY <1>2 DEF NothingLost, Stored
  <2>1. CASE j = i
    BY <1>4, <1>6, <2>1
  <2>2. CASE j # i
    <3>1. j \in Composed /\ j \in Items /\ composer[j] \in Accounts
      BY <1>1, <1>5, <2>2 DEF Composed, HistoryTyped
    <3>2. j \in disk[composer[j]] \/ Stored(composer[j], j) # {}
      BY <1>1, <3>1 DEF NothingLost
    <3>3. a = composer[j] /\ rows' = rows
      BY <1>2, <1>4, <2>2, <3>1 DEF serverVars
    <3>4. QED
      BY <1>6, <3>1, <3>2, <3>3 DEF Stored
  <2>3. QED
    BY <2>1, <2>2
<1>12. QED
  BY <1>2, <1>5, <1>8, <1>9, <1>10, <1>11, ClientStays

\* A client that goes on and changes no message but, perhaps, what is in flight.
LEMMA QuietClient ==
    ASSUME OutboxInv,
           UNCHANGED <<user, authed, conn, nextConn, serverVars, refused, outbox, disk,
                       composer, discarded>>,
           sending' \subseteq Items, replies' \in Seq(Replies),
           queue' \in [Conns -> Seq(Requests)],
           \A d \in Conns : queue'[d] = queue[d] \/ (d = conn /\ authed),
           conn # 0 =>
              /\ Range(queue[conn]) \subseteq Range(queue'[conn])
              /\ \A r \in Range(queue'[conn]) :
                    r \in Range(queue[conn]) \/ (r.kind = "send" => r.item \in Composed'),
           Range(replies') \subseteq Range(replies), replies = <<>> => replies' = <<>>,
           \A i \in sending' :
              \/ /\ i \in sending
                 /\ \A r \in Range(replies) :
                       Answering(r, i) \/ r.code = "invalid" => r \in Range(replies')
              \/ conn # 0 /\ Request("send", i) \in Range(queue'[conn])
    PROVE  OutboxInv'
<1>1. ClientTyped /\ HistoryTyped /\ Kept /\ NothingLost
  BY DEF OutboxInv
<1>2. ClientTyped' /\ HistoryTyped'
  BY <1>1 DEF ClientTyped, HistoryTyped
<1>3. Composed' = Composed
  BY DEF Composed
<1>4. rows' = rows
  BY DEF serverVars
<1>5. Kept' /\ NothingLost'
  BY <1>1, <1>3, <1>4 DEF Kept, NothingLost, Stored
<1>6. QED
  BY <1>2, <1>3, <1>5, ClientStays

LEMMA BackoffStep ==
    ASSUME OutboxInv, BackoffEnds
    PROVE  OutboxInv'
<1>1. ClientTyped
  BY DEF OutboxInv
<1>2. UNCHANGED <<user, authed, conn, outbox, sending, disk, replies, nextConn, queue,
                  serverVars, composer, discarded, refused>>
  BY DEF BackoffEnds, historyVars
<1>3. QED
  BY <1>1, <1>2, QuietClient DEF ClientTyped

LEMMA TimerStep ==
    ASSUME OutboxInv, NEW t \in TimerKinds, TimerFires(t)
    PROVE  OutboxInv'
<1>1. ClientTyped /\ Linked
  BY DEF OutboxInv
<1>2. UNCHANGED <<user, authed, conn, outbox, sending, disk, replies, nextConn,
                  serverVars, composer, discarded, refused>>
  BY DEF TimerFires, historyVars
<1>3. /\ queue' \in [Conns -> Seq(Requests)]
      /\ \A d \in Conns : queue'[d] = queue[d] \/ (d = conn /\ authed)
      /\ conn # 0 => /\ Range(queue[conn]) \subseteq Range(queue'[conn])
                     /\ \A r \in Range(queue'[conn]) :
                           r \in Range(queue[conn]) \/ r.kind # "send"
  <2>1. CASE authed
    <3>1. conn' = conn /\ conn \in Conns /\ FlushOutbox(<<>>, fetching)
      BY <1>1, <1>2, <2>1 DEF ClientTyped, Linked, Conns, TimerFires
    <3>2. <<>> \in Seq(Requests) /\ Range(<<>>) = {}
      BY DEF Range
    <3>3. QED
      BY <1>1, <2>1, <3>1, <3>2, FlushAdds
  <2>2. CASE ~authed
    <3>1. queue' = queue
      BY <2>2 DEF TimerFires
    <3>2. QED
      BY <1>1, <3>1 DEF ClientTyped
  <2>3. QED
    BY <2>1, <2>2
<1>4. sending' \subseteq Items /\ replies' \in Seq(Replies)
  BY <1>1, <1>2 DEF ClientTyped
<1>5. QED
  BY <1>2, <1>3, <1>4, QuietClient

\* What the client does with a reply that is no end of the session.
LEMMA ReplyTaken ==
    ASSUME OutboxInv, NEW kind, NEW code, Receive(kind, code), code # "invalid"
    PROVE  /\ authed /\ user \in Accounts /\ conn \in Conns
           /\ Head(replies) \in Replies /\ True(Head(replies))
           /\ Head(replies).kind = kind /\ Head(replies).code = code
           /\ replies # <<>> /\ replies' \in Seq(Replies)
           /\ Range(replies') \subseteq Range(replies)
           /\ \A r \in Range(replies) :
                 r \in Range(replies')
                    \/ (r.code # "invalid"
                          /\ \A i : Answering(r, i) => kind = "send" /\ i = Head(replies).item)
           /\ UNCHANGED <<nextConn, serverVars, composer>>
<1>1. /\ conn # 0 /\ replies # <<>> /\ replies' = Tail(replies)
      /\ Head(replies).kind = kind /\ Head(replies).code = code
      /\ UNCHANGED <<nextConn, serverVars, composer>>
  BY DEF Receive, Arrives
<1>2. /\ authed /\ user \in Accounts /\ conn \in Conns
      /\ Head(replies) \in Replies /\ True(Head(replies))
      /\ Tail(replies) \in Seq(Replies)
      /\ Range(Tail(replies)) \subseteq Range(replies)
      /\ Range(replies) \subseteq Range(Tail(replies)) \cup {Head(replies)}
  BY <1>1, ReplyArrives
<1>3. \A i : Answering(Head(replies), i) => kind = "send" /\ i = Head(replies).item
  BY <1>1 DEF Answering
<1>4. QED
  BY <1>1, <1>2, <1>3

\* A message seen in the event stream leaves the outbox.
LEMMA IngestStep ==
    ASSUME OutboxInv, IngestSyncEvents
    PROVE  OutboxInv'
<1>1. ClientTyped /\ HistoryTyped
  BY DEF OutboxInv
<1>2. /\ Receive("sync", "ok") /\ Settle(Head(replies).keys)
      /\ UNCHANGED <<user, authed, conn, sending, queue, discarded, refused>>
  BY DEF IngestSyncEvents
<1>3. /\ user \in Accounts /\ True(Head(replies)) /\ Head(replies).kind = "sync"
      /\ replies # <<>> /\ replies' \in Seq(Replies)
      /\ Range(replies') \subseteq Range(replies)
      /\ \A r \in Range(replies) :
            r \in Range(replies') \/ (r.code # "invalid" /\ \A i : ~Answering(r, i))
      /\ UNCHANGED <<nextConn, serverVars, composer>>
  BY <1>2, ReplyTaken
<1>4. \A i \in Head(replies).keys : Stored(user, i) # {}
  BY <1>3 DEF True
<1>5. discarded' = discarded \cup {} /\ rows' = rows
  BY <1>2, <1>3 DEF serverVars
<1>6. /\ outbox' \in Seq(Items) /\ disk' \in [Accounts -> SUBSET Items]
      /\ Kept' /\ NothingLost' /\ Composed' = Composed
  BY <1>2, <1>3, <1>4, <1>5, SettleKeeps
<1>7. ClientTyped' /\ HistoryTyped'
  BY <1>1, <1>2, <1>3, <1>6 DEF ClientTyped, HistoryTyped
<1>8. QED
  BY <1>2, <1>3, <1>6, <1>7, ClientStays

\* The answer to a send: the message leaves the outbox, or stays there.
LEMMA SendResponseStep ==
    ASSUME OutboxInv, HandleSendMessageResponse
    PROVE  OutboxInv'
<1>1. ClientTyped /\ HistoryTyped
  BY DEF OutboxInv
<1>2. PICK i : i = Head(replies).item
  OBVIOUS
<1>3. /\ sending' = sending \ {i}
      /\ UNCHANGED <<user, authed, conn, queue, discarded, refused>>
  BY <1>2 DEF HandleSendMessageResponse
<1>4. PICK code \in {"ok", "failed"} :
         /\ Receive("send", code)
         /\ code = "ok" => Settle({i})
         /\ code = "failed" => UNCHANGED <<outbox, disk>>
  BY <1>2 DEF HandleSendMessageResponse
<1>5. /\ user \in Accounts /\ True(Head(replies))
      /\ Head(replies).kind = "send" /\ Head(replies).code = code
      /\ replies # <<>> /\ replies' \in Seq(Replies)
      /\ Range(replies') \subseteq Range(replies)
      /\ \A r \in Range(replies) :
            r \in Range(replies') \/ (r.code # "invalid" /\ \A j : Answering(r, j) => i = j)
      /\ UNCHANGED <<nextConn, serverVars, composer>>
  BY <1>2, <1>4, ReplyTaken
<1>6. sending' \subseteq Items /\ \A j \in sending' : j \in sending /\ j # i
  BY <1>1, <1>3 DEF ClientTyped
<1>7. CASE code = "ok"
  <2>1. Stored(user, i) # {}
    BY <1>2, <1>5, <1>7 DEF True
  <2>2. discarded' = discarded \cup {} /\ rows' = rows
    BY <1>3, <1>5 DEF serverVars
  <2>3. /\ outbox' \in Seq(Items) /\ disk' \in [Accounts -> SUBSET Items]
        /\ Kept' /\ NothingLost' /\ Composed' = Composed
    BY <1>3, <1>4, <1>5, <1>7, <2>1, <2>2, SettleKeeps
  <2>4. ClientTyped' /\ HistoryTyped'
    BY <1>1, <1>3, <1>4, <1>5, <1>6, <1>7, <2>3 DEF ClientTyped, HistoryTyped
  <2>5. QED
    BY <1>3, <1>5, <1>6, <2>3, <2>4, ClientStays
<1>8. CASE code = "failed"
  <2>1. UNCHANGED <<outbox, disk>> /\ queue' \in [Conns -> Seq(Requests)]
    BY <1>1, <1>3, <1>4, <1>8 DEF ClientTyped
  <2>2. QED
    BY <1>3, <1>5, <1>6, <2>1, QuietClient
<1>9. QED
  BY <1>7, <1>8

\* A request is added to those of the client's connection.
LEMMA RequestAdded ==
    ASSUME ClientTyped, conn \in Conns, NEW q \in Requests,
           queue' = [queue EXCEPT ![conn] = Append(@, q)]
    PROVE  /\ queue' \in [Conns -> Seq(Requests)]
           /\ \A d \in Conns : queue'[d] = queue[d] \/ d = conn
           /\ Range(queue'[conn]) = Range(queue[conn]) \cup {q}
<1>1. queue \in [Conns -> Seq(Requests)] /\ queue[conn] \in Seq(Requests)
  BY DEF ClientTyped
<1>2. PICK u \in Seq(Requests) : u = queue[conn]
  BY <1>1
<1>3. Append(u, q) \in Seq(Requests) /\ Range(Append(u, q)) = Range(u) \cup {q}
  BY RangeAppend
<1>4. QED
  BY <1>1, <1>2, <1>3

\* An answer that settles no message; the client may ask for keys or send its edit.
LEMMA QuietReply ==
    ASSUME OutboxInv, NEW kind, NEW code, Receive(kind, code), code # "invalid",
           kind # "send" \/ code = "refused",
           UNCHANGED <<user, authed, conn, outbox, sending, disk, discarded, refused>>,
           queue' \in [Conns -> Seq(Requests)],
           \A d \in Conns : queue'[d] = queue[d] \/ d = conn,
           Range(queue[conn]) \subseteq Range(queue'[conn]),
           \A r \in Range(queue'[conn]) : r \in Range(queue[conn]) \/ r.kind # "send"
    PROVE  OutboxInv'
<1>1. ClientTyped
  BY DEF OutboxInv
<1>2. /\ authed /\ user \in Accounts /\ conn \in Conns
      /\ Head(replies).kind = kind /\ Head(replies).code = code
      /\ replies # <<>> /\ replies' = Tail(replies) /\ replies' \in Seq(Replies)
      /\ Range(replies') \subseteq Range(replies)
      /\ UNCHANGED <<nextConn, serverVars, composer>>
  BY ReplyTaken DEF Receive
<1>3. Range(replies) \subseteq Range(replies') \cup {Head(replies)}
  BY <1>2, ReplyArrives, OutboxNumbers
<1>4. \A j : ~Answering(Head(replies), j)
  BY <1>2 DEF Answering
<1>5. sending' \subseteq Items
  BY <1>1 DEF ClientTyped
<1>6. QED
  BY <1>2, <1>3, <1>4, <1>5, QuietClient

\* A refused fetch backs off, and the outbox is flushed.
LEMMA FetchFailedStep ==
    ASSUME OutboxInv, FetchFailed
    PROVE  OutboxInv'
<1>1. /\ Receive("fetch", "failed") /\ FlushOutbox(<<>>, FALSE) /\ conn' = conn
      /\ UNCHANGED <<user, authed, conn, outbox, sending, disk, discarded, refused>>
  BY DEF FetchFailed, ReceiveLatest
<1>2. ClientTyped /\ conn \in Conns
  BY <1>1, ReplyTaken DEF OutboxInv
<1>3. <<>> \in Seq(Requests) /\ Range(<<>>) = {}
  BY DEF Range
<1>4. /\ queue' \in [Conns -> Seq(Requests)]
      /\ \A d \in Conns \ {conn} : queue'[d] = queue[d]
      /\ Range(queue[conn]) \subseteq Range(queue'[conn])
      /\ \A r \in Range(queue'[conn]) : r \in Range(queue[conn]) \/ r.kind = "fetch"
  BY <1>1, <1>2, <1>3, FlushAdds
<1>5. QED
  BY <1>1, <1>4, QuietReply

\* Answers that ask for nothing: a refusal, an answer nobody waits for, the end
\* of an edit.
LEMMA UnaskedStep ==
    ASSUME OutboxInv,
           RequestRefused \/ AnswerIgnored \/ EditFetchFailed \/ HandleEditMessageResponse
    PROVE  OutboxInv'
<1>1. PICK kind, code : /\ Receive(kind, code) /\ code # "invalid"
                        /\ kind # "send" \/ code = "refused"
  BY DEF RequestRefused, AnswerIgnored, EditFetchFailed, HandleEditMessageResponse, ReceiveLatest
<1>2. UNCHANGED <<user, authed, conn, outbox, sending, disk, queue, discarded, refused>>
  BY DEF RequestRefused, AnswerIgnored, EditFetchFailed, HandleEditMessageResponse
<1>3. queue' \in [Conns -> Seq(Requests)]
  BY <1>2 DEF OutboxInv, ClientTyped
<1>4. QED
  BY <1>1, <1>2, <1>3, QuietReply

\* The bundle serves an edit.
LEMMA EditBundleStep ==
    ASSUME OutboxInv, BundleServesEdit
    PROVE  OutboxInv'
<1>1. PICK q : q = Request("edit", 0)
  OBVIOUS
<1>2. /\ Receive("fetch", "ok")
      /\ UNCHANGED <<user, authed, conn, outbox, sending, disk, discarded, refused>>
      /\ queue' = queue \/ queue' = [queue EXCEPT ![conn] = Append(@, q)]
  BY <1>1 DEF BundleServesEdit, ReceiveLatest
<1>3. ClientTyped /\ conn \in Conns
  BY <1>2, ReplyTaken DEF OutboxInv
<1>4. q \in Requests /\ q.kind = "edit"
  BY <1>1, OutboxNumbers DEF Request, Requests, Kinds
<1>5. CASE queue' = queue
  <2>1. queue' \in [Conns -> Seq(Requests)]
    BY <1>3, <1>5 DEF ClientTyped
  <2>2. QED
    BY <1>2, <1>5, <2>1, QuietReply
<1>6. CASE queue' = [queue EXCEPT ![conn] = Append(@, q)]
  <2>1. /\ queue' \in [Conns -> Seq(Requests)]
        /\ \A d \in Conns : queue'[d] = queue[d] \/ d = conn
        /\ Range(queue'[conn]) = Range(queue[conn]) \cup {q}
    BY <1>3, <1>4, <1>6, RequestAdded
  <2>2. QED
    BY <1>2, <1>4, <2>1, QuietReply
<1>7. QED
  BY <1>2, <1>5, <1>6

\* An edit asks for keys at once.
LEMMA EditStep ==
    ASSUME OutboxInv, EditMessage
    PROVE  OutboxInv'
<1>1. ClientTyped /\ Linked
  BY DEF OutboxInv
<1>2. PICK q : q = Request("fetch", 0)
  OBVIOUS
<1>3. /\ authed /\ queue' = [queue EXCEPT ![conn] = Append(@, q)]
      /\ UNCHANGED <<user, authed, conn, outbox, sending, disk, replies, nextConn,
                     serverVars, composer, discarded, refused>>
  BY <1>2 DEF EditMessage, historyVars
<1>4. conn \in Conns
  BY <1>1, <1>3 DEF Linked, ClientTyped, Conns
<1>5. q \in Requests /\ q.kind = "fetch"
  BY <1>2, OutboxNumbers DEF Request, Requests, Kinds
<1>6. /\ queue' \in [Conns -> Seq(Requests)]
      /\ \A d \in Conns : queue'[d] = queue[d] \/ d = conn
      /\ Range(queue'[conn]) = Range(queue[conn]) \cup {q}
  BY <1>1, <1>3, <1>4, <1>5, RequestAdded
<1>7. sending' \subseteq Items /\ replies' \in Seq(Replies)
  BY <1>1, <1>3 DEF ClientTyped
<1>8. QED
  BY <1>3, <1>5, <1>6, <1>7, QuietClient

\* A bundle has come: the first message not in flight is sent, or given up when
\* it cannot be encrypted.
LEMMA BundleStep ==
    ASSUME OutboxInv, HandleFetchKeysResponse
    PROVE  OutboxInv'
<1>1. ClientTyped /\ HistoryTyped /\ Kept
  BY DEF OutboxInv
<1>2. PICK idle : idle = Without(outbox, sending)
  OBVIOUS
<1>3. /\ Receive("fetch", "ok")
      /\ UNCHANGED <<user, authed, conn, refused>>
      /\ \/ /\ idle = <<>> /\ UNCHANGED <<outbox, disk, sending, discarded>>
            /\ FlushOutbox(<<>>, FALSE)
         \/ /\ idle # <<>> /\ sending' = sending \cup {Head(idle)}
            /\ UNCHANGED <<outbox, disk, discarded>>
            /\ FlushOutbox(<<Request("send", Head(idle))>>, FALSE)
         \/ /\ idle # <<>> /\ Settle({Head(idle)})
            /\ discarded' = discarded \cup {Head(idle)} /\ UNCHANGED sending
            /\ FlushOutbox(<<>>, FALSE)
  BY <1>2, Zenon DEF HandleFetchKeysResponse, ReceiveLatest
<1>4. /\ authed /\ user \in Accounts /\ conn \in Conns
      /\ replies # <<>> /\ replies' \in Seq(Replies)
      /\ Range(replies') \subseteq Range(replies)
      /\ \A r \in Range(replies) :
            r \in Range(replies') \/ (r.code # "invalid" /\ \A i : ~Answering(r, i))
      /\ UNCHANGED <<nextConn, serverVars, composer>>
  BY <1>3, ReplyTaken
<1>5. idle # <<>> => /\ Head(idle) \in Range(outbox) /\ Head(idle) \in Items
                     /\ Head(idle) \in Composed
  <2>1. idle \in Seq(Items) /\ Range(idle) = Range(outbox) \ sending
    BY <1>1, <1>2, WithoutTakesOut DEF ClientTyped
  <2>2. idle # <<>> => Head(idle) \in Items /\ Head(idle) \in Range(idle)
    BY <2>1, RangeTail
  <2>3. \A i \in Range(outbox) \cap Items : i \in Composed
    <3>1. \A i \in Items : i \in disk[user] => composer[i] = user
      BY <1>1, <1>4 DEF Kept
    <3>2. QED
      BY <1>1, <1>4, <3>1, OutboxNumbers DEF Kept, Composed
  <2>4. QED
    BY <2>1, <2>2, <2>3
<1>6. ASSUME NEW written \in Seq(Requests), FlushOutbox(written, FALSE)
      PROVE  /\ queue' \in [Conns -> Seq(Requests)]
             /\ \A d \in Conns : queue'[d] = queue[d] \/ (d = conn /\ authed)
             /\ Range(queue[conn]) \cup Range(written) \subseteq Range(queue'[conn])
             /\ \A r \in Range(queue'[conn]) :
                   r \in Range(queue[conn]) \cup Range(written) \/ r.kind = "fetch"
  BY <1>1, <1>3, <1>4, <1>6, FlushAdds
<1>7. <<>> \in Seq(Requests) /\ Range(<<>>) = {}
  BY DEF Range
<1>8. CASE idle = <<>>
  <2>1. UNCHANGED <<outbox, disk, sending, discarded>> /\ FlushOutbox(<<>>, FALSE)
    BY <1>3, <1>8
  <2>2. /\ queue' \in [Conns -> Seq(Requests)]
        /\ \A d \in Conns : queue'[d] = queue[d] \/ (d = conn /\ authed)
        /\ Range(queue[conn]) \subseteq Range(queue'[conn])
        /\ \A r \in Range(queue'[conn]) : r \in Range(queue[conn]) \/ r.kind = "fetch"
    BY <1>6, <1>7, <2>1
  <2>3. sending' \subseteq Items
    BY <1>1, <2>1 DEF ClientTyped
  <2>4. QED
    BY <1>3, <1>4, <2>1, <2>2, <2>3, QuietClient
<1>9. CASE idle # <<>> /\ UNCHANGED <<outbox, disk, discarded>>
            /\ sending' = sending \cup {Head(idle)}
            /\ FlushOutbox(<<Request("send", Head(idle))>>, FALSE)
  <2>1. PICK i \in Items : i = Head(idle) /\ i \in Composed
    BY <1>5, <1>9
  <2>2. PICK q : q = Request("send", i)
    OBVIOUS
  <2>3. q \in Requests /\ q.kind = "send" /\ q.item = i
    BY <2>2, OutboxNumbers DEF Request, Requests, Kinds
  <2>4. <<q>> \in Seq(Requests) /\ Range(<<q>>) = {q}
    BY <2>3 DEF Range
  <2>5. /\ queue' \in [Conns -> Seq(Requests)]
        /\ \A d \in Conns : queue'[d] = queue[d] \/ (d = conn /\ authed)
        /\ Range(queue[conn]) \cup Range(<<q>>) \subseteq Range(queue'[conn])
        /\ \A r \in Range(queue'[conn]) :
              r \in Range(queue[conn]) \cup Range(<<q>>) \/ r.kind = "fetch"
    BY <1>6, <1>9, <2>1, <2>2, <2>4
  <2>6. Composed' = Composed
    BY <1>4 DEF Composed
  <2>7. /\ Range(queue[conn]) \subseteq Range(queue'[conn])
        /\ \A r \in Range(queue'[conn]) :
              r \in Range(queue[conn]) \/ (r.kind = "send" => r.item \in Composed')
    BY <2>1, <2>3, <2>4, <2>5, <2>6
  <2>8. sending' \subseteq Items
    BY <1>1, <1>9, <2>1 DEF ClientTyped
  <2>9. ASSUME NEW j \in sending'
        PROVE  j \in sending \/ (conn # 0 /\ Request("send", j) \in Range(queue'[conn]))
    BY <1>4, <1>9, <2>1, <2>2, <2>4, <2>5, OutboxNumbers
  <2>10. QED
    BY <1>3, <1>4, <1>9, <2>5, <2>7, <2>8, <2>9, QuietClient
<1>10. CASE /\ idle # <<>> /\ Settle({Head(idle)})
            /\ discarded' = discarded \cup {Head(idle)} /\ UNCHANGED sending
            /\ FlushOutbox(<<>>, FALSE)
  <2>1. /\ queue' \in [Conns -> Seq(Requests)]
        /\ \A d \in Conns : queue'[d] = queue[d] \/ (d = conn /\ authed)
        /\ Range(queue[conn]) \subseteq Range(queue'[conn])
        /\ \A r \in Range(queue'[conn]) : r \in Range(queue[conn]) \/ r.kind = "fetch"
    BY <1>6, <1>7, <1>10
  <2>2. rows' = rows
    BY <1>4 DEF serverVars
  <2>3. /\ outbox' \in Seq(Items) /\ disk' \in [Accounts -> SUBSET Items]
        /\ discarded' \subseteq Items /\ Kept' /\ NothingLost' /\ Composed' = Composed
    <3>1. PICK S : S = {Head(idle)}
      OBVIOUS
    <3>2. Settle(S) /\ discarded' = discarded \cup S /\ S \subseteq Range(outbox)
      BY <1>5, <1>10, <3>1
    <3>3. QED
      BY <1>3, <1>4, <2>2, <3>2, SettleKeeps
  <2>4. ClientTyped' /\ HistoryTyped'
    <3>1. ClientTyped'
      BY <1>1, <1>3, <1>4, <1>10, <2>1, <2>3 DEF ClientTyped
    <3>2. HistoryTyped'
      BY <1>1, <1>3, <1>4, <2>3 DEF HistoryTyped
    <3>3. QED
      BY <3>1, <3>2
  <2>5. QED
    BY <1>3, <1>4, <1>10, <2>1, <2>3, <2>4, ClientStays
<1>11. QED
  BY <1>3, <1>8, <1>9, <1>10

-----------------------------------------------------------------------------
(***************************************************************************)
(* Logging in and out, lost connections and crashes.                       *)
(***************************************************************************)

\* The client loses its connection, and the server perhaps all of them.
LEMMA Breaks ==
    ASSUME OutboxInv, conn' = 0, authed' = FALSE, sending' = {}, replies' = <<>>,
           refused' = FALSE, UNCHANGED <<nextConn, rows, announced, composer>>,
           user' \in Accounts \cup {NoUser}, outbox' \in Seq(Items),
           disk' \in [Accounts -> SUBSET Items], discarded' \subseteq Items,
           queue' \in [Conns -> Seq(Requests)], op' \in [Conns -> Ops],
           account' \in [Conns -> Accounts \cup {NoUser}],
           \A d \in Conns : /\ queue'[d] = queue[d] \/ queue'[d] = <<>>
                            /\ op'[d] = op[d] \/ op'[d] = Idle
                            /\ account'[d] = account[d] \/ account'[d] = NoUser,
           Kept', NothingLost'
    PROVE  OutboxInv'
<1>1. /\ ClientTyped /\ ServerTyped /\ HistoryTyped /\ Linked /\ Unused /\ Asked
      /\ StoredOnce
  BY DEF OutboxInv
<1>2. ClientTyped'
  <2>1. <<>> \in Seq(Replies) /\ {} \subseteq Items /\ 0 \in 0 .. MaxConn
    BY OutboxNumbers
  <2>2. nextConn' \in 1 .. MaxConn + 1
    BY <1>1 DEF ClientTyped
  <2>3. QED
    BY <2>1, <2>2 DEF ClientTyped
<1>3. ServerTyped' /\ HistoryTyped' /\ StoredOnce'
  BY <1>1 DEF ServerTyped, HistoryTyped, StoredOnce
<1>4. Range(replies') = {}
  BY DEF Range
<1>5. Linked'
  <2>1. 0 < nextConn
    BY <1>1 DEF ClientTyped
  <2>2. QED
    BY <2>1 DEF Linked
<1>6. Unused'
  BY <1>1 DEF Unused
<1>7. Asked'
  <2> SUFFICES ASSUME NEW d \in Conns
               PROVE  /\ \A r \in Range(queue'[d]) : r.kind = "send" => r.item \in Composed'
                      /\ OpFits(d)'
    BY DEF Asked
  <2>1. /\ \A r \in Range(queue[d]) : r.kind = "send" => r.item \in Composed
        /\ OpFits(d)
    BY <1>1 DEF Asked
  <2>2. Composed' = Composed
    BY DEF Composed
  <2>3. OpFits(d)'
    BY <2>1, <2>2 DEF OpFits, Stored
  <2>4. Range(<<>>) = {}
    BY DEF Range
  <2>5. QED
    BY <2>1, <2>2, <2>3, <2>4
<1>8. Confirmed' /\ Tracked'
  BY <1>4 DEF Confirmed, Tracked, Invalid
<1>9. QED
  BY <1>2, <1>3, <1>5, <1>6, <1>7, <1>8 DEF OutboxInv

\* resetAuthState() gives up what the user had.
LEMMA ResetGivesUp ==
    ASSUME OutboxInv, ResetAuthState, UNCHANGED <<rows, composer>>
    PROVE  /\ user' = NoUser /\ authed' = FALSE
           /\ outbox' \in Seq(Items)
           /\ disk' \in [Accounts -> SUBSET Items] /\ discarded' \subseteq Items
           /\ Kept' /\ NothingLost'
           /\ discarded' = discarded \cup {i \in Items : user # NoUser /\ i \in disk[user]}
<1>1. ClientTyped /\ HistoryTyped /\ Kept /\ NothingLost
  BY DEF OutboxInv
<1>2. PICK D : D = UNION {disk[a] : a \in Accounts \cap {user}}
  OBVIOUS
<1>3. /\ user' = NoUser /\ authed' = FALSE
      /\ disk' = [a \in Accounts |-> IF a = user THEN {} ELSE disk[a]]
      /\ discarded' = discarded \cup Range(outbox) \cup D
      /\ UNCHANGED outbox
  BY <1>2 DEF ResetAuthState
<1>4. \A i : i \in D <=> user \in Accounts /\ i \in disk[user]
  <2>1. CASE user \in Accounts
    <3>1. Accounts \cap {user} = {user}
      BY <2>1
    <3>2. D = disk[user]
      BY <1>2, <3>1
    <3>3. QED
      BY <2>1, <3>2
  <2>2. CASE user \notin Accounts
    <3>1. Accounts \cap {user} = {}
      BY <2>2
    <3>2. D = {}
      BY <1>2, <3>1
    <3>3. QED
      BY <2>2, <3>2
  <2>3. QED
    BY <2>1, <2>2
<1>5. Range(outbox) \subseteq discarded \cup D
  BY <1>1, <1>4 DEF Kept, ClientTyped
<1>6. D \subseteq Items /\ \A i \in D : user \in Accounts /\ composer[i] = user /\ i \in Composed
  <2>1. D \subseteq Items
    BY <1>1, <1>4 DEF ClientTyped
  <2>2. \A i \in D : user \in Accounts /\ composer[i] = user
    BY <1>1, <1>4 DEF Kept
  <2>3. QED
    BY <2>1, <2>2, OutboxNumbers DEF Composed
<1>7. discarded' = discarded \cup D /\ discarded' \subseteq Items
  BY <1>1, <1>3, <1>5, <1>6 DEF HistoryTyped
<1>8. \A a \in Accounts : disk'[a] = IF a = user THEN {} ELSE disk[a]
  BY <1>3
<1>9. disk' \in [Accounts -> SUBSET Items]
  BY <1>1, <1>3 DEF ClientTyped
<1>10. Kept'
  <2>1. ASSUME NEW a \in Accounts, NEW i \in disk'[a]
        PROVE  composer'[i] = a /\ i \notin discarded'
    <3>1. a # user /\ i \in disk[a]
      BY <1>8, <2>1
    <3>2. composer[i] = a /\ i \notin discarded
      BY <1>1, <3>1 DEF Kept
    <3>3. QED
      BY <1>6, <1>7, <3>1, <3>2
  <2>2. \A i \in Range(outbox') : i \in discarded'
    BY <1>3
  <2>3. Composed' = Composed
    BY DEF Composed
  <2>4. discarded' \subseteq Composed'
    BY <1>1, <1>6, <1>7, <2>3 DEF Kept
  <2>5. QED
    BY <2>1, <2>2, <2>4 DEF Kept
<1>11. NothingLost'
  <2>1. Composed' = Composed
    BY DEF Composed
  <2> SUFFICES ASSUME NEW i \in Composed \ discarded', NEW a, a = composer[i]
               PROVE  i \in disk'[a] \/ Stored(a, i)' # {}
    BY <2>1 DEF NothingLost, Stored
  <2>2. a \in Accounts /\ i \in Items
    BY <1>1 DEF Composed, HistoryTyped
  <2>3. i \in disk[a] \/ Stored(a, i) # {}
    BY <1>1, <1>7 DEF NothingLost
  <2>4. Stored(a, i)' = Stored(a, i)
    BY DEF Stored
  <2>5. i \in disk[a] => a # user
    BY <1>4, <1>7, <2>2
  <2>6. QED
    BY <1>8, <2>2, <2>3, <2>4, <2>5
<1>12. outbox' \in Seq(Items)
  BY <1>1, <1>3 DEF ClientTyped
<1>13. {i \in Items : user # NoUser /\ i \in disk[user]} = D
  <2>1. user \in Accounts <=> user # NoUser
    BY <1>1, OutboxNumbers DEF ClientTyped
  <2>2. QED
    BY <1>4, <1>6, <2>1
<1>14. QED
  BY <1>3, <1>7, <1>9, <1>10, <1>11, <1>12, <1>13

\* Drop, ServerCrash, ClientCrash and the answer that the session is over.
LEMMA BreakSteps ==
    ASSUME OutboxInv, Drop \/ ServerCrash \/ ClientCrash \/ SessionInvalid
    PROVE  OutboxInv'
<1>1. ClientTyped /\ ServerTyped /\ HistoryTyped /\ Kept /\ NothingLost
  BY DEF OutboxInv
<1>2. Idle \in Ops /\ <<>> \in Seq(Requests) /\ <<>> \in Seq(Items)
  BY OutboxNumbers DEF Idle, Ops
<1>3. CASE Drop \/ ServerCrash
  <2>1. /\ conn' = 0 /\ authed' = FALSE /\ sending' = {}
        /\ replies' = <<>> /\ refused' = FALSE
        /\ UNCHANGED <<user, outbox, disk, nextConn, rows, announced, composer, discarded>>
    BY <1>3 DEF Drop, ServerCrash, OnDisconnected, serverVars
  <2>2. Composed' = Composed
    BY <2>1 DEF Composed
  <2>3. Kept' /\ NothingLost'
    BY <1>1, <2>1, <2>2 DEF Kept, NothingLost, Stored
  <2>4. /\ queue' \in [Conns -> Seq(Requests)] /\ op' \in [Conns -> Ops]
        /\ account' \in [Conns -> Accounts \cup {NoUser}]
        /\ \A d \in Conns : /\ queue'[d] = queue[d] \/ queue'[d] = <<>>
                            /\ op'[d] = op[d] \/ op'[d] = Idle
                            /\ account'[d] = account[d] \/ account'[d] = NoUser
    <3>1. CASE Drop
      BY <1>1, <3>1 DEF Drop, serverVars, ClientTyped, ServerTyped
    <3>2. CASE ServerCrash
      <4>1. /\ queue' = [c \in Conns |-> <<>>] /\ op' = [c \in Conns |-> Idle]
            /\ account' = [c \in Conns |-> NoUser]
        BY <3>2 DEF ServerCrash
      <4>2. QED
        BY <1>2, <4>1
    <3>3. QED
      BY <1>3, <3>1, <3>2
  <2>5. /\ user' \in Accounts \cup {NoUser}
        /\ outbox' \in Seq(Items)
        /\ disk' \in [Accounts -> SUBSET Items] /\ discarded' \subseteq Items
    BY <1>1, <2>1 DEF ClientTyped, HistoryTyped
  <2>6. QED
    BY <2>1, <2>3, <2>4, <2>5, Breaks
<1>4. CASE ClientCrash
  <2>1. /\ conn' = 0 /\ authed' = FALSE /\ user' = NoUser /\ outbox' = <<>> /\ sending' = {}
        /\ replies' = <<>> /\ refused' = FALSE
        /\ UNCHANGED <<disk, nextConn, queue, account, op, rows, announced, composer,
                       discarded>>
    BY <1>4 DEF ClientCrash, serverVars
  <2>2. Composed' = Composed /\ Range(outbox') = {}
    BY <2>1 DEF Composed, Range
  <2>3. Kept' /\ NothingLost'
    BY <1>1, <2>1, <2>2 DEF Kept, NothingLost, Stored
  <2>4. /\ queue' \in [Conns -> Seq(Requests)] /\ op' \in [Conns -> Ops]
        /\ account' \in [Conns -> Accounts \cup {NoUser}]
        /\ queue' = queue /\ op' = op /\ account' = account
    BY <1>1, <2>1 DEF ClientTyped, ServerTyped
  <2>5. /\ user' \in Accounts \cup {NoUser}
        /\ outbox' \in Seq(Items)
        /\ disk' \in [Accounts -> SUBSET Items] /\ discarded' \subseteq Items
    BY <1>1, <1>2, <2>1 DEF ClientTyped, HistoryTyped
  <2>6. QED
    BY <2>1, <2>3, <2>4, <2>5, Breaks
<1>5. CASE SessionInvalid
  <2>1. /\ ResetAuthState /\ conn' = 0 /\ sending' = {} /\ replies' = <<>>
        /\ refused' = FALSE
        /\ UNCHANGED <<queue, nextConn, account, op, rows, announced, composer>>
    BY <1>5 DEF SessionInvalid, Arrives, serverVars
  <2>2. /\ user' = NoUser /\ authed' = FALSE
        /\ outbox' \in Seq(Items)
        /\ disk' \in [Accounts -> SUBSET Items] /\ discarded' \subseteq Items
        /\ Kept' /\ NothingLost'
    BY <2>1, ResetGivesUp
  <2>3. /\ queue' \in [Conns -> Seq(Requests)] /\ op' \in [Conns -> Ops]
        /\ account' \in [Conns -> Accounts \cup {NoUser}]
        /\ queue' = queue /\ op' = op /\ account' = account
    BY <1>1, <2>1 DEF ClientTyped, ServerTyped
  <2>4. QED
    BY <2>1, <2>2, <2>3, Breaks
<1>6. QED
  BY <1>3, <1>4, <1>5

\* A connection that is not logged in has nothing under way: what counts as in
\* flight there was refused.
LEMMA LoggedOut ==
    ASSUME OutboxInv, conn # 0, queue[conn] = <<>>, op[conn] = Idle, replies = <<>>
    PROVE  \A i \in sending : refused
<1>1. Tracked
  BY DEF OutboxInv
<1>2. Range(queue[conn]) = {} /\ Range(replies) = {}
  BY DEF Range
<1>3. QED
  BY <1>1, <1>2 DEF Tracked, Invalid, Pending

\* The outbox takes up what is on disk; the connection is new, or one on which
\* the last user has logged out.
LEMMA LoginStep ==
    ASSUME OutboxInv, NEW a \in Accounts, Login(a)
    PROVE  OutboxInv'
<1>1. /\ ClientTyped /\ ServerTyped /\ HistoryTyped /\ Linked /\ Unused /\ Asked
      /\ Kept /\ StoredOnce /\ NothingLost /\ Tracked
  BY DEF OutboxInv
<1>2. PICK merged : merged = InOrder(disk[a] \ Range(outbox))
  OBVIOUS
<1>3. /\ ~authed /\ user \in {NoUser, a} /\ user' = a /\ authed' = TRUE
      /\ account' = [account EXCEPT ![conn'] = a]
      /\ outbox' = outbox \o merged
      /\ FlushOutbox(<<Request("sync", 0)>>, fetching)
      /\ UNCHANGED <<sending, disk, replies, op, rows, announced, composer, discarded,
                     refused>>
  BY <1>2 DEF Login, historyVars
<1>4. \/ conn = 0 /\ nextConn <= MaxConn /\ conn' = nextConn /\ nextConn' = nextConn + 1
      \/ conn # 0 /\ conn' = conn /\ nextConn' = nextConn /\ queue[conn] = <<>> /\ replies = <<>>
  BY DEF Login
<1>5. /\ conn' \in Conns /\ conn' # 0 /\ conn' < nextConn' /\ nextConn' \in 1 .. MaxConn + 1
      /\ conn' \in 0 .. MaxConn /\ nextConn <= nextConn' /\ nextConn \in Nat /\ nextConn' \in Nat
  <2>1. /\ MaxConn \in Nat /\ conn \in 0 .. MaxConn /\ nextConn \in 1 .. MaxConn + 1
        /\ conn < nextConn
    BY <1>1, OutboxNumbers DEF ClientTyped, Linked
  <2>2. QED
    BY <1>4, <2>1 DEF Conns
<1>6. queue[conn'] = <<>> /\ op[conn'] = Idle /\ replies = <<>> /\ (\A i \in sending : refused)
  <2>1. CASE conn = 0
    <3>1. queue[conn'] = <<>> /\ op[conn'] = Idle
      BY <1>1, <1>4, <1>5, <2>1 DEF Unused
    <3>2. replies = <<>> /\ sending = {}
      BY <1>1, <2>1 DEF Linked
    <3>3. QED
      BY <3>1, <3>2
  <2>2. CASE conn # 0
    <3>1. conn' = conn /\ queue[conn] = <<>> /\ op[conn] = Idle /\ replies = <<>>
      BY <1>1, <1>3, <1>4, <2>2 DEF Linked
    <3>2. QED
      BY <2>2, <3>1, LoggedOut
  <2>3. QED
    BY <2>1, <2>2
<1>7. /\ outbox' \in Seq(Items)
      /\ Range(outbox') = Range(outbox) \cup (disk[a] \ Range(outbox))
  <2>1. PICK D : D = disk[a] \ Range(outbox)
    OBVIOUS
  <2>2. D \subseteq Items /\ D \in SUBSET Nat /\ IsFiniteSet(D)
    <3>1. D \subseteq Items
      BY <1>1, <2>1 DEF ClientTyped
    <3>2. QED
      BY <3>1, OutboxNumbers, FS_Subset
  <2>3. merged \in [1 .. Cardinality(D) -> D] /\ Range(merged) = D /\ Cardinality(D) \in Nat
    BY <1>2, <2>1, <2>2, InOrderLists
  <2>4. merged \in Seq(Items)
    <3>1. PICK n \in Nat : n = Cardinality(D)
      BY <2>3
    <3>2. merged \in [1 .. n -> Items]
      BY <2>2, <2>3, <3>1
    <3>3. QED
      BY <3>2
  <2>5. outbox \o merged \in Seq(Items) /\ Range(outbox \o merged) = Range(outbox) \cup Range(merged)
    BY <1>1, <2>4, RangeCat DEF ClientTyped
  <2>6. QED
    BY <1>3, <2>1, <2>3, <2>5
<1>8. /\ queue' \in [Conns -> Seq(Requests)]
      /\ \A d \in Conns \ {conn'} : queue'[d] = queue[d]
      /\ \A r \in Range(queue'[conn']) : r.kind # "send"
  <2>1. PICK q : q = Request("sync", 0)
    OBVIOUS
  <2>2. q \in Requests /\ q.kind = "sync"
    BY <2>1, OutboxNumbers DEF Request, Requests, Kinds
  <2>3. <<q>> \in Seq(Requests) /\ Range(<<q>>) = {q} /\ Range(<<>>) = {}
    BY <2>2 DEF Range
  <2>4. FlushOutbox(<<q>>, fetching)
    BY <1>3, <2>1
  <2>5. /\ queue' \in [Conns -> Seq(Requests)]
        /\ \A d \in Conns \ {conn'} : queue'[d] = queue[d]
        /\ \A r \in Range(queue'[conn']) :
              r \in Range(queue[conn']) \cup Range(<<q>>) \/ r.kind = "fetch"
    BY <1>1, <1>5, <2>3, <2>4, FlushAdds
  <2>6. QED
    BY <1>6, <2>2, <2>3, <2>5
<1>9. /\ account' \in [Conns -> Accounts \cup {NoUser}] /\ account'[conn'] = a
      /\ \A d \in Conns \ {conn'} : account'[d] = account[d]
  BY <1>1, <1>3, <1>5 DEF ServerTyped
<1>10. ClientTyped'
  BY <1>1, <1>3, <1>5, <1>7, <1>8 DEF ClientTyped
<1>11. ServerTyped' /\ HistoryTyped' /\ StoredOnce'
  BY <1>1, <1>3, <1>9 DEF ServerTyped, HistoryTyped, StoredOnce
<1>12. Linked'
  BY <1>3, <1>5, <1>6, <1>9, OutboxNumbers DEF Linked
<1>13. Unused'
  <2> SUFFICES ASSUME NEW d \in Conns, d >= nextConn'
               PROVE  queue'[d] = <<>> /\ op'[d] = Idle /\ account'[d] = NoUser
    BY DEF Unused
  <2>1. d \in Nat /\ conn' \in Nat
    BY <1>5, OutboxNumbers
  <2>2. d >= nextConn /\ d # conn'
    BY <1>5, <2>1
  <2>3. queue[d] = <<>> /\ op[d] = Idle /\ account[d] = NoUser
    BY <1>1, <2>2 DEF Unused
  <2>4. QED
    BY <1>3, <1>8, <1>9, <2>2, <2>3
<1>14. Composed' = Composed
  BY <1>3 DEF Composed
<1>15. Asked'
  <2> SUFFICES ASSUME NEW d \in Conns
               PROVE  /\ \A r \in Range(queue'[d]) : r.kind = "send" => r.item \in Composed'
                      /\ OpFits(d)'
    BY DEF Asked
  <2>1. /\ \A r \in Range(queue[d]) : r.kind = "send" => r.item \in Composed
        /\ OpFits(d)
    BY <1>1 DEF Asked
  <2>2. OpFits(d)'
    BY <1>3, <1>14, <2>1 DEF OpFits, Stored
  <2>3. QED
    BY <1>8, <1>14, <2>1, <2>2
<1>16. Kept'
  <2>1. \A i \in disk[a] : i \notin discarded /\ composer[i] = a
    BY <1>1 DEF Kept
  <2>2. \A i \in Range(outbox') : i \in discarded \/ i \in disk[a]
    BY <1>1, <1>3, <1>7 DEF Kept
  <2>3. a # NoUser
    BY OutboxNumbers
  <2>4. QED
    BY <1>1, <1>3, <1>14, <2>2, <2>3 DEF Kept
<1>17. NothingLost'
  BY <1>1, <1>3, <1>14 DEF NothingLost, Stored
<1>18. Confirmed' /\ Tracked'
  <2>1. Range(replies') = {}
    BY <1>3, <1>6 DEF Range
  <2>2. QED
    BY <1>3, <1>6, <2>1 DEF Confirmed, Tracked, Invalid
<1>19. QED
  BY <1>10, <1>11, <1>12, <1>13, <1>15, <1>16, <1>17, <1>18 DEF OutboxInv

\* The user's data are erased; the connection stays, logged out.
LEMMA LogoutStep ==
    ASSUME OutboxInv, Logout
    PROVE  OutboxInv'
<1>1. /\ ClientTyped /\ ServerTyped /\ HistoryTyped /\ Linked /\ Unused /\ Asked
      /\ StoredOnce
  BY DEF OutboxInv
<1>2. /\ authed /\ queue[conn] = <<>> /\ op[conn] = Idle /\ replies = <<>> /\ ResetAuthState
      /\ account' = [account EXCEPT ![conn] = NoUser]
      /\ UNCHANGED <<conn, sending, replies, nextConn, queue, op, rows, announced,
                     composer, refused>>
  BY DEF Logout
<1>3. /\ user' = NoUser /\ authed' = FALSE
      /\ outbox' \in Seq(Items)
      /\ disk' \in [Accounts -> SUBSET Items] /\ discarded' \subseteq Items
      /\ Kept' /\ NothingLost'
  BY <1>2, ResetGivesUp
<1>4. conn # 0 /\ conn \in Conns
  BY <1>1, <1>2 DEF Linked, ClientTyped, Conns
<1>5. /\ account' \in [Conns -> Accounts \cup {NoUser}] /\ account'[conn] = NoUser
      /\ \A d \in Conns : account'[d] = account[d] \/ account'[d] = NoUser
  BY <1>1, <1>2, <1>4 DEF ServerTyped
<1>6. ClientTyped'
  BY <1>1, <1>2, <1>3 DEF ClientTyped
<1>7. ServerTyped' /\ HistoryTyped' /\ StoredOnce'
  BY <1>1, <1>2, <1>3, <1>5 DEF ServerTyped, HistoryTyped, StoredOnce
<1>8. Linked'
  BY <1>1, <1>2, <1>3, <1>4, <1>5 DEF Linked
<1>9. Unused'
  BY <1>1, <1>2, <1>5 DEF Unused
<1>10. Composed' = Composed
  BY <1>2 DEF Composed
<1>11. Asked'
  <2>1. \A d \in Conns : OpFits(d)'
    BY <1>1, <1>2, <1>10 DEF Asked, OpFits, Stored
  <2>2. QED
    BY <1>1, <1>2, <1>10, <2>1 DEF Asked
<1>12. Confirmed' /\ Tracked'
  <2>1. Range(replies') = {}
    BY <1>2 DEF Range
  <2>2. \A i \in sending : refused
    BY <1>2, <1>4, LoggedOut
  <2>3. QED
    BY <1>2, <2>1, <2>2 DEF Confirmed, Tracked, Invalid
<1>13. QED
  BY <1>3, <1>6, <1>7, <1>8, <1>9, <1>11, <1>12 DEF OutboxInv

\* What a lost connection had not delivered is lost.
LEMMA LoseStep ==
    ASSUME OutboxInv, NEW c \in Conns, Lose(c)
    PROVE  OutboxInv'
<1>1. /\ ClientTyped /\ ServerTyped /\ HistoryTyped /\ Linked /\ Unused /\ Asked
      /\ Kept /\ Confirmed /\ Tracked /\ StoredOnce /\ NothingLost
  BY DEF OutboxInv
<1>2. /\ c # conn /\ queue' = [queue EXCEPT ![c] = <<>>]
      /\ user' = user /\ authed' = authed /\ conn' = conn
      /\ outbox' = outbox
      /\ sending' = sending /\ disk' = disk /\ replies' = replies
      /\ nextConn' = nextConn /\ account' = account /\ op' = op /\ rows' = rows
      /\ announced' = announced
      /\ composer' = composer /\ discarded' = discarded /\ refused' = refused
  BY DEF Lose, clientVars, fetchVars, serverVars, historyVars
<1>3. <<>> \in Seq(Requests) /\ Range(<<>>) = {}
  BY DEF Range
<1>4. /\ queue' \in [Conns -> Seq(Requests)] /\ queue'[c] = <<>>
      /\ \A d \in Conns \ {c} : queue'[d] = queue[d]
  BY <1>1, <1>2, <1>3 DEF ClientTyped
<1>5. conn \in Conns \/ conn = 0
  BY <1>1 DEF ClientTyped, Conns
<1>6. Composed' = Composed
  BY <1>2 DEF Composed
<1>7. ClientTyped' /\ ServerTyped' /\ HistoryTyped' /\ StoredOnce'
  BY <1>1, <1>2, <1>4 DEF ClientTyped, ServerTyped, HistoryTyped, StoredOnce
<1>8. Linked'
  BY <1>1, <1>2, <1>4, <1>5 DEF Linked
<1>9. Unused'
  BY <1>1, <1>2, <1>4 DEF Unused
<1>10. Asked'
  <2>1. \A d \in Conns : OpFits(d)'
    BY <1>1, <1>2, <1>6 DEF Asked, OpFits, Stored
  <2>2. QED
    BY <1>1, <1>3, <1>4, <1>6, <2>1 DEF Asked
<1>11. Kept' /\ NothingLost' /\ Confirmed'
  BY <1>1, <1>2, <1>6 DEF Kept, NothingLost, Confirmed, True, Stored
<1>12. Tracked'
  <2>1. Invalid' = Invalid /\ account' = account
    BY <1>2 DEF Invalid
  <2>2. ASSUME NEW i \in sending
        PROVE  refused \/ Invalid \/ Pending(i)'
    <3>1. conn # 0
      BY <1>1, <2>2 DEF Linked
    <3>2. queue'[conn] = queue[conn]
      BY <1>2, <1>4, <1>5, <3>1
    <3>3. Pending(i) => Pending(i)'
      BY <1>2, <3>2 DEF Pending, Answering
    <3>4. QED
      BY <1>1, <3>3 DEF Tracked
  <2>3. QED
    BY <1>1, <1>2, <2>1, <2>2 DEF Tracked
<1>13. QED
  BY <1>7, <1>8, <1>9, <1>10, <1>11, <1>12 DEF OutboxInv

-----------------------------------------------------------------------------
(***************************************************************************)
(* The invariant holds in every state.                                     *)
(***************************************************************************)
LEMMA OutboxInit ==
    ASSUME Init
    PROVE  OutboxInv
<1>1. /\ user = NoUser /\ authed = FALSE /\ conn = 0 /\ nextConn = 1
      /\ outbox = <<>> /\ sending = {} /\ replies = <<>>
      /\ disk = [a \in Accounts |-> {}]
      /\ queue = [c \in Conns |-> <<>>] /\ account = [c \in Conns |-> NoUser]
      /\ op = [c \in Conns |-> Idle] /\ rows = <<>> /\ announced = {}
      /\ composer = [i \in Items |-> NoUser] /\ discarded = {} /\ refused = FALSE
  BY DEF Init
<1>2. Range(<<>>) = {} /\ DOMAIN rows = {}
  BY <1>1 DEF Range
<1>3. <<>> \in Seq(Items) /\ <<>> \in Seq(Replies) /\ <<>> \in Seq(Requests) /\ <<>> \in Seq(Rows)
  OBVIOUS
<1>4. 0 \in 0 .. MaxConn /\ 1 \in 1 .. MaxConn + 1
  BY OutboxNumbers
<1>5. ClientTyped
  BY <1>1, <1>3, <1>4 DEF ClientTyped
<1>6. Idle \in Ops
  BY OutboxNumbers DEF Idle, Ops
<1>7. ServerTyped /\ HistoryTyped
  BY <1>1, <1>2, <1>3, <1>6 DEF ServerTyped, HistoryTyped
<1>8. Composed = {}
  BY <1>1 DEF Composed
<1>9. Linked /\ Unused /\ Asked
  BY <1>1, <1>2 DEF Linked, Unused, Asked, OpFits
<1>10. Kept /\ Confirmed /\ Tracked
  BY <1>1, <1>2, <1>8 DEF Kept, Confirmed, Tracked, Invalid
<1>11. StoredOnce /\ NothingLost
  BY <1>2, <1>8 DEF StoredOnce, NothingLost
<1>12. QED
  BY <1>5, <1>7, <1>9, <1>10, <1>11 DEF OutboxInv

LEMMA OutboxStutters ==
    ASSUME OutboxInv, UNCHANGED vars
    PROVE  OutboxInv'
<1>1. /\ user' = user /\ authed' = authed /\ conn' = conn
      /\ outbox' = outbox
      /\ sending' = sending /\ disk' = disk /\ replies' = replies /\ queue' = queue
      /\ nextConn' = nextConn /\ account' = account /\ op' = op /\ rows' = rows
      /\ announced' = announced
      /\ composer' = composer /\ discarded' = discarded /\ refused' = refused
  BY DEF vars, clientVars, fetchVars, serverVars, historyVars
<1>2. Composed' = Composed
  BY <1>1 DEF Composed
<1>3. ClientTyped' /\ ServerTyped' /\ HistoryTyped' /\ Linked' /\ Unused' /\ StoredOnce'
  BY <1>1 DEF OutboxInv, ClientTyped, ServerTyped, HistoryTyped, Linked, Unused, StoredOnce
<1>4. \A c \in Conns : OpFits(c)' <=> OpFits(c)
  BY <1>1, <1>2 DEF OpFits, Stored
<1>5. Asked' /\ Kept' /\ Confirmed' /\ NothingLost'
  BY <1>1, <1>2, <1>4 DEF OutboxInv, Asked, Kept, Confirmed, True, NothingLost, Stored
<1>6. Tracked'
  BY <1>1 DEF OutboxInv, Tracked, Invalid, Pending, Answering
<1>7. QED
  BY <1>3, <1>5, <1>6 DEF OutboxInv

LEMMA OutboxStep ==
    ASSUME OutboxInv, [Next]_vars
    PROVE  OutboxInv'
<1>1. CASE \E i \in Items : Compose(i)
  BY <1>1, ComposeStep
<1>2. CASE \E a \in Accounts : Login(a)
  BY <1>2, LoginStep
<1>3. CASE Logout
  BY <1>3, LogoutStep
<1>4. CASE Drop \/ ClientCrash \/ ServerCrash
  BY <1>4, BreakSteps
<1>5. CASE ClientReceive
  <2>1. CASE IngestSyncEvents
    BY <2>1, IngestStep
  <2>2. CASE HandleFetchKeysResponse
    BY <2>2, BundleStep
  <2>3. CASE BundleServesEdit
    BY <2>3, EditBundleStep
  <2>4. CASE HandleSendMessageResponse
    BY <2>4, SendResponseStep
  <2>5. CASE SessionInvalid
    BY <2>5, BreakSteps
  <2>6. CASE FetchFailed
    BY <2>6, FetchFailedStep
  <2>7. CASE RequestRefused \/ AnswerIgnored \/ EditFetchFailed \/ HandleEditMessageResponse
    BY <2>7, UnaskedStep
  <2>8. QED
    BY <1>5, <2>1, <2>2, <2>3, <2>4, <2>5, <2>6, <2>7 DEF ClientReceive
<1>6. CASE BackoffEnds \/ EditMessage
  BY <1>6, BackoffStep, EditStep
<1>7. CASE \E t \in TimerKinds : TimerFires(t)
  BY <1>7, TimerStep
<1>8. ASSUME NEW c \in Conns, Lose(c) \/ Refusal(c) \/ Granted(c) \/ SessionEnds(c)
      PROVE  OutboxInv'
  <2>1. CASE Lose(c)
    BY <2>1, LoseStep
  <2>2. CASE SessionEnds(c)
    BY <2>2, SessionEndsStep
  <2>3. CASE Refusal(c)
    <3>1. CASE GuardRefuses(c)
      BY <3>1, NotServedStep
    <3>2. CASE ProcessFetchKeys(c, "failed")
      BY <3>2, FetchStep
    <3>3. CASE SendRefused(c)
      BY <3>3, SendRefusedStep
    <3>4. CASE SendFails(c)
      BY <3>4, SendFailsStep
    <3>5. CASE ProcessEditMessage(c, "failed")
      BY <3>5, EditServedStep
    <3>6. QED
      BY <2>3, <3>1, <3>2, <3>3, <3>4, <3>5 DEF Refusal
  <2>4. CASE Granted(c)
    <3>1. CASE NotAuthenticated(c)
      BY <3>1, NotServedStep
    <3>2. CASE ProcessSyncEvents(c)
      BY <3>2, SyncStep
    <3>3. CASE ProcessFetchKeys(c, "ok")
      BY <3>3, FetchStep
    <3>4. CASE SendCheck(c)
      BY <3>4, SendCheckStep
    <3>5. CASE SendInsert(c)
      BY <3>5, SendInsertStep
    <3>6. CASE SendAnnounce(c)
      BY <3>6, SendAnnounceStep
    <3>7. CASE ProcessEditMessage(c, "ok")
      BY <3>7, EditServedStep
    <3>8. QED
      BY <2>4, <3>1, <3>2, <3>3, <3>4, <3>5, <3>6, <3>7 DEF Granted
  <2>5. QED
    BY <1>8, <2>1, <2>2, <2>3, <2>4
<1>9. CASE UNCHANGED vars
  BY <1>9, OutboxStutters
<1>10. QED
  BY <1>1, <1>2, <1>3, <1>4, <1>5, <1>6, <1>7, <1>8, <1>9 DEF Next

\* The slot for key requests, its timers and the edit.
LEMMA FlushKeepsSlot ==
    ASSUME NEW written, NEW f \in BOOLEAN, FlushOutbox(written, f)
    PROVE  fetching' \in BOOLEAN /\ missed' \in BOOLEAN
<1> DEFINE fetch == ~f /\ ~backoff' /\ Waiting'
           lost == ~f /\ backoff' /\ Unserved'
<1>1. fetching' = (f \/ fetch) /\ missed' = lost
  BY Zenon DEF FlushOutbox
<1>2. lost \in BOOLEAN
  BY Zenon
<1> HIDE DEF fetch, lost
<1>3. QED
  BY <1>1, <1>2, Zenon

LEMMA SlotInvariant == Spec => []SlotTyped
<1> USE DEF SlotTyped
<1>1. ASSUME Init
      PROVE  SlotTyped
  <2>1. 0 \in 0 .. MaxTimer
    BY OutboxConstants
  <2>2. /\ fetching = FALSE /\ backoff = FALSE /\ edit = FALSE /\ missed = FALSE /\ edits = 0
        /\ timers = [t \in TimerKinds |-> 0]
    BY <1>1 DEF Init
  <2>3. QED
    BY <2>1, <2>2
<1>2. ASSUME SlotTyped, [Next]_vars
      PROVE  SlotTyped'
  <2>1. MaxTimer \in Nat \ {0} /\ TimerKinds = {"fetch", "send"}
    BY OutboxConstants DEF TimerKinds
  <2>2. ASSUME NEW i \in Items, Compose(i)
        PROVE  SlotTyped'
    <3>1. UNCHANGED <<backoff, timers, edit, edits>>
      BY <2>2 DEF Compose, editVars
    <3>2. FlushOutbox(<<>>, fetching) \/ UNCHANGED <<fetching, missed>>
      BY <2>2 DEF Compose
    <3>3. QED
      BY <1>2, <3>1, <3>2, FlushKeepsSlot
  <2>3. ASSUME NEW a \in Accounts, Login(a)
        PROVE  SlotTyped'
    <3>1. UNCHANGED <<backoff, timers, edit, edits>> /\ FlushOutbox(<<Request("sync", 0)>>, fetching)
      BY <2>3 DEF Login, editVars
    <3>2. QED
      BY <1>2, <3>1, FlushKeepsSlot
  <2>4. ASSUME NEW t \in TimerKinds, TimerFires(t)
        PROVE  SlotTyped'
    <3>1. /\ timers[t] > 0 /\ timers' = [timers EXCEPT ![t] = @ - 1]
          /\ UNCHANGED <<backoff, edit, edits>>
      BY <2>4 DEF TimerFires, editVars
    <3>2. FlushOutbox(<<>>, fetching) \/ UNCHANGED <<fetching, missed>>
      BY <2>4 DEF TimerFires
    <3>3. timers' \in [TimerKinds -> 0 .. MaxTimer]
      BY <1>2, <2>1, <3>1
    <3>4. QED
      BY <1>2, <3>1, <3>2, <3>3, FlushKeepsSlot
  <2>5. CASE ClientReceive
    <3>1. CASE HandleFetchKeysResponse
      <4>1. /\ backoff' = FALSE /\ timers' = timers /\ UNCHANGED editVars
            /\ \E written : FlushOutbox(written, FALSE)
        BY <3>1 DEF HandleFetchKeysResponse
      <4>2. QED
        BY <1>2, <4>1, FlushKeepsSlot DEF editVars
    <3>2. CASE FetchFailed
      <4>1. /\ backoff' = TRUE /\ FlushOutbox(<<>>, FALSE) /\ UNCHANGED <<edit, edits>>
            /\ timers' = [timers EXCEPT !["fetch"] = IF @ < MaxTimer THEN @ + 1 ELSE @]
        BY <3>2 DEF FetchFailed, editVars
      <4>2. timers' \in [TimerKinds -> 0 .. MaxTimer]
        BY <1>2, <2>1, <4>1
      <4>3. QED
        BY <1>2, <4>1, <4>2, FlushKeepsSlot
    <3>3. CASE BundleServesEdit \/ EditFetchFailed
      <4>1. /\ fetching' = FALSE /\ backoff' \in {FALSE, backoff} /\ edit' \in {FALSE, edit}
            /\ missed' = Unserved /\ UNCHANGED <<timers, edits>>
        BY <3>3 DEF BundleServesEdit, EditFetchFailed
      <4>2. Unserved \in BOOLEAN
        BY Zenon DEF Unserved
      <4>3. QED
        BY <1>2, <4>1, <4>2
    <3>4. CASE HandleSendMessageResponse
      <4>1. /\ UNCHANGED <<fetching, backoff, edit, edits, missed>>
            /\ timers' = timers \/ timers' = [timers EXCEPT !["send"] = 1]
        BY <3>4 DEF HandleSendMessageResponse, editVars
      <4>2. timers' \in [TimerKinds -> 0 .. MaxTimer]
        BY <1>2, <2>1, <4>1
      <4>3. QED
        BY <1>2, <4>1, <4>2
    <3>5. CASE RequestRefused
      <4>1. /\ UNCHANGED <<backoff, timers, edit, edits, missed>>
            /\ fetching' = (fetching /\ ~(Head(replies).kind = "fetch" /\ Latest))
        BY <3>5 DEF RequestRefused, editVars
      <4>2. fetching' \in BOOLEAN
        BY <4>1, Zenon
      <4>3. QED
        BY <1>2, <4>1, <4>2
    <3>6. CASE IngestSyncEvents \/ AnswerIgnored \/ HandleEditMessageResponse \/ SessionInvalid
      <4>1. /\ fetching' \in {FALSE, fetching} /\ backoff' \in {FALSE, backoff}
            /\ edit' \in {FALSE, edit} /\ missed' \in {FALSE, missed}
            /\ UNCHANGED <<timers, edits>>
        BY <3>6 DEF IngestSyncEvents, AnswerIgnored, HandleEditMessageResponse, SessionInvalid,
                    ResetAuthState, fetchVars, editVars
      <4>2. QED
        BY <1>2, <4>1
    <3>7. QED
      BY <2>5, <3>1, <3>2, <3>3, <3>4, <3>5, <3>6 DEF ClientReceive
  <2>6. CASE Logout \/ Drop \/ ClientCrash \/ ServerCrash \/ BackoffEnds \/ EditMessage
    <3>1. /\ fetching' \in {FALSE, TRUE, fetching} /\ backoff' \in {FALSE, backoff}
          /\ edit' \in {FALSE, TRUE, edit} /\ missed' \in {FALSE, missed}
          /\ edits' \in {edits, edits + 1}
          /\ timers' = timers \/ timers' = [t \in TimerKinds |-> 0]
      BY <2>6 DEF Logout, Drop, ClientCrash, ServerCrash, BackoffEnds, EditMessage,
                  ResetAuthState, OnDisconnected, editVars
    <3>2. timers' \in [TimerKinds -> 0 .. MaxTimer]
      BY <1>2, <2>1, <3>1
    <3>3. edits' \in Nat
      BY <1>2, <3>1
    <3>4. QED
      BY <1>2, <3>1, <3>2, <3>3
  <2>7. ASSUME \/ UNCHANGED vars
               \/ \E c \in Conns : Lose(c) \/ Refusal(c) \/ Granted(c) \/ SessionEnds(c)
        PROVE  SlotTyped'
    <3>1. UNCHANGED clientVars
      BY <2>7 DEF vars, Lose, SessionEnds, Refusal, Granted, GuardRefuses, ProcessFetchKeys,
                  ProcessEditMessage, SendRefused, SendFails, NotAuthenticated,
                  ProcessSyncEvents, SendCheck, SendInsert, SendAnnounce, Valid, Serve
    <3>2. QED
      BY <1>2, <3>1 DEF clientVars, fetchVars, editVars
  <2>8. QED
    BY <1>2, <2>2, <2>3, <2>4, <2>5, <2>6, <2>7 DEF Next
<1>3. QED
  BY <1>1, <1>2, PTL DEF Spec

LEMMA OutboxInvariant == Spec => []OutboxInv
BY OutboxInit, OutboxStep, PTL DEF Spec

-----------------------------------------------------------------------------
(***************************************************************************)
(* The properties.                                                         *)
(***************************************************************************)

\* Every variable keeps its type: what handler threads, replies and rows speak
\* of are messages, and only stored messages are announced.
THEOREM OutboxTypeCorrect == Spec => []TypeOK
<1>1. OutboxInv /\ SlotTyped => TypeOK
  BY TypeParts DEF OutboxInv
<1>2. QED
  BY <1>1, OutboxInvariant, SlotInvariant, PTL

\* However often a send is repeated, and although the first request may still
\* be in the hands of the thread of a lost connection, a message is stored once.
THEOREM SentStoredOnce == Spec => []StoredOnce
<1>1. OutboxInv => StoredOnce
  BY DEF OutboxInv
<1>2. QED
  BY <1>1, OutboxInvariant, PTL

\* No lost connection and no crash, of the client or the server, loses a message:
\* what is not on its composer's disk is stored, or was given up.
THEOREM NoMessageLost == Spec => []NothingLost
<1>1. OutboxInv => NothingLost
  BY DEF OutboxInv
<1>2. QED
  BY <1>1, OutboxInvariant, PTL

\* flushOutbox() never skips a message that nothing will answer, except after a
\* refusal by the replay guard or the end of the session.
THEOREM InFlightIsAnswered == Spec => []InFlightIsReal
<1>1. ASSUME OutboxInv
      PROVE  InFlightIsReal
  <2>1. Linked /\ Tracked
    BY <1>1 DEF OutboxInv
  <2> SUFFICES ASSUME NEW i \in sending
               PROVE  /\ conn # 0
                      /\ \/ refused \/ account[conn] = NoUser
                         \/ Request("send", i) \in Range(queue[conn])
                         \/ op[conn].item = i
                         \/ \E r \in Range(replies) : r.kind = "send" /\ r.item = i
    BY DEF InFlightIsReal
  <2>2. conn # 0
    BY <2>1 DEF Linked
  <2>3. refused \/ Invalid \/ Pending(i)
    BY <2>1 DEF Tracked
  <2>4. QED
    BY <2>1, <2>2, <2>3 DEF Tracked, Pending, Answering
<1>2. QED
  BY <1>1, OutboxInvariant, PTL

-----------------------------------------------------------------------------
(***************************************************************************)
(* With one account on the device, the outbox and the server implement     *)
(* ReliableSend.                                                           *)
(***************************************************************************)

\* What the mapped variables are then, before and after a step.
LEMMA Mapped ==
    ASSUME NEW a, Accounts = {a}, OutboxInv, OutboxInv'
    PROVE  /\ Held = disk[a] /\ Held' = disk'[a] /\ Held \subseteq Composed
           /\ \A i : i \in Abstract!Logged <=> Stored(a, i) # {}
           /\ user # NoUser => user = a
<1>1. /\ ClientTyped /\ ServerTyped /\ HistoryTyped /\ Kept
      /\ ClientTyped' /\ HistoryTyped' /\ Kept'
  BY DEF OutboxInv
<1>2. NoUser \notin Accounts
  BY OutboxNumbers
<1>3. Held = disk[a] /\ Held \subseteq Composed
  <2>1. disk[a] \subseteq Items /\ \A i \in disk[a] : composer[i] = a
    BY <1>1 DEF ClientTyped, Kept
  <2>2. disk[a] \subseteq Composed
    BY <1>2, <2>1 DEF Composed
  <2>3. \A i \in Composed : composer[i] = a
    BY <1>1 DEF Composed, HistoryTyped
  <2>4. QED
    BY <2>1, <2>2, <2>3 DEF Held
<1>4. Held' = disk'[a]
  <2>1. disk'[a] \subseteq Items /\ \A i \in disk'[a] : composer'[i] = a
    BY <1>1 DEF ClientTyped, Kept
  <2>2. disk'[a] \subseteq Composed'
    BY <1>2, <2>1 DEF Composed
  <2>3. \A i \in Composed' : composer'[i] = a
    BY <1>1 DEF Composed, HistoryTyped
  <2>4. Held' = {i \in Composed' : i \in disk'[composer'[i]]}
    BY DEF Held
  <2>5. QED
    BY <2>1, <2>2, <2>3, <2>4
<1>5. \A i : i \in Abstract!Logged <=> Stored(a, i) # {}
  <2>1. DOMAIN Log = DOMAIN rows /\ \A m \in DOMAIN rows : Log[m] = rows[m].key
    BY DEF Log
  <2>2. \A m \in DOMAIN rows : rows[m] = [sender |-> a, key |-> rows[m].key]
    <3>1. \A m \in DOMAIN rows : rows[m] \in Rows
      BY <1>1 DEF ServerTyped
    <3>2. \A r \in Rows : r = [sender |-> a, key |-> r.key]
      BY DEF Rows
    <3>3. QED
      BY <3>1, <3>2
  <2>3. \A i : i \in Abstract!Logged <=> \E m \in DOMAIN rows : rows[m].key = i
    BY <2>1 DEF Abstract!Logged
  <2>4. QED
    BY <2>2, <2>3 DEF Stored
<1>6. user # NoUser => user = a
  BY <1>1 DEF ClientTyped
<1>7. QED
  BY <1>3, <1>4, <1>5, <1>6

\* Steps that touch no message are steps of the others.
LEMMA MappedStutter ==
    ASSUME UNCHANGED <<composer, disk, discarded, rows>>
    PROVE  UNCHANGED Abstract!sendVars
BY DEF Abstract!sendVars, Composed, Held, Log

LEMMA MappedCompose ==
    ASSUME NEW a, Accounts = {a}, OutboxInv, OutboxInv', NEW i \in Items, Compose(i)
    PROVE  Abstract!Compose(i)
<1>1. ClientTyped /\ HistoryTyped
  BY DEF OutboxInv
<1>2. /\ user # NoUser /\ i \notin Composed
      /\ composer' = [composer EXCEPT ![i] = user]
      /\ disk' = [disk EXCEPT ![user] = @ \cup {i}]
      /\ discarded' = discarded /\ rows' = rows
  BY DEF Compose, serverVars
<1>3. Held = disk[a] /\ Held' = disk'[a] /\ user = a
  BY <1>2, Mapped
<1>4. Held' = Held \cup {i}
  BY <1>1, <1>2, <1>3 DEF ClientTyped
<1>5. Composed' = Composed \cup {i}
  <2>1. composer'[i] = user /\ \A j \in Items \ {i} : composer'[j] = composer[j]
    BY <1>1, <1>2 DEF HistoryTyped
  <2>2. QED
    BY <1>2, <2>1 DEF Composed
<1>6. Log' = Log
  BY <1>2 DEF Log
<1>7. QED
  BY <1>2, <1>4, <1>5, <1>6 DEF Abstract!Compose

\* What is stored is released, what was held and cannot be encrypted is given up.
LEMMA MappedSettle ==
    ASSUME NEW a, Accounts = {a}, OutboxInv, OutboxInv', user = a,
           UNCHANGED <<composer, rows>>, NEW S, Settle(S),
           \/ discarded' = discarded /\ \A i \in S : Stored(a, i) # {}
           \/ discarded' = discarded \cup S /\ \E i \in Range(outbox) : S = {i}
    PROVE  [Abstract!Next]_(Abstract!sendVars)
<1>1. ClientTyped /\ Kept
  BY DEF OutboxInv
<1>2. /\ Held = disk[a] /\ Held' = disk'[a]
      /\ \A i : i \in Abstract!Logged <=> Stored(a, i) # {}
  BY Mapped
<1>3. disk' = [disk EXCEPT ![a] = disk[a] \ S]
  BY DEF Settle
<1>4. Held' = Held \ S
  BY <1>1, <1>2, <1>3 DEF ClientTyped
<1>5. Composed' = Composed /\ Log' = Log
  BY DEF Composed, Log
<1>6. CASE discarded' = discarded /\ \A i \in S : Stored(a, i) # {}
  <2>1. PICK R \in SUBSET Held : R = S \cap Held
    OBVIOUS
  <2>2. Abstract!Release(R)
    BY <1>2, <1>4, <1>5, <1>6, <2>1 DEF Abstract!Release
  <2>3. QED
    BY <2>2 DEF Abstract!Next
<1>7. CASE discarded' = discarded \cup S /\ \E i \in Range(outbox) : S = {i}
  <2>1. PICK i \in Range(outbox) : S = {i}
    BY <1>7
  <2>2. CASE i \in Held
    <3>1. Abstract!GiveUp(S)
      BY <1>4, <1>5, <1>7, <2>1, <2>2 DEF Abstract!GiveUp
    <3>2. QED
      BY <2>1, <2>2, <3>1 DEF Abstract!Next
  <2>3. CASE i \notin Held
    <3>1. i \in discarded
      BY <1>1, <1>2, <2>1, <2>3 DEF Kept
    <3>2. discarded' = discarded /\ Held' = Held
      BY <1>4, <1>7, <2>1, <2>3, <3>1
    <3>3. QED
      BY <1>5, <3>2 DEF Abstract!sendVars
  <2>4. QED
    BY <2>2, <2>3
<1>8. QED
  BY <1>6, <1>7

\* Logging out and the end of the session give up all that is held.
LEMMA MappedReset ==
    ASSUME NEW a, Accounts = {a}, OutboxInv, OutboxInv', user = a, ResetAuthState,
           UNCHANGED <<composer, rows>>
    PROVE  Abstract!Next
<1>1. ClientTyped
  BY DEF OutboxInv
<1>2. Held = disk[a] /\ Held' = disk'[a]
  BY Mapped
<1>3. discarded' = discarded \cup Held
  <2>1. discarded' = discarded \cup {i \in Items : user # NoUser /\ i \in disk[user]}
    BY ResetGivesUp
  <2>2. disk[a] \subseteq Items /\ a # NoUser
    BY <1>1, OutboxNumbers DEF ClientTyped
  <2>3. QED
    BY <1>2, <2>1, <2>2
<1>4. disk' = [b \in Accounts |-> IF b = user THEN {} ELSE disk[b]]
  BY DEF ResetAuthState
<1>5. Held' = Held \ Held
  BY <1>2, <1>4
<1>6. Composed' = Composed /\ Log' = Log
  BY DEF Composed, Log
<1>7. Abstract!GiveUp(Held)
  BY <1>3, <1>5, <1>6 DEF Abstract!GiveUp
<1>8. QED
  BY <1>7 DEF Abstract!Next

\* The transaction that adds the row stores the message, for the first time.
LEMMA MappedInsert ==
    ASSUME NEW a, Accounts = {a}, OutboxInv, OutboxInv', NEW c \in Conns, SendInsert(c)
    PROVE  [Abstract!Next]_(Abstract!sendVars)
<1>1. ServerTyped /\ Asked
  BY DEF OutboxInv
<1>2. /\ op[c].step = "insert"
      /\ UNCHANGED <<composer, disk, discarded>>
  BY DEF SendInsert, clientVars, historyVars
<1>3. op[c].item \in Composed /\ op[c].sender = a
  BY <1>1, <1>2 DEF Asked, OpFits, Idle
<1>4. PICK i \in Items : i = op[c].item /\ i \in Composed
  BY <1>3 DEF Composed
<1>5. CASE Stored(a, i) # {}
  <2>1. rows' = rows
    BY <1>3, <1>4, <1>5 DEF SendInsert
  <2>2. QED
    BY <1>2, <2>1, MappedStutter
<1>6. CASE Stored(a, i) = {}
  <2>1. rows' = Append(rows, [sender |-> a, key |-> i])
    BY <1>3, <1>4, <1>6 DEF SendInsert
  <2>2. i \notin Abstract!Logged
    BY <1>6, Mapped
  <2>3. Log' = Append(Log, i)
    <3>1. /\ rows \in Seq(Rows) /\ DOMAIN rows = 1 .. Len(rows) /\ Len(rows) \in Nat
          /\ \A m \in DOMAIN rows : rows[m].key \in Items
      <4>1. rows \in Seq(Rows)
        BY <1>1 DEF ServerTyped
      <4>2. DOMAIN rows = 1 .. Len(rows) /\ Len(rows) \in Nat
        BY <4>1
      <4>3. \A m \in DOMAIN rows : rows[m] \in Rows
        BY <4>1
      <4>4. \A r \in Rows : r.key \in Items
        BY DEF Rows
      <4>5. QED
        BY <4>1, <4>2, <4>3, <4>4
    <3>2. /\ DOMAIN rows' = 1 .. Len(rows) + 1
          /\ \A m \in DOMAIN rows : rows'[m] = rows[m]
          /\ rows'[Len(rows) + 1] = [sender |-> a, key |-> i]
      BY <2>1, <3>1
    <3>3. /\ Log = [m \in 1 .. Len(rows) |-> rows[m].key]
          /\ Log' = [m \in 1 .. Len(rows) + 1 |-> rows'[m].key]
      BY <3>1, <3>2 DEF Log
    <3>4. Log \in Seq(Items) /\ Len(Log) = Len(rows)
      BY <3>1, <3>3
    <3>5. /\ DOMAIN Append(Log, i) = 1 .. Len(rows) + 1
          /\ \A m \in 1 .. Len(rows) : Append(Log, i)[m] = rows[m].key
          /\ Append(Log, i)[Len(rows) + 1] = i
      BY <3>1, <3>3, <3>4
    <3>6. Append(Log, i) = [m \in 1 .. Len(rows) + 1 |-> Append(Log, i)[m]]
      <4>1. PICK q : q = Append(Log, i) /\ q \in Seq(Items)
        BY <3>4, RangeAppend
      <4>2. q = [m \in DOMAIN q |-> q[m]]
        BY <4>1, SeqIsFunction
      <4>3. DOMAIN q = 1 .. Len(rows) + 1
        BY <3>5, <4>1
      <4>4. QED
        BY <4>1, <4>2, <4>3
    <3>7. \A m \in 1 .. Len(rows) + 1 : Append(Log, i)[m] = rows'[m].key
      BY <3>1, <3>2, <3>5
    <3>8. QED
      BY <3>3, <3>6, <3>7
  <2>4. Composed' = Composed /\ Held' = Held
    BY <1>2 DEF Composed, Held
  <2>5. Abstract!Store(i)
    BY <1>2, <1>4, <2>2, <2>3, <2>4 DEF Abstract!Store
  <2>6. QED
    BY <1>4, <2>5 DEF Abstract!Next
<1>7. QED
  BY <1>5, <1>6

LEMMA MappedStep ==
    ASSUME NEW a, Accounts = {a}, OutboxInv, OutboxInv', [Next]_vars
    PROVE  [Abstract!Next]_(Abstract!sendVars)
<1>1. CASE \E i \in Items : Compose(i)
  <2>1. PICK i \in Items : Compose(i)
    BY <1>1
  <2>2. Abstract!Compose(i)
    BY <2>1, MappedCompose
  <2>3. QED
    BY <2>2 DEF Abstract!Next
<1>2. CASE Logout \/ SessionInvalid
  <2>1. ResetAuthState /\ UNCHANGED <<composer, rows>>
    BY <1>2 DEF Logout, SessionInvalid, Arrives, serverVars
  <2>2. user # NoUser
    <3>1. CASE Logout
      BY <3>1 DEF Logout, OutboxInv, Linked
    <3>2. CASE SessionInvalid
      BY <3>2, ReplyArrives, OutboxNumbers DEF SessionInvalid, Arrives
    <3>3. QED
      BY <1>2, <3>1, <3>2
  <2>3. QED
    BY <2>1, <2>2, Mapped, MappedReset
<1>3. CASE IngestSyncEvents
  <2>1. /\ Receive("sync", "ok") /\ Settle(Head(replies).keys) /\ discarded' = discarded
    BY <1>3 DEF IngestSyncEvents
  <2>2. /\ user \in Accounts /\ True(Head(replies)) /\ Head(replies).kind = "sync"
        /\ UNCHANGED <<composer, serverVars>>
    BY <2>1, ReplyTaken
  <2>3. \A i \in Head(replies).keys : Stored(a, i) # {}
    BY <2>2 DEF True
  <2>4. user = a /\ UNCHANGED <<composer, rows>>
    BY <2>2 DEF serverVars
  <2>5. QED
    BY <2>1, <2>3, <2>4, MappedSettle
<1>4. CASE HandleSendMessageResponse
  <2>1. PICK i : i = Head(replies).item
    OBVIOUS
  <2>2. /\ discarded' = discarded
        /\ \/ Receive("send", "ok") /\ Settle({i})
           \/ Receive("send", "failed") /\ UNCHANGED <<outbox, disk>>
    BY <1>4, <2>1 DEF HandleSendMessageResponse
  <2>3. /\ user \in Accounts /\ True(Head(replies)) /\ Head(replies).kind = "send"
        /\ UNCHANGED <<composer, serverVars>>
    BY <2>2, ReplyTaken
  <2>4. user = a /\ UNCHANGED <<composer, rows>>
    BY <2>3 DEF serverVars
  <2>5. CASE Receive("send", "ok") /\ Settle({i})
    <3>1. Stored(a, i) # {}
      BY <2>1, <2>3, <2>4, <2>5 DEF True, Receive, Arrives
    <3>2. \A j \in {i} : Stored(a, j) # {}
      BY <3>1
    <3>3. QED
      BY <2>2, <2>4, <2>5, <3>2, MappedSettle
  <2>6. CASE UNCHANGED <<outbox, disk>>
    BY <2>2, <2>4, <2>6, MappedStutter
  <2>7. QED
    BY <2>2, <2>5, <2>6
<1>5. CASE HandleFetchKeysResponse
  <2>1. PICK idle : idle = Without(outbox, sending)
    OBVIOUS
  <2>2. /\ Receive("fetch", "ok")
        /\ \/ UNCHANGED <<disk, discarded>>
           \/ /\ idle # <<>> /\ Settle({Head(idle)})
              /\ discarded' = discarded \cup {Head(idle)}
    BY <1>5, <2>1, Zenon DEF HandleFetchKeysResponse, ReceiveLatest
  <2>3. user \in Accounts /\ UNCHANGED <<composer, serverVars>>
    BY <2>2, ReplyTaken
  <2>4. user = a /\ UNCHANGED <<composer, rows>>
    BY <2>3 DEF serverVars
  <2>5. CASE UNCHANGED <<disk, discarded>>
    BY <2>4, <2>5, MappedStutter
  <2>6. CASE /\ idle # <<>> /\ Settle({Head(idle)})
             /\ discarded' = discarded \cup {Head(idle)}
    <3>1. Head(idle) \in Range(outbox)
      <4>1. idle \in Seq(Items) /\ Range(idle) = Range(outbox) \ sending
        BY <2>1, WithoutTakesOut DEF OutboxInv, ClientTyped
      <4>2. Head(idle) \in Range(idle)
        BY <2>6, <4>1, RangeTail
      <4>3. QED
        BY <4>1, <4>2
    <3>2. PICK S : S = {Head(idle)}
      OBVIOUS
    <3>3. /\ Settle(S) /\ discarded' = discarded \cup S
          /\ \E i \in Range(outbox) : S = {i}
      BY <2>6, <3>1, <3>2
    <3>4. QED
      BY <2>4, <3>3, MappedSettle
  <2>7. QED
    BY <2>2, <2>5, <2>6
<1>6. CASE \E c \in Conns : SendInsert(c)
  BY <1>6, MappedInsert
<1>7. CASE \/ \E b \in Accounts : Login(b)
           \/ Drop \/ ClientCrash \/ ServerCrash \/ FetchFailed \/ RequestRefused \/ BackoffEnds
           \/ EditMessage \/ BundleServesEdit \/ EditFetchFailed \/ AnswerIgnored
           \/ HandleEditMessageResponse
           \/ \E t \in TimerKinds : TimerFires(t)
  <2>1. UNCHANGED <<composer, disk, discarded, rows>>
    BY <1>7 DEF Login, Drop, ClientCrash, ServerCrash, OnDisconnected, FetchFailed,
                RequestRefused, BackoffEnds, EditMessage, BundleServesEdit, EditFetchFailed,
                AnswerIgnored, HandleEditMessageResponse, TimerFires, ReceiveLatest, Receive,
                Arrives, serverVars, historyVars
  <2>2. QED
    BY <2>1, MappedStutter
<1>8. CASE \E c \in Conns : \/ Lose(c) \/ SessionEnds(c) \/ Refusal(c) \/ NotAuthenticated(c)
                            \/ ProcessSyncEvents(c) \/ ProcessFetchKeys(c, "ok")
                            \/ ProcessEditMessage(c, "ok")
                            \/ SendCheck(c) \/ SendAnnounce(c)
  <2>1. UNCHANGED <<composer, disk, discarded, rows>>
    BY <1>8 DEF Lose, SessionEnds, Refusal, GuardRefuses, ProcessFetchKeys,
                ProcessEditMessage, SendRefused,
                SendFails, NotAuthenticated, ProcessSyncEvents, SendCheck, SendAnnounce,
                Valid, Serve, clientVars, serverVars, historyVars
  <2>2. QED
    BY <2>1, MappedStutter
<1>9. CASE UNCHANGED vars
  <2>1. UNCHANGED <<composer, disk, discarded, rows>>
    BY <1>9 DEF vars, clientVars, serverVars, historyVars
  <2>2. QED
    BY <2>1, MappedStutter
<1>10. QED
  BY <1>1, <1>2, <1>3, <1>4, <1>5, <1>6, <1>7, <1>8, <1>9
     DEF Next, ClientReceive, Granted

\* One account's outbox and the server implement ReliableSend: a message is
\* stored once and in one step, and let go of only when it is stored or given
\* up.  With a second account the log has messages twice (SentByComposer).
THEOREM OutboxIsReliable ==
    ASSUME NEW a, Accounts = {a}
    PROVE  Spec => ImplementsReliableSend
<1>1. Init => Abstract!Init
  <2> SUFFICES ASSUME Init
               PROVE  Abstract!Init
    OBVIOUS
  <2>1. Composed = {} /\ discarded = {} /\ Held = {}
    BY DEF Init, Composed, Held
  <2>2. Log = <<>>
    BY DEF Init, Log
  <2>3. QED
    BY <2>1, <2>2 DEF Abstract!Init
<1>2. OutboxInv /\ OutboxInv' /\ [Next]_vars => [Abstract!Next]_(Abstract!sendVars)
  BY MappedStep
<1>3. QED
  BY <1>1, <1>2, OutboxInvariant, PTL DEF Spec, ImplementsReliableSend, Abstract!Spec
=============================================================================
