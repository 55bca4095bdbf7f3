---------------------------- MODULE ReceiptsProofs ----------------------------
(***************************************************************************)
(* Theorems about Receipts, for every set of recipients and devices and    *)
(* every number of messages, acknowledgements, moves and breaks of the     *)
(* sender's connection: statements of any number of acknowledgements       *)
(* interleave with each other and with members who come and go, and the    *)
(* pushes and the sender's stream race each other to the sender's client.  *)
(***************************************************************************)
EXTENDS Receipts, FiniteSetTheorems, WellFoundedInduction, TLAPS

-----------------------------------------------------------------------------
(***************************************************************************)
(* The inductive invariant.                                                *)
(***************************************************************************)
ReceiptKinds == {"", "delivered", "read"}
Counts == 0 .. Cardinality(Recipients)

AckRecords == [step : AckSteps, msg : 0 .. MaxMessage, kind : ReceiptKinds,
               was : Statuses, expected : Counts, reads : Counts, status : Statuses]

\* The rows and the handlers' locals; what the sender's side holds does not
\* matter here.
RowsTyped ==
    /\ recipients \subseteq Recipients
    /\ receipt \in [Messages -> [AckHandlers -> ReceiptKinds]]
    /\ msgStatus \in [Messages -> Statuses \ {""}]
    /\ readUpTo \in [Recipients -> 0 .. MaxMessage]
    /\ ack \in [AckHandlers -> AckRecords]
    /\ moves \in Seq(Recipients)

\* A handler at work has a message and a kind of receipt.
AtWork == \A h \in AckHandlers :
    ack[h].step # "idle" => ack[h].msg \in Messages /\ ack[h].kind # ""

\* Who is not a member has moved.
MoversKnown == Recipients \subseteq recipients \cup Moved

\* The recipients who have been members all the time.
Stayed == recipients \ Moved

ReadEarned(m) == Stayed \subseteq ReadersOf(m) \/ ReadersOf(m) \cap Moved # {}
DeliveredEarned(m) == Stayed \subseteq ReceiversOf(m) \/ ReceiversOf(m) \cap Moved # {}

\* What a handler's counts say, taken one after the other as they are: the
\* first is never below the number of those who stayed, and the status that
\* follows is earned from the moment the last count is taken.
CountsMean(h) ==
    /\ ack[h].step \in {"reads", "delivered"} => Cardinality(Stayed) <= ack[h].expected
    /\ ack[h].step = "delivered" /\ ack[h].reads >= ack[h].expected =>
          ReadEarned(ack[h].msg)
    /\ ack[h].step = "update" =>
          /\ ack[h].status \in {"delivered", "read"} /\ DeliveredEarned(ack[h].msg)
          /\ ack[h].status = "read" => ReadEarned(ack[h].msg)

Earned == \A h \in AckHandlers : CountsMean(h)

StatusInv ==
    RowsTyped /\ AtWork /\ MoversKnown /\ Earned /\ StatusEarned /\ ReadIsNotUnread

-----------------------------------------------------------------------------
(***************************************************************************)
(* Receipts are only ever added and who has moved stays so: what is earned *)
(* stays earned.                                                           *)
(***************************************************************************)
ReceiptsGrow ==
    /\ \A m \in Messages : /\ ReadersOf(m) \subseteq ReadersOf(m)'
                           /\ ReceiversOf(m) \subseteq ReceiversOf(m)'
    /\ Moved \subseteq Moved' /\ Stayed' \subseteq Stayed

LEMMA EarnedStays ==
    ASSUME ReceiptsGrow, NEW m \in Messages
    PROVE  /\ ReadEarned(m) => ReadEarned(m)'
           /\ DeliveredEarned(m) => DeliveredEarned(m)'
<1>1. /\ ReadersOf(m) \subseteq ReadersOf(m)' /\ ReceiversOf(m) \subseteq ReceiversOf(m)'
      /\ Moved \subseteq Moved' /\ Stayed' \subseteq Stayed
  BY DEF ReceiptsGrow
<1>2. QED
  BY <1>1 DEF ReadEarned, DeliveredEarned

LEMMA ReadIsDelivered ==
    ASSUME NEW m
    PROVE  /\ ReadersOf(m) \subseteq ReceiversOf(m)
           /\ ReadEarned(m) => DeliveredEarned(m)
BY DEF ReadersOf, ReceiversOf, ReadEarned, DeliveredEarned

\* The rows stay as they are.
LEMMA RowsSame ==
    ASSUME receipt' = receipt, recipients' = recipients, moves' = moves
    PROVE  ReceiptsGrow /\ Moved' = Moved /\ Stayed' = Stayed
BY DEF ReceiptsGrow, ReadersOf, ReceiversOf, Moved, Stayed

\* recordMessageReceipt() never takes a receipt back.
LEMMA RecordGrows ==
    ASSUME RowsTyped, AtWork, NEW h \in AckHandlers, AckRecord(h)
    PROVE  ReceiptsGrow
<1>1. PICK m \in Messages, kind \in ReceiptKinds \ {""} :
         /\ m = ack[h].msg /\ kind = ack[h].kind
         /\ receipt' = [receipt EXCEPT ![m][h] = IF @ = "read" THEN @ ELSE kind]
  BY DEF AckRecord, AckAt, AtWork, RowsTyped, AckRecords
<1>2. \A n \in Messages, g \in AckHandlers :
         /\ receipt[n][g] # "" => receipt'[n][g] # ""
         /\ receipt[n][g] = "read" => receipt'[n][g] = "read"
  BY <1>1 DEF RowsTyped
<1>3. \A n \in Messages : /\ ReadersOf(n) \subseteq ReadersOf(n)'
                          /\ ReceiversOf(n) \subseteq ReceiversOf(n)'
  BY <1>2 DEF ReadersOf, ReceiversOf, AckHandlers
<1>4. recipients' = recipients /\ moves' = moves
  BY DEF AckRecord, AckAt
<1>5. QED
  BY <1>3, <1>4 DEF ReceiptsGrow, Moved, Stayed

\* A member who leaves or joins has moved.
LEMMA MoveGrows ==
    ASSUME RowsTyped, NEW u \in Recipients, MemberMoves(u)
    PROVE  /\ ReceiptsGrow /\ Moved' = Moved \cup {u}
           /\ moves' \in Seq(Recipients) /\ recipients' \subseteq Recipients
           /\ recipients \subseteq recipients' \cup {u}
<1>1. /\ moves \in Seq(Recipients) /\ moves' = Append(moves, u)
      /\ recipients' = IF u \in recipients THEN recipients \ {u} ELSE recipients \cup {u}
      /\ receipt' = receipt
  BY DEF RowsTyped, MemberMoves
<1>2. /\ moves' \in Seq(Recipients)
      /\ DOMAIN moves' = DOMAIN moves \cup {Len(moves) + 1}
      /\ moves'[Len(moves) + 1] = u
      /\ \A i \in DOMAIN moves : moves'[i] = moves[i]
  BY <1>1
<1>3. Moved' = Moved \cup {u}
  BY <1>2 DEF Moved
<1>4. Stayed' \subseteq Stayed
  BY <1>1, <1>3 DEF Stayed
<1>5. QED
  BY <1>1, <1>2, <1>3, <1>4 DEF ReceiptsGrow, ReadersOf, ReceiversOf, RowsTyped

-----------------------------------------------------------------------------
(***************************************************************************)
(* What the handlers and the rows keep.                                    *)
(***************************************************************************)
LEMMA StayedCounted ==
    ASSUME recipients \subseteq Recipients
    PROVE  /\ IsFiniteSet(Stayed) /\ Cardinality(Stayed) \in Nat
           /\ IsFiniteSet(recipients) /\ Cardinality(recipients) \in Counts
           /\ Cardinality(Stayed) <= Cardinality(recipients)
           /\ Cardinality(Recipients) \in Nat
<1>1. /\ IsFiniteSet(recipients) /\ Cardinality(recipients) \in Nat
      /\ Cardinality(recipients) <= Cardinality(Recipients)
      /\ Cardinality(Recipients) \in Nat
  BY ReceiptConstants, FS_Subset, FS_CardinalityType
<1>2. /\ IsFiniteSet(Stayed) /\ Cardinality(Stayed) \in Nat
      /\ Cardinality(Stayed) <= Cardinality(recipients)
  BY <1>1, FS_Subset, FS_CardinalityType DEF Stayed
<1>3. QED
  BY <1>1, <1>2 DEF Counts

\* Fewer may have stayed than when a handler counted, never more.
LEMMA FewerStay ==
    ASSUME recipients \subseteq Recipients, Stayed' \subseteq Stayed
    PROVE  Cardinality(Stayed)' \in Nat /\ Cardinality(Stayed)' <= Cardinality(Stayed)
BY StayedCounted, FS_Subset, FS_CardinalityType

\* Numbers of messages and positions.
LEMMA ReceiptNumbers ==
    /\ MaxMessage \in Nat /\ \A m \in Messages : m \in Nat /\ m > 0
    /\ 0 \in Counts /\ \A n \in Counts : n \in Nat
    /\ RowsTyped => \A u \in Recipients : readUpTo[u] \in Nat
<1>1. MaxMessage \in Nat /\ Cardinality(Recipients) \in Nat
  BY ReceiptConstants, FS_CardinalityType
<1>2. \A m \in Messages : m \in Nat /\ m > 0
  BY <1>1 DEF Messages
<1>3. 0 \in Counts /\ \A n \in Counts : n \in Nat
  BY <1>1 DEF Counts
<1>4. ASSUME RowsTyped, NEW u \in Recipients
      PROVE  readUpTo[u] \in Nat
  <2>1. readUpTo[u] \in 0 .. MaxMessage
    BY <1>4 DEF RowsTyped
  <2>2. QED
    BY <1>1, <2>1
<1>5. QED
  BY <1>1, <1>2, <1>3, <1>4

LEMMA NoPositionAhead ==
    ASSUME RowsTyped
    PROVE  \A u \in Recipients : readUpTo[u] <= readUpTo[u]
BY ReceiptNumbers

LEMMA CountsStay ==
    ASSUME RowsTyped, AtWork, ReceiptsGrow, NEW h \in AckHandlers, ack'[h] = ack[h],
           CountsMean(h)
    PROVE  CountsMean(h)'
<1>1. PICK a \in AckRecords : a = ack[h] /\ a = ack'[h]
  BY DEF RowsTyped
<1>2. CASE a.step \in {"reads", "delivered", "update"}
  <2>1. a.msg \in Messages
    BY <1>1, <1>2 DEF AtWork
  <2>2. /\ ReadEarned(a.msg) => ReadEarned(a.msg)'
        /\ DeliveredEarned(a.msg) => DeliveredEarned(a.msg)'
    BY <2>1, EarnedStays
  <2>3. /\ Cardinality(Stayed) \in Nat
        /\ Cardinality(Stayed)' \in Nat /\ Cardinality(Stayed)' <= Cardinality(Stayed)
    BY FewerStay, StayedCounted DEF RowsTyped, ReceiptsGrow
  <2>4. a.expected \in Nat
    BY ReceiptNumbers DEF AckRecords
  <2>5. a.step \in {"reads", "delivered"} => Cardinality(Stayed)' <= a.expected
    BY <1>1, <2>3, <2>4 DEF CountsMean
  <2>6. QED
    BY <1>1, <2>2, <2>5 DEF CountsMean
<1>3. CASE a.step \notin {"reads", "delivered", "update"}
  BY <1>1, <1>3 DEF CountsMean
<1>4. QED
  BY <1>2, <1>3

LEMMA StatusMeans ==
    StatusEarned <=> \A m \in Messages : /\ msgStatus[m] = "read" => ReadEarned(m)
                                         /\ msgStatus[m] # "sent" => DeliveredEarned(m)
BY DEF StatusEarned, ReadEarned, DeliveredEarned, Stayed

LEMMA StatusStays ==
    ASSUME StatusEarned, ReceiptsGrow, msgStatus' = msgStatus
    PROVE  StatusEarned'
<1>1. \A m \in Messages : /\ msgStatus'[m] = "read" => ReadEarned(m)'
                          /\ msgStatus'[m] # "sent" => DeliveredEarned(m)'
  BY StatusMeans, EarnedStays
<1>2. QED
  BY <1>1 DEF StatusEarned, ReadEarned, DeliveredEarned, Stayed

\* Nobody who has read a message falls behind as long as the positions only
\* move forward and the handlers between receipt and position stay there.
LEMMA ReadsStay ==
    ASSUME ReadIsNotUnread, RowsTyped, receipt' = receipt, Moved \subseteq Moved',
           readUpTo' \in [Recipients -> 0 .. MaxMessage],
           \A u \in Recipients : u \in Moved' \/ readUpTo[u] <= readUpTo'[u],
           \A h \in AckHandlers : ack[h].step = "cursor" => ack'[h] = ack[h]
    PROVE  ReadIsNotUnread'
<1> SUFFICES ASSUME NEW m \in Messages, NEW u \in ReadersOf(m)', u \notin Moved',
                    ~(readUpTo'[u] >= m)
             PROVE  \E h \in InProgress(m)' : h[1] = u /\ ack'[h].step = "cursor"
  BY DEF ReadIsNotUnread
<1>1. u \in ReadersOf(m) /\ u \in Recipients /\ u \notin Moved
  BY DEF ReadersOf
<1>2. ~(readUpTo[u] >= m)
  <2>1. readUpTo[u] \in Int /\ readUpTo'[u] \in Int /\ m \in Int
    <3>1. readUpTo'[u] \in 0 .. MaxMessage
      BY <1>1
    <3>2. QED
      BY <1>1, <3>1, ReceiptNumbers
  <2>2. readUpTo[u] <= readUpTo'[u]
    BY <1>1
  <2>3. QED
    BY <2>1, <2>2
<1>3. PICK h \in InProgress(m) : h[1] = u /\ ack[h].step = "cursor"
  BY <1>1, <1>2 DEF ReadIsNotUnread
<1>4. QED
  BY <1>3 DEF InProgress

\* A step of one handler that touches no row but, perhaps, the status.
LEMMA LocalStep ==
    ASSUME StatusInv, NEW h \in AckHandlers,
           receipt' = receipt, recipients' = recipients, moves' = moves,
           readUpTo' = readUpTo, ack[h].step # "cursor",
           ack' \in [AckHandlers -> AckRecords],
           \A g \in AckHandlers \ {h} : ack'[g] = ack[g],
           ack'[h].step # "idle" => ack'[h].msg \in Messages /\ ack'[h].kind # "",
           msgStatus' \in [Messages -> Statuses \ {""}],
           CountsMean(h)', StatusEarned'
    PROVE  StatusInv'
<1>1. ReceiptsGrow /\ Moved' = Moved
  BY RowsSame
<1>2. RowsTyped' /\ AtWork' /\ MoversKnown'
  BY <1>1 DEF StatusInv, RowsTyped, AtWork, MoversKnown
<1>3. Earned'
  BY <1>1, CountsStay DEF StatusInv, Earned
<1>4. ReadIsNotUnread'
  <2>1. \A u \in Recipients : readUpTo[u] <= readUpTo'[u]
    BY NoPositionAhead DEF StatusInv
  <2>2. readUpTo' \in [Recipients -> 0 .. MaxMessage]
    BY DEF StatusInv, RowsTyped
  <2>3. \A g \in AckHandlers : ack[g].step = "cursor" => ack'[g] = ack[g]
    OBVIOUS
  <2>4. QED
    BY <1>1, <2>1, <2>2, <2>3, ReadsStay DEF StatusInv
<1>5. QED
  BY <1>2, <1>3, <1>4 DEF StatusInv

-----------------------------------------------------------------------------
(***************************************************************************)
(* The steps of ack_message.                                               *)
(***************************************************************************)

\* A step that only moves the handler on.
LEMMA MovedOn ==
    ASSUME RowsTyped, NEW h \in AckHandlers, NEW step \in AckSteps, AckGoTo(h, step)
    PROVE  /\ ack' \in [AckHandlers -> AckRecords]
           /\ ack'[h].step = step /\ ack'[h].msg = ack[h].msg
           /\ ack'[h].kind = ack[h].kind /\ ack'[h].status = ack[h].status
           /\ \A g \in AckHandlers \ {h} : ack'[g] = ack[g]
BY DEF RowsTyped, AckGoTo, AckRecords

LEMMA NoAckTyped == NoAck \in AckRecords /\ NoAck.step = "idle" /\ 0 \in 0 .. MaxMessage
<1>1. 0 \in Counts /\ 0 \in 0 .. MaxMessage
  BY ReceiptNumbers
<1>2. QED
  BY <1>1 DEF NoAck, AckRecords, AckSteps, ReceiptKinds, Statuses

LEMMA StartStep ==
    ASSUME StatusInv, NEW h \in AckHandlers, NEW m \in Messages,
           NEW kind \in {"delivered", "read"}, AckStart(h, m, kind)
    PROVE  StatusInv'
<1>1. PICK a : a = [NoAck EXCEPT !.step = "record", !.msg = m, !.kind = kind,
                                 !.was = msgStatus[m]]
  OBVIOUS
<1>2. msgStatus[m] \in Statuses /\ m \in 0 .. MaxMessage /\ 0 \in Counts /\ 0 \in 0 .. MaxMessage
  <2>1. m \in 0 .. MaxMessage /\ 0 \in 0 .. MaxMessage
    BY ReceiptConstants DEF Messages
  <2>2. 0 \in Counts
    BY ReceiptNumbers
  <2>3. QED
    BY <2>1, <2>2 DEF StatusInv, RowsTyped
<1>3. a \in AckRecords /\ a.step = "record" /\ a.msg = m /\ a.kind = kind
  BY <1>1, <1>2 DEF NoAck, AckRecords, AckSteps, ReceiptKinds, Statuses
<1>4. /\ ack[h].step = "idle" /\ ack' = [ack EXCEPT ![h] = a]
      /\ UNCHANGED <<recipients, receipt, msgStatus, readUpTo, moves>>
  <2>1. ack[h] = NoAck /\ NoAck.step = "idle"
    BY DEF AckStart, NoAck
  <2>2. ack' = [ack EXCEPT ![h] = a]
    BY <1>1, Zenon DEF AckStart
  <2>3. UNCHANGED <<recipients, receipt, msgStatus, readUpTo, moves>>
    BY DEF AckStart
  <2>4. QED
    BY <2>1, <2>2, <2>3
<1>5. /\ ack' \in [AckHandlers -> AckRecords] /\ ack'[h] = a
      /\ \A g \in AckHandlers \ {h} : ack'[g] = ack[g]
  BY <1>3, <1>4 DEF StatusInv, RowsTyped
<1>6. CountsMean(h)'
  BY <1>3, <1>5 DEF CountsMean
<1>7. StatusEarned'
  BY <1>4, RowsSame, StatusStays DEF StatusInv
<1>8. QED
  BY <1>3, <1>4, <1>5, <1>6, <1>7, LocalStep DEF StatusInv, RowsTyped

\* The receipt is written: whoever reads now is at the step that moves the
\* position on.
LEMMA RecordStep ==
    ASSUME StatusInv, NEW h \in AckHandlers, AckRecord(h)
    PROVE  StatusInv'
<1>1. RowsTyped /\ AtWork /\ Earned /\ StatusEarned /\ MoversKnown /\ ReadIsNotUnread
  BY DEF StatusInv
<1>2. PICK m \in Messages, kind \in ReceiptKinds \ {""} :
         /\ m = ack[h].msg /\ kind = ack[h].kind
         /\ receipt' = [receipt EXCEPT ![m][h] = IF @ = "read" THEN @ ELSE kind]
  BY <1>1 DEF AckRecord, AckAt, AtWork, RowsTyped, AckRecords
<1>3. PICK step \in {"cursor", "expected"} :
         /\ AckGoTo(h, step) /\ (kind = "read" => step = "cursor")
  BY <1>2 DEF AckRecord
<1>4. /\ UNCHANGED <<recipients, moves, msgStatus, readUpTo>>
      /\ ack[h].step = "record"
  BY DEF AckRecord, AckAt
<1>5. /\ ack' \in [AckHandlers -> AckRecords]
      /\ ack'[h].step = step /\ ack'[h].msg = m /\ ack'[h].kind = kind
      /\ \A g \in AckHandlers \ {h} : ack'[g] = ack[g]
  BY <1>1, <1>2, <1>3, MovedOn DEF AckSteps
<1>6. ReceiptsGrow
  BY <1>1, RecordGrows
<1>7. RowsTyped'
  <2>1. receipt' \in [Messages -> [AckHandlers -> ReceiptKinds]]
    BY <1>1, <1>2 DEF RowsTyped
  <2>2. QED
    BY <1>1, <1>4, <1>5, <2>1 DEF RowsTyped
<1>8. AtWork' /\ MoversKnown'
  BY <1>1, <1>2, <1>4, <1>5 DEF AtWork, MoversKnown, Moved
<1>9. CountsMean(h)'
  BY <1>3, <1>5 DEF CountsMean
<1>10. Earned'
  BY <1>1, <1>5, <1>6, <1>9, CountsStay DEF Earned
<1>11. StatusEarned'
  BY <1>1, <1>4, <1>6, StatusStays
<1>12. ReadIsNotUnread'
  <2> SUFFICES ASSUME NEW n \in Messages, NEW u \in ReadersOf(n)', u \notin Moved',
                      ~(readUpTo'[u] >= n)
               PROVE  \E g \in InProgress(n)' : g[1] = u /\ ack'[g].step = "cursor"
    BY DEF ReadIsNotUnread
  <2>1. u \notin Moved /\ readUpTo'[u] = readUpTo[u]
    BY <1>4 DEF Moved
  <2>2. CASE u \in ReadersOf(n)
    <3>1. PICK g \in InProgress(n) : g[1] = u /\ ack[g].step = "cursor"
      BY <1>1, <2>1, <2>2 DEF ReadIsNotUnread
    <3>2. g \in AckHandlers \ {h} /\ ack'[g] = ack[g]
      BY <1>4, <1>5, <3>1 DEF InProgress
    <3>3. QED
      BY <3>1, <3>2 DEF InProgress
  <2>3. CASE u \notin ReadersOf(n)
    <3>1. PICK d \in AckDevices : receipt'[n][<<u, d>>] = "read" /\ u \in Recipients
      BY DEF ReadersOf
    <3>2. receipt[n][<<u, d>>] # "read" /\ <<u, d>> \in AckHandlers
      BY <2>3, <3>1 DEF ReadersOf, AckHandlers
    <3>3. n = m /\ <<u, d>> = h /\ kind = "read"
      BY <1>1, <1>2, <3>1, <3>2 DEF RowsTyped
    <3>4. h \in InProgress(n)' /\ h[1] = u /\ ack'[h].step = "cursor"
      BY <1>3, <1>5, <3>3 DEF InProgress
    <3>5. QED
      BY <3>4
  <2>4. QED
    BY <2>2, <2>3
<1>13. QED
  BY <1>7, <1>8, <1>10, <1>11, <1>12 DEF StatusInv

\* The position is moved on, unless the reader is not a member: then the reader
\* has moved.
LEMMA CursorStep ==
    ASSUME StatusInv, NEW h \in AckHandlers, AckCursor(h)
    PROVE  StatusInv'
<1>1. RowsTyped /\ AtWork /\ Earned /\ StatusEarned /\ MoversKnown /\ ReadIsNotUnread
  BY DEF StatusInv
<1>2. /\ UNCHANGED <<recipients, moves, receipt, msgStatus>>
      /\ ack[h].step = "cursor" /\ AckGoTo(h, "expected")
      /\ readUpTo' = [readUpTo EXCEPT ![h[1]] =
             IF h[1] \in recipients /\ @ < ack[h].msg THEN ack[h].msg ELSE @]
  BY DEF AckCursor, AckAt
<1>3. PICK m \in Messages : m = ack[h].msg /\ ack[h].kind # ""
  BY <1>1, <1>2 DEF AtWork
<1>4. /\ ack' \in [AckHandlers -> AckRecords]
      /\ ack'[h].step = "expected" /\ ack'[h].msg = m /\ ack'[h].kind = ack[h].kind
      /\ \A g \in AckHandlers \ {h} : ack'[g] = ack[g]
  BY <1>1, <1>2, <1>3, MovedOn DEF AckSteps
<1>5. PICK v \in Recipients : v = h[1]
  BY DEF AckHandlers
<1>6. /\ readUpTo' \in [Recipients -> 0 .. MaxMessage]
      /\ \A u \in Recipients : readUpTo[u] <= readUpTo'[u]
      /\ v \in recipients => readUpTo'[v] >= m
  <2>1. PICK new : new = IF v \in recipients /\ readUpTo[v] < m THEN m ELSE readUpTo[v]
    OBVIOUS
  <2>2. readUpTo' = [readUpTo EXCEPT ![v] = new]
    BY <1>2, <1>3, <1>5, <2>1
  <2>3. /\ m \in Nat /\ m \in 0 .. MaxMessage /\ readUpTo[v] \in 0 .. MaxMessage
        /\ readUpTo[v] \in Nat
    <3>1. m \in Nat /\ readUpTo[v] \in Nat
      BY <1>1, ReceiptNumbers
    <3>2. m \in 0 .. MaxMessage
      BY <3>1 DEF Messages
    <3>3. readUpTo[v] \in 0 .. MaxMessage
      BY <1>1 DEF RowsTyped
    <3>4. QED
      BY <3>1, <3>2, <3>3
  <2>4. new \in 0 .. MaxMessage /\ readUpTo[v] <= new /\ (v \in recipients => new >= m)
    BY <2>1, <2>3
  <2>5. readUpTo' \in [Recipients -> 0 .. MaxMessage] /\ readUpTo'[v] = new
           /\ \A u \in Recipients \ {v} : readUpTo'[u] = readUpTo[u]
    BY <1>1, <2>2, <2>4 DEF RowsTyped
  <2>6. \A u \in Recipients : readUpTo[u] <= readUpTo'[u]
    BY <1>1, <2>4, <2>5, NoPositionAhead
  <2>7. QED
    BY <2>4, <2>5, <2>6
<1>7. ReceiptsGrow /\ Moved' = Moved
  BY <1>2, RowsSame
<1>8. RowsTyped' /\ AtWork' /\ MoversKnown'
  BY <1>1, <1>2, <1>3, <1>4, <1>6, <1>7 DEF RowsTyped, AtWork, MoversKnown
<1>9. CountsMean(h)'
  BY <1>4 DEF CountsMean
<1>10. Earned' /\ StatusEarned'
  BY <1>1, <1>2, <1>4, <1>7, <1>9, CountsStay, StatusStays DEF Earned
<1>11. ReadIsNotUnread'
  <2> SUFFICES ASSUME NEW n \in Messages, NEW u \in ReadersOf(n)', u \notin Moved',
                      ~(readUpTo'[u] >= n)
               PROVE  \E g \in InProgress(n)' : g[1] = u /\ ack'[g].step = "cursor"
    BY DEF ReadIsNotUnread
  <2>1. u \in ReadersOf(n) /\ u \notin Moved /\ u \in Recipients
    BY <1>2, <1>7 DEF ReadersOf
  <2>2. ~(readUpTo[u] >= n)
    <3>1. n \in Nat /\ readUpTo[u] \in Nat /\ readUpTo'[u] \in 0 .. MaxMessage
             /\ readUpTo[u] <= readUpTo'[u]
      BY <1>1, <1>6, <2>1, ReceiptNumbers
    <3>2. QED
      BY <3>1
  <2>3. PICK g \in InProgress(n) : g[1] = u /\ ack[g].step = "cursor"
    BY <1>1, <2>1, <2>2 DEF ReadIsNotUnread
  <2>4. CASE g = h
    <3>1. u = v /\ n = m
      BY <1>3, <1>5, <2>3, <2>4 DEF InProgress
    <3>2. v \in recipients
      BY <1>1, <2>1, <3>1 DEF MoversKnown
    <3>3. QED
      BY <1>6, <3>1, <3>2
  <2>5. CASE g # h
    BY <1>4, <2>3, <2>5 DEF InProgress
  <2>6. QED
    BY <2>4, <2>5
<1>12. QED
  BY <1>8, <1>10, <1>11 DEF StatusInv

\* memberCountExcluding() the sender counts at least those who have stayed.
LEMMA ExpectedStep ==
    ASSUME StatusInv, NEW h \in AckHandlers, AckExpected(h)
    PROVE  StatusInv'
<1>1. RowsTyped /\ AtWork /\ StatusEarned
  BY DEF StatusInv
<1>2. /\ UNCHANGED <<recipients, moves, receipt, msgStatus, readUpTo>>
      /\ ack[h].step = "expected"
      /\ ack' = [ack EXCEPT ![h].step = "reads", ![h].expected = Cardinality(recipients)]
  BY DEF AckExpected, AckAt
<1>3. /\ Cardinality(recipients) \in Counts
      /\ Cardinality(Stayed) <= Cardinality(recipients)
  BY <1>1, StayedCounted DEF RowsTyped
<1>4. /\ ack' \in [AckHandlers -> AckRecords]
      /\ ack'[h].step = "reads" /\ ack'[h].msg = ack[h].msg /\ ack'[h].kind = ack[h].kind
      /\ ack'[h].expected = Cardinality(recipients)
      /\ \A g \in AckHandlers \ {h} : ack'[g] = ack[g]
  <2>1. ack \in [AckHandlers -> AckRecords] /\ ack[h] \in AckRecords
    BY <1>1 DEF RowsTyped
  <2>2. PICK b : b = [ack[h] EXCEPT !.step = "reads", !.expected = Cardinality(recipients)]
    OBVIOUS
  <2>3. /\ b \in AckRecords /\ b.step = "reads" /\ b.expected = Cardinality(recipients)
        /\ b.msg = ack[h].msg /\ b.kind = ack[h].kind
    BY <1>3, <2>1, <2>2 DEF AckRecords, AckSteps
  <2>4. ack' = [ack EXCEPT ![h] = b]
    BY <1>2, <2>2
  <2>5. QED
    BY <2>1, <2>3, <2>4
<1>5. Stayed' = Stayed /\ ReceiptsGrow
  BY <1>2, RowsSame
<1>6. CountsMean(h)'
  BY <1>3, <1>4, <1>5 DEF CountsMean
<1>7. StatusEarned'
  BY <1>1, <1>2, <1>5, StatusStays
<1>8. ack'[h].msg \in Messages /\ ack'[h].kind # ""
  BY <1>1, <1>2, <1>4 DEF AtWork
<1>9. msgStatus' \in [Messages -> Statuses \ {""}]
  BY <1>1, <1>2 DEF RowsTyped
<1>10. QED
  BY <1>2, <1>4, <1>6, <1>7, <1>8, <1>9, LocalStep

\* As many users have a receipt as are expected, and none of them has moved:
\* they are the ones who have stayed.
LEMMA EnoughMeansAll ==
    ASSUME RowsTyped, MoversKnown, NEW S \in SUBSET Recipients, NEW expected \in Nat,
           Cardinality(Stayed) <= expected, Cardinality(S) >= expected
    PROVE  Stayed \subseteq S \/ S \cap Moved # {}
<1> SUFFICES ASSUME S \cap Moved = {}
             PROVE  Stayed \subseteq S
  OBVIOUS
<1>1. S \subseteq Stayed
  BY DEF MoversKnown, Stayed
<1>2. IsFiniteSet(Stayed) /\ Cardinality(Stayed) \in Nat
  BY StayedCounted DEF RowsTyped
<1>3. /\ Cardinality(S) \in Nat /\ Cardinality(S) <= Cardinality(Stayed)
      /\ Cardinality(Stayed) = Cardinality(S) => Stayed = S
  BY <1>1, <1>2, FS_Subset, FS_CardinalityType
<1>4. Cardinality(S) = Cardinality(Stayed)
  BY <1>2, <1>3
<1>5. QED
  BY <1>3, <1>4

\* receiptUserCount() of the readers.
LEMMA ReadsStep ==
    ASSUME StatusInv, NEW h \in AckHandlers, AckReads(h)
    PROVE  StatusInv'
<1>1. RowsTyped /\ AtWork /\ StatusEarned /\ MoversKnown /\ Earned
  BY DEF StatusInv
<1>2. /\ UNCHANGED <<recipients, moves, receipt, msgStatus, readUpTo>>
      /\ ack[h].step = "reads"
      /\ ack' = [ack EXCEPT ![h].step = "delivered", ![h].reads = ReadCount(ack[h].msg)]
  BY DEF AckReads, AckAt
<1>3. PICK m \in Messages, e \in Nat :
         m = ack[h].msg /\ e = ack[h].expected /\ ack[h].kind # ""
  BY <1>1, <1>2, ReceiptNumbers DEF AtWork, RowsTyped, AckRecords
<1>4. ReadersOf(m) \subseteq Recipients /\ ReadCount(m) = Cardinality(ReadersOf(m))
         /\ ReadCount(m) \in Counts
  <2>1. ReadersOf(m) \subseteq Recipients
    BY DEF ReadersOf
  <2>2. QED
    BY <2>1, ReceiptConstants, FS_Subset, FS_CardinalityType DEF ReadCount, Counts
<1>5. /\ ack' \in [AckHandlers -> AckRecords]
      /\ ack'[h].step = "delivered" /\ ack'[h].msg = m /\ ack'[h].kind = ack[h].kind
      /\ ack'[h].expected = e /\ ack'[h].reads = ReadCount(m)
      /\ \A g \in AckHandlers \ {h} : ack'[g] = ack[g]
  BY <1>1, <1>2, <1>3, <1>4 DEF RowsTyped, AckRecords, AckSteps
<1>6. /\ Stayed' = Stayed /\ ReceiptsGrow
      /\ ReadEarned(m) => ReadEarned(m)'
  BY <1>2, RowsSame, EarnedStays
<1>7. Cardinality(Stayed) <= e
  BY <1>1, <1>2, <1>3 DEF Earned, CountsMean
<1>8. ReadCount(m) >= e => ReadEarned(m)
  BY <1>1, <1>4, <1>7, EnoughMeansAll DEF ReadEarned
<1>9. CountsMean(h)'
  BY <1>5, <1>6, <1>7, <1>8 DEF CountsMean
<1>10. StatusEarned'
  BY <1>1, <1>2, <1>6, StatusStays
<1>11. msgStatus' \in [Messages -> Statuses \ {""}]
  BY <1>1, <1>2 DEF RowsTyped
<1>12. QED
  BY <1>2, <1>3, <1>5, <1>9, <1>10, <1>11, LocalStep

\* receiptUserCount() of the receivers, and the status that follows.
LEMMA AggregateStep ==
    ASSUME StatusInv, NEW h \in AckHandlers, AckAggregate(h)
    PROVE  StatusInv'
<1>1. RowsTyped /\ AtWork /\ StatusEarned /\ MoversKnown /\ Earned
  BY DEF StatusInv
<1>2. PICK m \in Messages, e \in Nat, r \in Nat :
         /\ m = ack[h].msg /\ e = ack[h].expected /\ r = ack[h].reads
         /\ ack[h].kind # "" /\ ack[h].step = "delivered"
  BY <1>1, ReceiptNumbers DEF AckAggregate, AckAt, AtWork, RowsTyped, AckRecords
<1>3. PICK status : status = Aggregate(e, r, DeliveredCount(m))
  OBVIOUS
<1>4. /\ UNCHANGED <<recipients, moves, receipt, msgStatus, readUpTo>>
      /\ ack' = [ack EXCEPT ![h] =
                    IF status \in {"", ack[h].was} THEN NoAck
                    ELSE [ack[h] EXCEPT !.step = "update", !.status = status]]
  BY <1>2, <1>3 DEF AckAggregate, AckAt
<1>5. Cardinality(Stayed) <= e /\ (r >= e => ReadEarned(m))
  BY <1>1, <1>2 DEF Earned, CountsMean
<1>6. DeliveredCount(m) >= e => DeliveredEarned(m)
  <2>1. ReceiversOf(m) \subseteq Recipients
    BY DEF ReceiversOf
  <2>2. QED
    BY <1>1, <1>5, <2>1, EnoughMeansAll DEF DeliveredCount, DeliveredEarned
<1>7. /\ status \in {"", "delivered", "read"}
      /\ status = "read" => ReadEarned(m)
      /\ status # "" => DeliveredEarned(m)
  BY <1>3, <1>5, <1>6, ReadIsDelivered DEF Aggregate
<1>8. /\ ack' \in [AckHandlers -> AckRecords]
      /\ \A g \in AckHandlers \ {h} : ack'[g] = ack[g]
      /\ \/ ack'[h].step = "idle"
         \/ /\ ack'[h].step = "update" /\ ack'[h].msg = m /\ ack'[h].kind = ack[h].kind
            /\ ack'[h].status = status /\ status # ""
  <2>1. CASE status \in {"", ack[h].was}
    <3>1. ack' = [ack EXCEPT ![h] = NoAck]
      BY <1>4, <2>1
    <3>2. NoAck \in AckRecords /\ NoAck.step = "idle"
      BY NoAckTyped
    <3>3. QED
      BY <1>1, <3>1, <3>2 DEF RowsTyped
  <2>2. CASE status \notin {"", ack[h].was}
    <3>1. PICK a \in AckRecords : a = ack[h]
      BY <1>1 DEF RowsTyped
    <3>2. PICK b : b = [a EXCEPT !.step = "update", !.status = status]
      OBVIOUS
    <3>3. b \in AckRecords
      BY <1>7, <3>1, <3>2 DEF AckRecords, AckSteps, Statuses
    <3>4. b.step = "update" /\ b.msg = m /\ b.kind = ack[h].kind /\ b.status = status
      BY <1>2, <3>1, <3>2 DEF AckRecords
    <3>5. ack' = [ack EXCEPT ![h] = b]
      BY <1>4, <2>2, <3>1, <3>2
    <3>6. QED
      BY <1>1, <2>2, <3>3, <3>4, <3>5 DEF RowsTyped
  <2>3. QED
    BY <2>1, <2>2
<1>9. /\ ReceiptsGrow
      /\ ReadEarned(m) => ReadEarned(m)'
      /\ DeliveredEarned(m) => DeliveredEarned(m)'
  BY <1>4, RowsSame, EarnedStays
<1>10. CountsMean(h)'
  BY <1>7, <1>8, <1>9 DEF CountsMean
<1>11. StatusEarned'
  BY <1>1, <1>4, <1>9, StatusStays
<1>12. msgStatus' \in [Messages -> Statuses \ {""}]
  BY <1>1, <1>4 DEF RowsTyped
<1>13. QED
  BY <1>2, <1>4, <1>8, <1>10, <1>11, <1>12, LocalStep

\* updateMessageStatus(): whatever another handler wrote meanwhile, what this
\* one writes is earned.
LEMMA UpdateStep ==
    ASSUME StatusInv, NEW h \in AckHandlers, AckUpdate(h)
    PROVE  StatusInv'
<1>1. RowsTyped /\ AtWork /\ StatusEarned /\ Earned
  BY DEF StatusInv
<1>2. /\ UNCHANGED <<recipients, moves, receipt, readUpTo>>
      /\ ack[h].step = "update" /\ AckGoTo(h, "push")
      /\ msgStatus' = [msgStatus EXCEPT ![ack[h].msg] = ack[h].status]
  BY DEF AckUpdate, AckAt
<1>3. PICK m \in Messages, status \in {"delivered", "read"} :
         m = ack[h].msg /\ status = ack[h].status /\ ack[h].kind # ""
  BY <1>1, <1>2 DEF AtWork, Earned, CountsMean
<1>4. DeliveredEarned(m) /\ (status = "read" => ReadEarned(m))
  BY <1>1, <1>2, <1>3 DEF Earned, CountsMean
<1>5. /\ ack' \in [AckHandlers -> AckRecords]
      /\ ack'[h].step = "push" /\ ack'[h].msg = m /\ ack'[h].kind # ""
      /\ \A g \in AckHandlers \ {h} : ack'[g] = ack[g]
  BY <1>1, <1>2, <1>3, MovedOn DEF AckSteps
<1>6. /\ msgStatus' \in [Messages -> Statuses \ {""}] /\ msgStatus'[m] = status
      /\ \A n \in Messages \ {m} : msgStatus'[n] = msgStatus[n]
  BY <1>1, <1>2, <1>3 DEF RowsTyped, Statuses
<1>7. \A n \in Messages : /\ ReadEarned(n) => ReadEarned(n)'
                          /\ DeliveredEarned(n) => DeliveredEarned(n)'
  BY <1>2, RowsSame, EarnedStays
<1>8. \A n \in Messages : /\ msgStatus'[n] = "read" => ReadEarned(n)'
                          /\ msgStatus'[n] # "sent" => DeliveredEarned(n)'
  BY <1>1, <1>4, <1>6, <1>7, StatusMeans
<1>9. StatusEarned'
  BY <1>8 DEF StatusEarned, ReadEarned, DeliveredEarned, Stayed
<1>10. CountsMean(h)'
  BY <1>5 DEF CountsMean
<1>11. QED
  BY <1>2, <1>5, <1>6, <1>9, <1>10, LocalStep

\* The push and the event change no row.
LEMMA AnnounceStep ==
    ASSUME StatusInv, NEW h \in AckHandlers, AckPush(h) \/ AckAppend(h)
    PROVE  StatusInv'
<1>1. RowsTyped /\ AtWork /\ StatusEarned
  BY DEF StatusInv
<1>2. /\ UNCHANGED <<recipients, moves, receipt, msgStatus, readUpTo>>
      /\ ack[h].step \in {"push", "append"}
      /\ AckGoTo(h, "append") \/ ack' = [ack EXCEPT ![h] = NoAck]
  BY DEF AckPush, AckAppend, AckAt
<1>3. ack[h].msg \in Messages /\ ack[h].kind # ""
  BY <1>1, <1>2 DEF AtWork
<1>4. /\ ack' \in [AckHandlers -> AckRecords]
      /\ ack'[h].step \in {"idle", "append"}
      /\ ack'[h].step # "idle" => ack'[h].msg = ack[h].msg /\ ack'[h].kind = ack[h].kind
      /\ \A g \in AckHandlers \ {h} : ack'[g] = ack[g]
  <2>1. CASE AckGoTo(h, "append")
    BY <1>1, <2>1, MovedOn DEF AckSteps
  <2>2. CASE ack' = [ack EXCEPT ![h] = NoAck]
    <3>1. NoAck \in AckRecords /\ NoAck.step = "idle"
      BY NoAckTyped
    <3>2. QED
      BY <1>1, <2>2, <3>1 DEF RowsTyped
  <2>3. QED
    BY <1>2, <2>1, <2>2
<1>5. StatusEarned'
  BY <1>1, <1>2, RowsSame, StatusStays
<1>6. CountsMean(h)'
  BY <1>4 DEF CountsMean
<1>7. msgStatus' \in [Messages -> Statuses \ {""}]
  BY <1>1, <1>2 DEF RowsTyped
<1>8. QED
  BY <1>2, <1>3, <1>4, <1>5, <1>6, <1>7, LocalStep

-----------------------------------------------------------------------------
(***************************************************************************)
(* The steps of the others.                                                *)
(***************************************************************************)

\* sync_messages moves a position forward.
LEMMA SyncStep ==
    ASSUME StatusInv, NEW u \in Recipients, NEW m \in Messages, SyncMessages(u, m)
    PROVE  StatusInv'
<1>1. RowsTyped /\ AtWork /\ StatusEarned /\ MoversKnown /\ Earned /\ ReadIsNotUnread
  BY DEF StatusInv
<1>2. /\ UNCHANGED <<recipients, moves, receipt, msgStatus, ack>>
      /\ readUpTo[u] < m /\ readUpTo' = [readUpTo EXCEPT ![u] = m]
  BY DEF SyncMessages
<1>3. m \in 0 .. MaxMessage /\ m \in Nat /\ readUpTo[u] \in Nat
  <2>1. m \in Nat /\ readUpTo[u] \in Nat
    BY <1>1, ReceiptNumbers
  <2>2. m \in 0 .. MaxMessage
    BY <2>1 DEF Messages
  <2>3. QED
    BY <2>1, <2>2
<1>4. /\ readUpTo' \in [Recipients -> 0 .. MaxMessage] /\ readUpTo'[u] = m
      /\ \A v \in Recipients \ {u} : readUpTo'[v] = readUpTo[v]
  BY <1>1, <1>2, <1>3 DEF RowsTyped
<1>5. readUpTo[u] <= readUpTo'[u]
  BY <1>2, <1>3, <1>4
<1>6. \A v \in Recipients : readUpTo[v] <= readUpTo'[v]
  BY <1>1, <1>4, <1>5, NoPositionAhead
<1>7. ReceiptsGrow /\ Moved' = Moved
  BY <1>2, RowsSame
<1>8. RowsTyped' /\ AtWork' /\ MoversKnown'
  BY <1>1, <1>2, <1>4, <1>7 DEF RowsTyped, AtWork, MoversKnown
<1>9. Earned' /\ StatusEarned'
  BY <1>1, <1>2, <1>7, CountsStay, StatusStays DEF Earned
<1>10. ReadIsNotUnread'
  BY <1>1, <1>2, <1>4, <1>6, <1>7, ReadsStay
<1>11. QED
  BY <1>8, <1>9, <1>10 DEF StatusInv

\* A member leaves or joins: the position is gone, and the member has moved.
LEMMA MoveStep ==
    ASSUME StatusInv, NEW u \in Recipients, MemberMoves(u)
    PROVE  StatusInv'
<1>1. RowsTyped /\ AtWork /\ StatusEarned /\ MoversKnown /\ Earned /\ ReadIsNotUnread
  BY DEF StatusInv
<1>2. /\ UNCHANGED <<receipt, msgStatus, ack>>
      /\ readUpTo' = [readUpTo EXCEPT ![u] = 0]
  BY DEF MemberMoves
<1>3. /\ ReceiptsGrow /\ Moved' = Moved \cup {u}
      /\ moves' \in Seq(Recipients) /\ recipients' \subseteq Recipients
      /\ recipients \subseteq recipients' \cup {u}
  BY <1>1, MoveGrows
<1>4. 0 \in 0 .. MaxMessage
  BY ReceiptConstants
<1>5. /\ readUpTo' \in [Recipients -> 0 .. MaxMessage]
      /\ \A v \in Recipients \ {u} : readUpTo'[v] = readUpTo[v]
  BY <1>1, <1>2, <1>4 DEF RowsTyped
<1>6. \A v \in Recipients : v \in Moved' \/ readUpTo[v] <= readUpTo'[v]
  BY <1>1, <1>3, <1>5, NoPositionAhead
<1>7. RowsTyped' /\ AtWork' /\ MoversKnown'
  BY <1>1, <1>2, <1>3, <1>5 DEF RowsTyped, AtWork, MoversKnown
<1>8. Earned' /\ StatusEarned'
  BY <1>1, <1>2, <1>3, CountsStay, StatusStays DEF Earned
<1>9. ReadIsNotUnread'
  BY <1>1, <1>2, <1>3, <1>5, <1>6, ReadsStay
<1>10. QED
  BY <1>7, <1>8, <1>9 DEF StatusInv

\* What reaches the sender's client changes no row of the server.
LEMMA SenderStep ==
    ASSUME StatusInv,
           UNCHANGED <<recipients, receipt, msgStatus, readUpTo, ack, moves>>
    PROVE  StatusInv'
<1>1. RowsTyped /\ AtWork /\ StatusEarned /\ MoversKnown /\ Earned /\ ReadIsNotUnread
  BY DEF StatusInv
<1>2. ReceiptsGrow /\ Moved' = Moved
  BY RowsSame
<1>3. RowsTyped' /\ AtWork' /\ MoversKnown'
  BY <1>1, <1>2 DEF RowsTyped, AtWork, MoversKnown
<1>4. Earned' /\ StatusEarned'
  BY <1>1, <1>2, CountsStay, StatusStays DEF Earned
<1>5. ReadIsNotUnread'
  BY <1>1, <1>2, NoPositionAhead, ReadsStay DEF RowsTyped
<1>6. QED
  BY <1>3, <1>4, <1>5 DEF StatusInv

LEMMA InitStatusInv == ReceiptInit => StatusInv
<1> SUFFICES ASSUME ReceiptInit
             PROVE  StatusInv
  OBVIOUS
<1> USE DEF ReceiptInit
<1>1. RowsTyped
  <2>1. ack \in [AckHandlers -> AckRecords]
    BY NoAckTyped
  <2>2. readUpTo \in [Recipients -> 0 .. MaxMessage]
    BY NoAckTyped
  <2>3. receipt \in [Messages -> [AckHandlers -> ReceiptKinds]]
    BY DEF ReceiptKinds
  <2>4. moves \in Seq(Recipients)
    <3> HIDE DEF ReceiptInit
    <3>1. moves = <<>>
      BY DEF ReceiptInit
    <3>2. QED
      BY <3>1
  <2>5. QED
    BY <2>1, <2>2, <2>3, <2>4 DEF RowsTyped, Statuses
<1>2. AtWork /\ MoversKnown /\ Earned /\ StatusEarned
  BY NoAckTyped DEF AtWork, MoversKnown, Earned, CountsMean, StatusEarned
<1>3. ReadIsNotUnread
  BY DEF ReadIsNotUnread, ReadersOf, AckHandlers
<1>4. QED
  BY <1>1, <1>2, <1>3 DEF StatusInv

LEMMA ReceiptsStep == StatusInv /\ [ReceiptNext]_receiptVars => StatusInv'
<1> SUFFICES ASSUME StatusInv, [ReceiptNext]_receiptVars
             PROVE  StatusInv'
  OBVIOUS
<1>1. ASSUME NEW h \in AckHandlers, NEW m \in Messages, NEW kind \in {"delivered", "read"},
             AckStart(h, m, kind)
      PROVE  StatusInv'
  BY <1>1, StartStep
<1>2. ASSUME NEW h \in AckHandlers, AckHandlerStep(h)
      PROVE  StatusInv'
  BY <1>2, RecordStep, CursorStep, ExpectedStep, ReadsStep, AggregateStep, UpdateStep,
     AnnounceStep DEF AckHandlerStep
<1>3. ASSUME NEW u \in Recipients, MemberMoves(u)
      PROVE  StatusInv'
  BY <1>3, MoveStep
<1>4. ASSUME NEW u \in Recipients, NEW m \in Messages, SyncMessages(u, m)
      PROVE  StatusInv'
  BY <1>4, SyncStep
<1>5. CASE StatusDelivered \/ SenderLeaves \/ SenderReturns \/ SenderSyncs
  BY <1>5, SenderStep DEF StatusDelivered, SenderLeaves, SenderReturns, SenderSyncs
<1>6. CASE UNCHANGED receiptVars
  BY <1>6, SenderStep DEF receiptVars
<1>7. QED
  BY <1>1, <1>2, <1>3, <1>4, <1>5, <1>6 DEF ReceiptNext

-----------------------------------------------------------------------------
(***************************************************************************)
(* The status that follows, and what the sender shows of it.               *)
(***************************************************************************)
StatusEvents == [msg : 0 .. MaxMessage, status : Statuses]
Working == {h \in AckHandlers : ack[h].step # "idle"}

\* What RowsTyped leaves out of ReceiptTypeOK, and the bounds it rests on: an
\* acknowledgement logs one event, at its end.
SenderTyped ==
    /\ acks \in 0 .. MaxAcks /\ Len(moves) <= MaxMoves
    /\ statusPushes \in Seq(StatusEvents) /\ receiptLog \in Seq(StatusEvents)
    /\ sender \in [stage : {"out", "in", "synced"}, routed : BOOLEAN,
                   breaks : 0 .. MaxBreaks, synced : Nat]
    /\ sender.synced <= Len(receiptLog)
    /\ Len(receiptLog) + Cardinality(Working) <= acks
    /\ shown \in [Messages -> Statuses]
    /\ crossed \in [Messages -> SUBSET {"acks", "sync", "push"}]

\* A handler that is idle holds nothing.
IdleIsNoAck == \A h \in AckHandlers : ack[h].step = "idle" => ack[h] = NoAck

\* All acknowledgements of m came one after the other, among the same members.
Alone(m) == moves = <<>> /\ "acks" \notin crossed[m]

\* What the handler h of m holds is what the rows say.
HandlerMeans(h, m) ==
    /\ ack[h].step \in {"record", "cursor", "expected", "reads", "delivered"} =>
          ack[h].was = msgStatus[m]
    /\ ack[h].step \in {"reads", "delivered"} => ack[h].expected = Cardinality(recipients)
    /\ ack[h].step = "delivered" => ack[h].reads = ReadCount(m)
    /\ ack[h].step \in {"update", "push", "append"} => ack[h].status = FollowingStatus(m)
    /\ ack[h].step \in {"push", "append"} => ack[h].status = msgStatus[m]

StatusFollows(m) ==
    Alone(m) =>
        /\ \A g, h \in InProgress(m) : g = h
        /\ \A h \in InProgress(m) : HandlerMeans(h, m)
        /\ InProgress(m) = {} => msgStatus[m] = FollowingStatus(m)

\* The route of the sender's connection: at most one userLoggedIn is queued, and
\* one is as long as the sender is in and has no route.
RouteQueued ==
    /\ \A i \in DOMAIN statusPushes : statusPushes[i].msg = 0 => statusPushes[i] = RouteEvent
    /\ \A i, j \in DOMAIN statusPushes :
          statusPushes[i].msg = 0 /\ statusPushes[j].msg = 0 => i = j
    /\ sender.stage = "out" => ~sender.routed
    /\ (\E i \in DOMAIN statusPushes : statusPushes[i].msg = 0)
          <=> sender.stage # "out" /\ ~sender.routed

\* The last push of m that will reach the sender carries the status s ...
Coming(m, s) ==
    /\ sender.stage # "out"
    /\ \E i \in DOMAIN statusPushes :
          /\ statusPushes[i].msg = m /\ statusPushes[i].status = s
          /\ \A j \in DOMAIN statusPushes : j > i => statusPushes[j].msg \notin {0, m}

\* ... or no push of m will reach the sender.
NoneComing(m) ==
    \A i \in DOMAIN statusPushes : statusPushes[i].msg = m =>
        sender.stage = "out" \/ \E j \in DOMAIN statusPushes : j > i /\ statusPushes[j].msg = 0

\* The last event of m in the sender's stream carries the status s.
LastLogged(m, s) ==
    \/ \E i \in DOMAIN receiptLog :
          /\ receiptLog[i].msg = m /\ receiptLog[i].status = s
          /\ \A j \in DOMAIN receiptLog : j > i => receiptLog[j].msg # m
    \/ s = "sent" /\ \A i \in DOMAIN receiptLog : receiptLog[i].msg # m

Pushing(m) == \E h \in InProgress(m) : ack[h].step = "push"
Appending(m) == \E h \in InProgress(m) : ack[h].step = "append"

\* Once it is pushed, the status of m is on its way to the sender, or shown, or
\* the next synchronisation will bring it.
ShownFollows(m) ==
    Alone(m) /\ crossed[m] = {} /\ ~Pushing(m) =>
        /\ ~Appending(m) => LastLogged(m, msgStatus[m])
        /\ \/ Coming(m, msgStatus[m])
           \/ /\ NoneComing(m)
              /\ shown[m] = msgStatus[m] \/ (sender.stage # "synced" /\ EventDue(m))

SettleInv ==
    /\ StatusInv /\ SenderTyped /\ IdleIsNoAck /\ RouteQueued
    /\ \A m \in Messages : StatusFollows(m) /\ ShownFollows(m)

-----------------------------------------------------------------------------
(***************************************************************************)
(* The handlers' steps, as far as one message is concerned.                *)
(***************************************************************************)

\* The status that follows depends on the members and the receipts of m only.
LEMMA FollowsSame ==
    ASSUME NEW m, recipients' = recipients, receipt'[m] = receipt[m]
    PROVE  /\ FollowingStatus(m)' = FollowingStatus(m) /\ ReadCount(m)' = ReadCount(m)
           /\ DeliveredCount(m)' = DeliveredCount(m)
<1>1. ReadersOf(m)' = ReadersOf(m) /\ ReceiversOf(m)' = ReceiversOf(m)
  BY DEF ReadersOf, ReceiversOf
<1>2. ReadCount(m)' = ReadCount(m) /\ DeliveredCount(m)' = DeliveredCount(m)
  BY <1>1 DEF ReadCount, DeliveredCount
<1>3. QED
  BY <1>2 DEF FollowingStatus

\* As long as nobody has moved, a status that was earned is one that follows.
LEMMA EarnedFollows ==
    ASSUME StatusInv, moves = <<>>, NEW m \in Messages, NEW h \in AckHandlers,
           msgStatus[m] # "sent"
    PROVE  Aggregate(Cardinality(recipients), ReadCount(m), DeliveredCount(m)) # ""
<1>1. RowsTyped /\ MoversKnown /\ StatusEarned
  BY DEF StatusInv
<1>2. Moved = {}
  BY DEF Moved
<1>3. recipients \subseteq ReceiversOf(m)
  BY <1>1, <1>2 DEF StatusEarned
<1>4. h[1] \in recipients
  BY <1>1, <1>2 DEF MoversKnown, AckHandlers
<1>5. IsFiniteSet(ReceiversOf(m)) /\ IsFiniteSet(recipients)
  BY ReceiptConstants, FS_Subset, <1>1 DEF ReceiversOf, RowsTyped
<1>6. /\ Cardinality(recipients) \in Nat /\ DeliveredCount(m) \in Nat
      /\ Cardinality(recipients) <= DeliveredCount(m)
  BY <1>3, <1>5, FS_Subset, FS_CardinalityType DEF DeliveredCount
<1>7. Cardinality(recipients) # 0
  BY <1>4, <1>5, FS_EmptySet
<1>8. QED
  BY <1>6, <1>7 DEF Aggregate

\* A statement of the handler h of m changes no other message and no other
\* handler.
OneHandler(h, m) ==
    /\ h \in AckHandlers /\ m \in Messages /\ ack[h].msg = m /\ ack[h].step # "idle"
    /\ \A g \in AckHandlers \ {h} : ack'[g] = ack[g]
    /\ (ack'[h].msg = m /\ ack'[h].step # "idle") \/ ack'[h] = NoAck
    /\ \A n \in Messages \ {m} : receipt'[n] = receipt[n] /\ msgStatus'[n] = msgStatus[n]
    /\ UNCHANGED <<recipients, moves, acks, senderVars, crossed>>

LEMMA OneHandlerSteps ==
    ASSUME StatusInv, NEW h \in AckHandlers, AckHandlerStep(h)
    PROVE  \E m \in Messages : OneHandler(h, m)
<1>1. RowsTyped /\ AtWork
  BY DEF StatusInv
<1>2. /\ ack[h].step # "idle" /\ UNCHANGED <<recipients, moves, acks, senderVars, crossed>>
  BY DEF AckHandlerStep, AckRecord, AckCursor, AckExpected, AckReads, AckAggregate,
     AckUpdate, AckPush, AckAppend, AckAt
<1>3. PICK m \in Messages : m = ack[h].msg
  BY <1>1, <1>2 DEF AtWork
<1>4. \A n \in Messages \ {m} : receipt'[n] = receipt[n]
  <2>1. CASE receipt' = receipt
    BY <2>1
  <2>2. CASE AckRecord(h)
    BY <1>1, <1>3, <2>2 DEF AckRecord, RowsTyped
  <2>3. QED
    BY <2>1, <2>2 DEF AckHandlerStep, AckCursor, AckExpected, AckReads, AckAggregate,
       AckUpdate, AckPush, AckAppend
<1>5. \A n \in Messages \ {m} : msgStatus'[n] = msgStatus[n]
  <2>1. CASE msgStatus' = msgStatus
    BY <2>1
  <2>2. CASE AckUpdate(h)
    BY <1>1, <1>3, <2>2 DEF AckUpdate, RowsTyped
  <2>3. QED
    BY <2>1, <2>2 DEF AckHandlerStep, AckRecord, AckCursor, AckExpected, AckReads,
       AckAggregate, AckPush, AckAppend
<1>6. \E a : ack' = [ack EXCEPT ![h] = a] /\ (a = NoAck \/ (a.msg = m /\ a.step # "idle"))
  <2>1. PICK b \in AckRecords : b = ack[h]
    BY <1>1 DEF RowsTyped
  <2>2. CASE \E step \in AckSteps \ {"idle"} : AckGoTo(h, step)
    <3>1. PICK step \in AckSteps \ {"idle"} : AckGoTo(h, step)
      BY <2>2
    <3>2. PICK a : a = [b EXCEPT !.step = step]
      OBVIOUS
    <3>3. ack' = [ack EXCEPT ![h] = a] /\ a.msg = m /\ a.step # "idle"
      BY <1>3, <2>1, <3>1, <3>2 DEF AckGoTo, AckRecords
    <3>4. QED
      BY <3>3
  <2>3. CASE AckExpected(h)
    <3>1. PICK a : a = [b EXCEPT !.step = "reads", !.expected = Cardinality(recipients)]
      OBVIOUS
    <3>2. ack' = [ack EXCEPT ![h] = a] /\ a.msg = m /\ a.step # "idle"
      BY <1>3, <2>1, <2>3, <3>1 DEF AckExpected, AckRecords
    <3>3. QED
      BY <3>2
  <2>4. CASE AckReads(h)
    <3>1. PICK a : a = [b EXCEPT !.step = "delivered", !.reads = ReadCount(m)]
      OBVIOUS
    <3>2. ack' = [ack EXCEPT ![h] = a] /\ a.msg = m /\ a.step # "idle"
      BY <1>3, <2>1, <2>4, <3>1 DEF AckReads, AckRecords
    <3>3. QED
      BY <3>2
  <2>5. CASE AckAggregate(h)
    <3>1. PICK status : status = Aggregate(b.expected, b.reads, DeliveredCount(m))
      OBVIOUS
    <3>2. PICK c : c = [b EXCEPT !.step = "update", !.status = status]
      OBVIOUS
    <3>3. PICK a : a = IF status \in {"", b.was} THEN NoAck ELSE c
      OBVIOUS
    <3>4. ack' = [ack EXCEPT ![h] = a]
      BY <1>3, <2>1, <2>5, <3>1, <3>2, <3>3, Zenon DEF AckAggregate
    <3>5. a = NoAck \/ (a.msg = m /\ a.step # "idle")
      BY <1>3, <2>1, <3>2, <3>3 DEF AckRecords
    <3>6. QED
      BY <3>4, <3>5
  <2>6. CASE AckAppend(h)
    BY <2>6 DEF AckAppend
  <2>7. QED
    BY <2>2, <2>3, <2>4, <2>5, <2>6 DEF AckHandlerStep, AckRecord, AckCursor, AckUpdate,
       AckPush, AckSteps
<1>7. /\ \A g \in AckHandlers \ {h} : ack'[g] = ack[g]
      /\ (ack'[h].msg = m /\ ack'[h].step # "idle") \/ ack'[h] = NoAck
  BY <1>1, <1>6 DEF RowsTyped
<1>8. OneHandler(h, m)
  BY <1>2, <1>3, <1>4, <1>5, <1>7 DEF OneHandler
<1>9. QED
  BY <1>8

\* Who is at work on which message afterwards.
LEMMA OneHandlerProgress ==
    ASSUME NEW h, NEW m, OneHandler(h, m)
    PROVE  /\ h \in InProgress(m)
           /\ \A n \in Messages \ {m} : InProgress(n)' = InProgress(n)
           /\ InProgress(m)' \subseteq InProgress(m)
           /\ InProgress(m)' = InProgress(m) \/ ack'[h] = NoAck
           /\ ack'[h] = NoAck => InProgress(m)' = InProgress(m) \ {h}
<1>1. NoAck.msg = 0 /\ 0 \notin Messages
  BY ReceiptNumbers DEF NoAck, Messages
<1>2. QED
  BY <1>1 DEF OneHandler, InProgress

\* What another handler does leaves a message as it is.
LEMMA StatusFollowsOthers ==
    ASSUME NEW n \in Messages, StatusFollows(n), InProgress(n)' = InProgress(n),
           \A g \in InProgress(n) : ack'[g] = ack[g],
           msgStatus'[n] = msgStatus[n], receipt'[n] = receipt[n],
           recipients' = recipients, moves' = moves, crossed[n] \subseteq crossed'[n]
    PROVE  StatusFollows(n)'
<1> SUFFICES ASSUME Alone(n)'
             PROVE  /\ \A g, h \in InProgress(n)' : g = h
                    /\ \A h \in InProgress(n)' : HandlerMeans(h, n)'
                    /\ InProgress(n)' = {} => msgStatus'[n] = FollowingStatus(n)'
  BY DEF StatusFollows
<1>1. Alone(n)
  BY DEF Alone
<1>2. /\ FollowingStatus(n)' = FollowingStatus(n) /\ ReadCount(n)' = ReadCount(n)
  BY FollowsSame
<1>3. \A h \in InProgress(n) : HandlerMeans(h, n)'
  <2> SUFFICES ASSUME NEW h \in InProgress(n)
               PROVE  HandlerMeans(h, n)'
    OBVIOUS
  <2>1. HandlerMeans(h, n) /\ ack'[h] = ack[h]
    BY <1>1 DEF StatusFollows
  <2>2. QED
    BY <1>2, <2>1 DEF HandlerMeans
<1>4. QED
  BY <1>1, <1>2, <1>3 DEF StatusFollows

\* Of two statuses that follow from the same counts, one is the other.
LEMMA AggregateFollows ==
    ASSUME NEW m, NEW status, status = Aggregate(Cardinality(recipients), ReadCount(m),
                                                 DeliveredCount(m))
    PROVE  /\ status = "" => FollowingStatus(m) = "sent"
           /\ status # "" => FollowingStatus(m) = status
BY DEF FollowingStatus

\* ack_message, statement by statement, when it is alone with its message.
LEMMA StatusFollowsStep ==
    ASSUME StatusInv, NEW h, NEW m, OneHandler(h, m), AckHandlerStep(h), StatusFollows(m)
    PROVE  StatusFollows(m)'
<1> SUFFICES ASSUME Alone(m)'
             PROVE  /\ \A f, g \in InProgress(m)' : f = g
                    /\ \A g \in InProgress(m)' : HandlerMeans(g, m)'
                    /\ InProgress(m)' = {} => msgStatus'[m] = FollowingStatus(m)'
  BY DEF StatusFollows
<1>1. /\ h \in AckHandlers /\ m \in Messages /\ ack[h].msg = m
      /\ UNCHANGED <<recipients, moves, crossed>>
  BY DEF OneHandler
<1>2. Alone(m) /\ moves = <<>>
  BY <1>1 DEF Alone
<1>3. InProgress(m) = {h} /\ HandlerMeans(h, m)
  BY <1>2, OneHandlerProgress DEF StatusFollows
<1>4. SUFFICES \/ HandlerMeans(h, m)' /\ ack'[h].msg = m
               \/ ack'[h] = NoAck /\ msgStatus'[m] = FollowingStatus(m)'
  <2>1. \A g \in InProgress(m)' : g = h
    BY <1>3, OneHandlerProgress
  <2>2. ack'[h] = NoAck => InProgress(m)' = {}
    BY <1>3, OneHandlerProgress
  <2>3. ack'[h].msg = m => InProgress(m)' # {}
    BY <1>1 DEF InProgress
  <2>4. QED
    BY <2>1, <2>2, <2>3, <1>4
<1>5. RowsTyped
  BY DEF StatusInv
<1>6. PICK b \in AckRecords : b = ack[h]
  BY <1>1, <1>5 DEF RowsTyped
<1>7. CASE AckRecord(h)
  <2>1. b.step = "record" /\ b.was = msgStatus[m] /\ msgStatus' = msgStatus
    BY <1>3, <1>6, <1>7 DEF AckRecord, AckAt, HandlerMeans
  <2>2. PICK step \in {"cursor", "expected"} : AckGoTo(h, step)
    BY <1>7 DEF AckRecord
  <2>3. ack'[h].step = step /\ ack'[h].was = b.was /\ ack'[h].msg = m
    BY <1>1, <1>5, <1>6, <2>2 DEF AckGoTo, RowsTyped, AckRecords
  <2>4. QED
    BY <2>1, <2>3 DEF HandlerMeans
<1>8. CASE AckCursor(h)
  <2>1. b.step = "cursor" /\ b.was = msgStatus[m] /\ msgStatus' = msgStatus
    BY <1>3, <1>6, <1>8 DEF AckCursor, AckAt, HandlerMeans
  <2>2. AckGoTo(h, "expected")
    BY <1>8 DEF AckCursor
  <2>3. ack'[h].step = "expected" /\ ack'[h].was = b.was /\ ack'[h].msg = m
    BY <1>1, <1>5, <1>6, <2>2 DEF AckGoTo, RowsTyped, AckRecords
  <2>4. QED
    BY <2>1, <2>3 DEF HandlerMeans
<1>9. CASE AckExpected(h)
  <2>1. b.step = "expected" /\ b.was = msgStatus[m] /\ msgStatus' = msgStatus
    BY <1>3, <1>6, <1>9 DEF AckExpected, AckAt, HandlerMeans
  <2>2. PICK a : a = [b EXCEPT !.step = "reads", !.expected = Cardinality(recipients)]
    OBVIOUS
  <2>3. ack' = [ack EXCEPT ![h] = a]
    BY <1>1, <1>6, <1>9, <2>2 DEF AckExpected
  <2>4. /\ ack'[h].step = "reads" /\ ack'[h].was = b.was /\ ack'[h].msg = m
        /\ ack'[h].expected = Cardinality(recipients)
    BY <1>1, <1>5, <1>6, <2>2, <2>3 DEF RowsTyped, AckRecords
  <2>5. QED
    BY <1>1, <2>1, <2>4 DEF HandlerMeans
<1>10. CASE AckReads(h)
  <2>1. /\ b.step = "reads" /\ b.was = msgStatus[m] /\ b.expected = Cardinality(recipients)
        /\ msgStatus' = msgStatus /\ receipt' = receipt
    BY <1>3, <1>6, <1>10 DEF AckReads, AckAt, HandlerMeans
  <2>2. PICK a : a = [b EXCEPT !.step = "delivered", !.reads = ReadCount(m)]
    OBVIOUS
  <2>3. ack' = [ack EXCEPT ![h] = a]
    BY <1>1, <1>6, <1>10, <2>2 DEF AckReads
  <2>4. /\ ack'[h].step = "delivered" /\ ack'[h].was = b.was /\ ack'[h].msg = m
        /\ ack'[h].expected = b.expected /\ ack'[h].reads = ReadCount(m)
    BY <1>1, <1>5, <1>6, <2>2, <2>3 DEF RowsTyped, AckRecords
  <2>5. ReadCount(m)' = ReadCount(m)
    BY <1>1, <2>1, FollowsSame
  <2>6. QED
    BY <1>1, <2>1, <2>4, <2>5 DEF HandlerMeans
<1>11. CASE AckAggregate(h)
  <2>1. /\ b.step = "delivered" /\ b.was = msgStatus[m]
        /\ b.expected = Cardinality(recipients) /\ b.reads = ReadCount(m)
        /\ msgStatus' = msgStatus /\ receipt' = receipt
    BY <1>3, <1>6, <1>11 DEF AckAggregate, AckAt, HandlerMeans
  <2>2. PICK status : status = Aggregate(Cardinality(recipients), ReadCount(m),
                                         DeliveredCount(m))
    OBVIOUS
  <2>3. PICK c : c = [b EXCEPT !.step = "update", !.status = status]
    OBVIOUS
  <2>4. ack' = [ack EXCEPT ![h] = IF status \in {"", b.was} THEN NoAck ELSE c]
    BY <1>1, <1>6, <1>11, <2>1, <2>2, <2>3, Zenon DEF AckAggregate
  <2>5. FollowingStatus(m)' = FollowingStatus(m)
    BY <1>1, <2>1, FollowsSame
  <2>6. CASE status = ""
    <3>1. msgStatus[m] = "sent"
      BY <1>1, <1>2, <2>2, <2>6, EarnedFollows
    <3>2. FollowingStatus(m) = "sent"
      BY <2>2, <2>6, AggregateFollows
    <3>3. ack'[h] = NoAck
      BY <1>1, <1>5, <2>4, <2>6 DEF RowsTyped
    <3>4. QED
      BY <2>1, <2>5, <3>1, <3>2, <3>3
  <2>7. CASE status # "" /\ status = b.was
    <3>1. FollowingStatus(m) = msgStatus[m]
      BY <2>1, <2>2, <2>7, AggregateFollows
    <3>2. ack'[h] = NoAck
      BY <1>1, <1>5, <2>4, <2>7 DEF RowsTyped
    <3>3. QED
      BY <2>1, <2>5, <3>1, <3>2
  <2>8. CASE status \notin {"", b.was}
    <3>1. ack'[h] = c
      BY <1>1, <1>5, <2>4, <2>8 DEF RowsTyped
    <3>2. c.step = "update" /\ c.status = status /\ c.msg = m
      BY <1>1, <1>6, <2>3 DEF AckRecords
    <3>3. FollowingStatus(m) = status
      BY <2>2, <2>8, AggregateFollows
    <3>4. QED
      BY <2>5, <3>1, <3>2, <3>3 DEF HandlerMeans
  <2>9. QED
    BY <2>6, <2>7, <2>8
<1>12. CASE AckUpdate(h) \/ AckPush(h)
  <2>1. /\ b.step \in {"update", "push"} /\ b.status = FollowingStatus(m)
        /\ b.step = "push" => b.status = msgStatus[m]
        /\ receipt' = receipt
    BY <1>3, <1>6, <1>12 DEF AckUpdate, AckPush, AckAt, HandlerMeans
  <2>2. PICK step \in {"push", "append"} : AckGoTo(h, step)
    BY <1>12 DEF AckUpdate, AckPush
  <2>3. ack'[h].step = step /\ ack'[h].status = b.status /\ ack'[h].msg = m
    BY <1>1, <1>5, <1>6, <2>2 DEF AckGoTo, RowsTyped, AckRecords
  <2>4. msgStatus'[m] = b.status
    <3>1. CASE AckUpdate(h)
      BY <1>1, <1>5, <1>6, <3>1 DEF AckUpdate, RowsTyped
    <3>2. CASE AckPush(h)
      BY <1>6, <2>1, <3>2 DEF AckPush, AckAt
    <3>3. QED
      BY <1>12, <3>1, <3>2
  <2>5. FollowingStatus(m)' = FollowingStatus(m)
    BY <1>1, <2>1, FollowsSame
  <2>6. QED
    BY <2>1, <2>2, <2>3, <2>4, <2>5 DEF HandlerMeans
<1>13. CASE AckAppend(h)
  <2>1. /\ b.step = "append" /\ b.status = FollowingStatus(m) /\ b.status = msgStatus[m]
        /\ receipt' = receipt /\ msgStatus' = msgStatus /\ ack' = [ack EXCEPT ![h] = NoAck]
    BY <1>3, <1>6, <1>13 DEF AckAppend, AckAt, HandlerMeans
  <2>2. ack'[h] = NoAck
    BY <1>1, <1>5, <2>1 DEF RowsTyped
  <2>3. FollowingStatus(m)' = FollowingStatus(m)
    BY <1>1, <2>1, FollowsSame
  <2>4. QED
    BY <2>1, <2>2, <2>3
<1>14. QED
  BY <1>7, <1>8, <1>9, <1>10, <1>11, <1>12, <1>13 DEF AckHandlerStep

\* A new acknowledgement is alone with the message, or leaves its mark.
LEMMA StatusFollowsStart ==
    ASSUME StatusInv, SenderTyped, NEW h \in AckHandlers, NEW m \in Messages, NEW kind,
           AckStart(h, m, kind), NEW n \in Messages, StatusFollows(n)
    PROVE  StatusFollows(n)'
<1>1. /\ ack[h] = NoAck /\ RowsTyped /\ NoAck.msg = 0 /\ 0 \notin Messages
      /\ UNCHANGED <<recipients, receipt, msgStatus, moves>>
  <2>1. NoAck.msg = 0 /\ 0 \notin Messages
    BY ReceiptNumbers DEF NoAck, Messages
  <2>2. QED
    BY <2>1 DEF AckStart, StatusInv
<1>2. PICK a : a = [NoAck EXCEPT !.step = "record", !.msg = m, !.kind = kind,
                                 !.was = msgStatus[m]]
  OBVIOUS
<1>3. ack' = [ack EXCEPT ![h] = a]
  BY <1>2, Zenon DEF AckStart
<1>4. a.msg = m /\ a.step = "record" /\ a.was = msgStatus[m]
  BY <1>2 DEF NoAck
<1>5. ack'[h] = a /\ \A g \in AckHandlers \ {h} : ack'[g] = ack[g]
  BY <1>1, <1>3 DEF RowsTyped
<1>6. /\ InProgress(m)' = InProgress(m) \cup {h} /\ h \notin InProgress(m)
      /\ \A k \in Messages \ {m} : InProgress(k)' = InProgress(k) /\ h \notin InProgress(k)
  BY <1>1, <1>4, <1>5 DEF InProgress
<1>7. /\ \A k \in Messages : crossed[k] \subseteq crossed'[k]
      /\ InProgress(m) # {} => "acks" \in crossed'[m]
  BY DEF AckStart, SenderTyped
<1>8. CASE n # m
  <2>1. /\ InProgress(n)' = InProgress(n) /\ \A g \in InProgress(n) : ack'[g] = ack[g]
        /\ crossed[n] \subseteq crossed'[n]
    BY <1>5, <1>6, <1>7, <1>8 DEF InProgress
  <2>2. QED
    BY <1>1, <2>1, StatusFollowsOthers
<1>9. CASE n = m
  <2> SUFFICES ASSUME Alone(m)'
               PROVE  /\ \A f, g \in InProgress(m)' : f = g
                      /\ \A g \in InProgress(m)' : HandlerMeans(g, m)'
                      /\ InProgress(m)' = {} => msgStatus'[m] = FollowingStatus(m)'
    BY <1>9 DEF StatusFollows
  <2>1. InProgress(m)' = {h}
    BY <1>6, <1>7 DEF Alone
  <2>2. HandlerMeans(h, m)'
    BY <1>1, <1>4, <1>5 DEF HandlerMeans
  <2>3. QED
    BY <2>1, <2>2
<1>10. QED
  BY <1>8, <1>9

-----------------------------------------------------------------------------
(***************************************************************************)
(* Types, bounds and the route.                                            *)
(***************************************************************************)

\* Every set of numbers that has a member has a least one.
LEMMA Least ==
    ASSUME NEW S \in SUBSET Nat, S # {}
    PROVE  \E x \in S : \A y \in S : x <= y
<1>1. PICK R : R = OpToRel(<, Nat)
  OBVIOUS
<1>2. IsWellFoundedOn(R, Nat)
  BY <1>1, NatLessThanWellFounded
<1>3. PICK x \in S : \A y \in S : ~ (<<y, x>> \in R)
  BY <1>2, WFMin
<1>4. \A a, b \in Nat : a < b => <<a, b>> \in R
  BY <1>1 DEF OpToRel
<1>5. \A y \in S : ~(y < x)
  BY <1>3, <1>4
<1>6. QED
  BY <1>5

\* A bounded set of numbers that has a member has a greatest one.
LEMMA Greatest ==
    ASSUME NEW n \in Nat, NEW S \in SUBSET (0 .. n), S # {}
    PROVE  \E x \in S : \A y \in S : y <= x
<1>1. PICK D : D = {n - x : x \in S}
  OBVIOUS
<1>2. D \in SUBSET Nat /\ D # {}
  <2>1. \A x \in S : n - x \in Nat
    OBVIOUS
  <2>2. QED
    BY <1>1, <2>1
<1>3. PICK m \in D : \A y \in D : m <= y
  BY <1>2, Least
<1>4. PICK x \in S : m = n - x
  BY <1>1, <1>3
<1>5. \A y \in S : n - x <= n - y
  BY <1>1, <1>3, <1>4
<1>6. QED
  BY <1>5

\* The client writes the status of the last event of each message.
LEMMA ShowMeans ==
    ASSUME NEW events \in Seq(StatusEvents), Show(events), shown \in [Messages -> Statuses]
    PROVE  /\ shown' \in [Messages -> Statuses]
           /\ \A m \in Messages : (\A i \in DOMAIN events : events[i].msg # m) =>
                 shown'[m] = shown[m]
           /\ \A m \in Messages, i \in DOMAIN events :
                 events[i].msg = m /\ (\A j \in DOMAIN events : j > i => events[j].msg # m) =>
                    shown'[m] = events[i].status
<1> DEFINE Own(m) == {i \in DOMAIN events : events[i].msg = m}
           Last(m) == CHOOSE i \in Own(m) : \A j \in Own(m) : j <= i
<1>1. \A m \in Messages :
         shown'[m] = IF Own(m) = {} THEN shown[m] ELSE events[Last(m)].status
  BY DEF Show
<1>2. shown' = [m \in Messages |-> shown'[m]]
  BY DEF Show
<1>3. /\ Len(events) \in Nat /\ DOMAIN events = 1 .. Len(events)
      /\ \A i \in DOMAIN events : events[i] \in StatusEvents /\ events[i].status \in Statuses
  <2>1. /\ Len(events) \in Nat /\ DOMAIN events = 1 .. Len(events)
        /\ \A i \in DOMAIN events : events[i] \in StatusEvents
    OBVIOUS
  <2>2. \A e \in StatusEvents : e.status \in Statuses
    BY DEF StatusEvents
  <2>3. QED
    BY <2>1, <2>2
<1>4. ASSUME NEW m \in Messages
      PROVE  shown'[m] \in Statuses
  <2>1. CASE Own(m) = {}
    BY <1>1, <2>1
  <2>2. CASE Own(m) # {}
    <3>1. Own(m) \in SUBSET (0 .. Len(events))
      BY <1>3
    <3>2. \E i \in Own(m) : \A j \in Own(m) : j <= i
      <4> HIDE DEF Own
      <4>1. QED
        BY <1>3, <2>2, <3>1, Greatest
    <3>3. Last(m) \in Own(m)
      BY <3>2
    <3>4. QED
      BY <1>1, <1>3, <2>2, <3>3
  <2>3. QED
    BY <2>1, <2>2
<1>5. ASSUME NEW m \in Messages, \A i \in DOMAIN events : events[i].msg # m
      PROVE  shown'[m] = shown[m]
  BY <1>1, <1>5
<1>6. ASSUME NEW m \in Messages, NEW i \in DOMAIN events, events[i].msg = m,
             \A j \in DOMAIN events : j > i => events[j].msg # m
      PROVE  shown'[m] = events[i].status
  <2>1. i \in Own(m) /\ \A j \in Own(m) : j <= i
    BY <1>3, <1>6
  <2>2. Last(m) \in Own(m) /\ \A j \in Own(m) : j <= Last(m)
    BY <2>1
  <2>3. Last(m) \in Nat /\ i \in Nat /\ i <= Last(m) /\ Last(m) <= i
    BY <1>3, <2>1, <2>2
  <2>4. Last(m) = i
    BY <2>3
  <2>5. QED
    BY <1>1, <2>1, <2>4
<1>7. QED
  BY <1>2, <1>4, <1>5, <1>6

LEMMA WorkingFinite == IsFiniteSet(Working) /\ Cardinality(Working) \in Nat
<1>1. IsFiniteSet(AckHandlers)
  BY ReceiptConstants, FS_Product DEF AckHandlers
<1>2. Working \subseteq AckHandlers
  BY DEF Working
<1>3. IsFiniteSet(Working)
  BY <1>1, <1>2, FS_Subset
<1>4. QED
  BY <1>3, FS_CardinalityType

\* The handler's part of the types.
LEMMA SenderTypedHandler ==
    ASSUME StatusInv, SenderTyped, NEW h \in AckHandlers, AckHandlerStep(h)
    PROVE  SenderTyped'
<1>1. PICK m \in Messages : OneHandler(h, m)
  BY OneHandlerSteps
<1>2. /\ ack[h].step # "idle" /\ \A g \in AckHandlers \ {h} : ack'[g] = ack[g]
      /\ ack[h].msg = m /\ UNCHANGED <<moves, acks, senderVars, crossed>>
  BY <1>1 DEF OneHandler
<1>3. /\ h \in Working /\ Working \ {h} \subseteq Working' /\ Working' \subseteq Working
  BY <1>2 DEF Working
<1>4. /\ IsFiniteSet(Working) /\ Cardinality(Working) \in Nat
      /\ Cardinality(Working)' \in Nat /\ Cardinality(Working)' <= Cardinality(Working)
  BY <1>3, WorkingFinite, FS_Subset, FS_CardinalityType
<1>5. AckEvent(h) \in StatusEvents
  <2>1. PICK b \in AckRecords : b = ack[h]
    BY DEF StatusInv, RowsTyped
  <2>2. QED
    BY <2>1 DEF AckEvent, StatusEvents, AckRecords
<1>6. statusPushes' \in Seq(StatusEvents)
  <2>1. statusPushes' = statusPushes \/ statusPushes' = Append(statusPushes, AckEvent(h))
    BY DEF AckHandlerStep, AckRecord, AckCursor, AckExpected, AckReads, AckAggregate,
       AckUpdate, AckPush, AckAppend
  <2>2. statusPushes \in Seq(StatusEvents)
    BY DEF SenderTyped
  <2>3. \A e \in StatusEvents : Append(statusPushes, e) \in Seq(StatusEvents)
    BY <2>2
  <2>4. QED
    BY <1>5, <2>1, <2>2, <2>3
<1>7. /\ receiptLog' \in Seq(StatusEvents) /\ Len(receiptLog) <= Len(receiptLog')
      /\ Len(receiptLog') + Cardinality(Working)' <= acks
  <2>1. /\ receiptLog \in Seq(StatusEvents) /\ Len(receiptLog) \in Nat
        /\ Len(receiptLog) + Cardinality(Working) <= acks /\ acks \in Int
    BY DEF SenderTyped
  <2>2. CASE receiptLog' = receiptLog
    BY <1>4, <2>1, <2>2
  <2>3. CASE AckAppend(h)
    <3>1. receiptLog' = Append(receiptLog, AckEvent(h)) /\ ack' = [ack EXCEPT ![h] = NoAck]
      BY <2>3 DEF AckAppend
    <3>2. ack'[h] = NoAck /\ NoAck.step = "idle"
      BY <3>1 DEF StatusInv, RowsTyped, NoAck
    <3>3. Working' = Working \ {h}
      BY <1>3, <3>2 DEF Working
    <3>4. Cardinality(Working)' = Cardinality(Working) - 1
      BY <1>3, <1>4, <3>3, FS_RemoveElement
    <3>5. receiptLog' \in Seq(StatusEvents) /\ Len(receiptLog') = Len(receiptLog) + 1
      BY <1>5, <2>1, <3>1
    <3>6. QED
      BY <1>4, <2>1, <3>4, <3>5
  <2>4. QED
    BY <2>2, <2>3 DEF AckHandlerStep, AckRecord, AckCursor, AckExpected, AckReads,
       AckAggregate, AckUpdate, AckPush
<1>8. sender.synced \in Nat /\ Len(receiptLog) \in Nat /\ Len(receiptLog') \in Nat
  BY <1>7 DEF SenderTyped
<1>9. sender'.synced <= Len(receiptLog')
  BY <1>2, <1>7, <1>8 DEF senderVars, SenderTyped
<1>10. QED
  BY <1>2, <1>6, <1>7, <1>9 DEF SenderTyped, senderVars

LEMMA SenderTypedStart ==
    ASSUME StatusInv, SenderTyped, NEW h \in AckHandlers, NEW m \in Messages, NEW kind,
           AckStart(h, m, kind)
    PROVE  SenderTyped'
<1>1. /\ ack[h].step = "idle" /\ acks < MaxAcks /\ acks' = acks + 1
      /\ \A g \in AckHandlers \ {h} : ack'[g] = ack[g]
      /\ UNCHANGED <<moves, statusPushes, receiptLog, senderVars>>
  <2>1. NoAck.step = "idle"
    BY DEF NoAck
  <2>2. QED
    BY <2>1 DEF AckStart, StatusInv, RowsTyped
<1>2. h \notin Working /\ Working' \subseteq Working \cup {h}
  BY <1>1 DEF Working
<1>3. /\ IsFiniteSet(Working) /\ Cardinality(Working) \in Nat
      /\ IsFiniteSet(Working \cup {h})
      /\ Cardinality(Working \cup {h}) = Cardinality(Working) + 1
  BY <1>2, WorkingFinite, FS_AddElement
<1>4. Cardinality(Working)' \in Nat /\ Cardinality(Working)' <= Cardinality(Working) + 1
  BY <1>2, <1>3, FS_Subset, FS_CardinalityType
<1>5. crossed' \in [Messages -> SUBSET {"acks", "sync", "push"}]
  BY DEF AckStart, SenderTyped
<1>6. /\ acks' \in 0 .. MaxAcks /\ Len(receiptLog) + Cardinality(Working)' <= acks'
  <2>1. /\ acks \in 0 .. MaxAcks /\ Len(receiptLog) \in Nat
        /\ Len(receiptLog) + Cardinality(Working) <= acks /\ MaxAcks \in Nat
    BY ReceiptConstants DEF SenderTyped
  <2>2. QED
    BY <1>1, <1>3, <1>4, <2>1
<1>7. QED
  BY <1>1, <1>5, <1>6 DEF SenderTyped, senderVars

\* Queues and logs.
LEMMA Appended ==
    ASSUME NEW q \in Seq(StatusEvents), NEW e \in StatusEvents, NEW r, r = Append(q, e)
    PROVE  /\ r \in Seq(StatusEvents) /\ Len(q) \in Nat /\ Len(r) = Len(q) + 1
           /\ DOMAIN q = 1 .. Len(q) /\ DOMAIN r = 1 .. Len(q) + 1
           /\ r[Len(q) + 1] = e /\ \A i \in DOMAIN q : r[i] = q[i]
OBVIOUS

LEMMA Taken ==
    ASSUME NEW q \in Seq(StatusEvents), q # <<>>
    PROVE  /\ Head(q) \in StatusEvents /\ Head(q) = q[1]
           /\ Tail(q) \in Seq(StatusEvents) /\ Len(q) \in Nat /\ Len(q) >= 1
           /\ DOMAIN q = 1 .. Len(q) /\ DOMAIN Tail(q) = 1 .. Len(q) - 1
           /\ \A i \in 1 .. Len(q) - 1 : Tail(q)[i] = q[i + 1]
OBVIOUS

LEMMA RouteEventTyped == RouteEvent \in StatusEvents /\ RouteEvent.msg = 0 /\ RouteEvent.status = ""
<1>1. 0 \in 0 .. MaxMessage
  BY ReceiptConstants
<1>2. QED
  BY <1>1 DEF RouteEvent, StatusEvents, Statuses

\* An event of the queue, or none, is applied.
LEMMA DeliveredShown ==
    ASSUME SenderTyped, StatusDelivered
    PROVE  /\ statusPushes # <<>> /\ statusPushes' = Tail(statusPushes)
           /\ shown' \in [Messages -> Statuses]
           /\ \A m \in Messages :
                 /\ Head(statusPushes).msg = m /\ sender.routed /\ Head(statusPushes) # RouteEvent
                       => shown'[m] = Head(statusPushes).status
                 /\ Head(statusPushes).msg # m \/ ~sender.routed => shown'[m] = shown[m]
<1>1. /\ statusPushes # <<>> /\ statusPushes' = Tail(statusPushes)
      /\ statusPushes \in Seq(StatusEvents) /\ shown \in [Messages -> Statuses]
  BY DEF StatusDelivered, SenderTyped
<1>2. PICK e \in StatusEvents : e = Head(statusPushes)
  BY <1>1, Taken
<1>3. RouteEvent.msg = 0 /\ 0 \notin Messages
  BY ReceiptNumbers DEF RouteEvent, Messages
<1>4. CASE e = RouteEvent
  <2>1. shown' = shown
    BY <1>2, <1>4, Zenon DEF StatusDelivered
  <2>2. QED
    BY <1>1, <1>2, <1>3, <1>4, <2>1
<1>5. CASE e # RouteEvent /\ sender.routed
  <2>1. PICK events : events = <<e>>
    OBVIOUS
  <2>2. Show(events)
    <3>1. Show(IF sender.routed THEN <<e>> ELSE <<>>)
      BY <1>2, <1>5, Zenon DEF StatusDelivered
    <3>2. (IF sender.routed THEN <<e>> ELSE <<>>) = <<e>>
      BY <1>5
    <3>3. QED
      BY <2>1, <3>1, <3>2, Zenon
  <2>3. events \in Seq(StatusEvents) /\ DOMAIN events = {1} /\ events[1] = e
    BY <2>1
  <2>4. /\ shown' \in [Messages -> Statuses]
        /\ \A m \in Messages : (\A i \in DOMAIN events : events[i].msg # m) =>
              shown'[m] = shown[m]
        /\ \A m \in Messages, i \in DOMAIN events :
              events[i].msg = m /\ (\A j \in DOMAIN events : j > i => events[j].msg # m) =>
                 shown'[m] = events[i].status
    BY <1>1, <2>2, <2>3, ShowMeans
  <2>5. QED
    BY <1>1, <1>2, <1>5, <2>3, <2>4
<1>6. CASE e # RouteEvent /\ ~sender.routed
  <2>1. PICK events : events = <<>>
    OBVIOUS
  <2>2. Show(events)
    <3>1. Show(IF sender.routed THEN <<e>> ELSE <<>>)
      BY <1>2, <1>6, Zenon DEF StatusDelivered
    <3>2. (IF sender.routed THEN <<e>> ELSE <<>>) = <<>>
      BY <1>6
    <3>3. QED
      BY <2>1, <3>1, <3>2, Zenon
  <2>3. events \in Seq(StatusEvents) /\ DOMAIN events = {}
    BY <2>1
  <2>4. /\ shown' \in [Messages -> Statuses]
        /\ \A m \in Messages : (\A i \in DOMAIN events : events[i].msg # m) =>
              shown'[m] = shown[m]
    BY <1>1, <2>2, <2>3, ShowMeans
  <2>5. QED
    BY <1>1, <1>6, <2>3, <2>4
<1>7. QED
  BY <1>4, <1>5, <1>6

\* The sender's position and stage, step by step.
LEMMA DeliveredMoves ==
    ASSUME SenderTyped, StatusDelivered
    PROVE  /\ UNCHANGED <<ack, acks, moves, receiptLog, crossed>>
           /\ sender'.stage = sender.stage /\ sender'.synced = sender.synced
           /\ Head(statusPushes) = RouteEvent => sender' = [sender EXCEPT !.routed = TRUE]
           /\ Head(statusPushes) # RouteEvent => sender' = sender
           /\ sender'.routed <=> sender.routed \/ Head(statusPushes) = RouteEvent
<1>1. /\ Head(statusPushes) = RouteEvent => sender' = [sender EXCEPT !.routed = TRUE]
      /\ Head(statusPushes) # RouteEvent => sender' = sender
  BY Zenon DEF StatusDelivered
<1>2. UNCHANGED <<ack, acks, moves, receiptLog, crossed>>
  BY Zenon DEF StatusDelivered
<1>3. CASE Head(statusPushes) = RouteEvent
  <2>1. sender' = [sender EXCEPT !.routed = TRUE]
    BY <1>1, <1>3
  <2>2. sender'.stage = sender.stage /\ sender'.synced = sender.synced /\ sender'.routed
    BY <2>1 DEF SenderTyped
  <2>3. QED
    BY <1>1, <1>2, <1>3, <2>2
<1>4. CASE Head(statusPushes) # RouteEvent
  <2>1. sender' = sender
    BY <1>1, <1>4
  <2>2. QED
    BY <1>1, <1>2, <1>4, <2>1
<1>5. QED
  BY <1>3, <1>4

LEMMA LeavesMoves ==
    ASSUME SenderTyped, SenderLeaves
    PROVE  /\ UNCHANGED <<ack, acks, moves, statusPushes, receiptLog, shown, msgStatus>>
           /\ sender.stage = "synced" /\ sender.routed
           /\ sender'.stage = "out" /\ sender'.synced = sender.synced /\ ~sender'.routed
BY DEF SenderLeaves, SenderTyped

LEMMA ReturnsMoves ==
    ASSUME SenderTyped, SenderReturns
    PROVE  /\ UNCHANGED <<ack, acks, moves, receiptLog, shown, crossed, msgStatus>>
           /\ statusPushes' = Append(statusPushes, RouteEvent)
           /\ sender.stage = "out" /\ sender'.stage = "in"
           /\ sender'.synced = sender.synced /\ sender'.routed = sender.routed
BY DEF SenderReturns, SenderTyped

LEMMA SyncsMoves ==
    ASSUME SenderTyped, SenderSyncs
    PROVE  /\ UNCHANGED <<ack, acks, moves, statusPushes, receiptLog, msgStatus>>
           /\ sender.stage = "in" /\ sender'.stage = "synced"
           /\ sender'.synced = Len(receiptLog) /\ sender'.routed = sender.routed
BY DEF SenderSyncs, SenderTyped

\* The sender's side of the types.
LEMMA SenderTypedDelivered ==
    ASSUME SenderTyped, StatusDelivered
    PROVE  SenderTyped'
<1>1. UNCHANGED <<ack, acks, moves, receiptLog, crossed>>
  BY DeliveredMoves
<1>2. statusPushes' \in Seq(StatusEvents) /\ shown' \in [Messages -> Statuses]
  <2>1. statusPushes \in Seq(StatusEvents)
    BY DEF SenderTyped
  <2>2. QED
    BY <2>1, DeliveredShown, Taken
<1>3. /\ sender' \in [stage : {"out", "in", "synced"}, routed : BOOLEAN,
                      breaks : 0 .. MaxBreaks, synced : Nat]
      /\ sender'.stage = sender.stage /\ sender'.breaks = sender.breaks
      /\ sender'.synced = sender.synced
  <2>1. CASE Head(statusPushes) = RouteEvent
    <3>1. sender' = [sender EXCEPT !.routed = TRUE]
      BY <2>1, DeliveredMoves
    <3>2. QED
      BY <3>1 DEF SenderTyped
  <2>2. CASE Head(statusPushes) # RouteEvent
    BY <2>2, DeliveredMoves DEF SenderTyped
  <2>3. QED
    BY <2>1, <2>2
<1>4. Working' = Working
  BY <1>1 DEF Working
<1>5. QED
  BY <1>1, <1>2, <1>3, <1>4 DEF SenderTyped

LEMMA SenderTypedLeaves ==
    ASSUME StatusInv, SenderTyped, SenderLeaves
    PROVE  SenderTyped'
<1>1. UNCHANGED <<ack, acks, moves, statusPushes, receiptLog, shown>>
  BY DEF SenderLeaves
<1>2. crossed' \in [Messages -> SUBSET {"acks", "sync", "push"}]
  BY DEF SenderLeaves, SenderTyped
<1>3. /\ sender' \in [stage : {"out", "in", "synced"}, routed : BOOLEAN,
                      breaks : 0 .. MaxBreaks, synced : Nat]
      /\ sender'.synced = sender.synced
  <2>1. /\ sender' = [sender EXCEPT !.stage = "out", !.routed = FALSE, !.breaks = @ + 1]
        /\ sender.breaks + Len(moves) < MaxBreaks
    BY DEF SenderLeaves
  <2>2. sender.breaks + 1 \in 0 .. MaxBreaks
    <3>1. sender.breaks \in 0 .. MaxBreaks /\ MaxBreaks \in Nat
      BY ReceiptConstants DEF SenderTyped
    <3>2. moves \in Seq(Recipients)
      BY DEF StatusInv, RowsTyped
    <3>3. Len(moves) \in Nat
      BY <3>2
    <3>4. QED
      BY <2>1, <3>1, <3>3
  <2>3. QED
    BY <2>1, <2>2 DEF SenderTyped
<1>4. Working' = Working
  BY <1>1 DEF Working
<1>5. QED
  BY <1>1, <1>2, <1>3, <1>4 DEF SenderTyped

LEMMA SenderTypedReturns ==
    ASSUME SenderTyped, SenderReturns
    PROVE  SenderTyped'
<1>1. /\ UNCHANGED <<ack, acks, moves, receiptLog, shown, crossed>>
      /\ statusPushes' = Append(statusPushes, RouteEvent)
  BY DEF SenderReturns
<1>2. statusPushes' \in Seq(StatusEvents)
  <2>1. statusPushes \in Seq(StatusEvents)
    BY DEF SenderTyped
  <2>2. QED
    BY <1>1, <2>1, RouteEventTyped, Appended
<1>3. /\ sender' \in [stage : {"out", "in", "synced"}, routed : BOOLEAN,
                      breaks : 0 .. MaxBreaks, synced : Nat]
      /\ sender'.stage = "in" /\ sender'.synced = sender.synced
  <2>1. sender' = [sender EXCEPT !.stage = "in"]
    BY DEF SenderReturns
  <2>2. QED
    BY <2>1 DEF SenderTyped
<1>4. Working' = Working
  BY <1>1 DEF Working
<1>5. QED
  BY <1>1, <1>2, <1>3, <1>4 DEF SenderTyped

LEMMA SenderTypedSyncs ==
    ASSUME SenderTyped, SenderSyncs
    PROVE  SenderTyped'
<1>1. UNCHANGED <<ack, acks, moves, statusPushes, receiptLog>>
  BY DEF SenderSyncs
<1>2. /\ crossed' \in [Messages -> SUBSET {"acks", "sync", "push"}]
      /\ sender.synced \in Nat /\ receiptLog \in Seq(StatusEvents)
      /\ Len(receiptLog) \in Nat /\ shown \in [Messages -> Statuses]
  BY DEF SenderSyncs, SenderTyped
<1>3. shown' \in [Messages -> Statuses]
  <2>1. PICK events : events = SubSeq(receiptLog, sender.synced + 1, Len(receiptLog))
    OBVIOUS
  <2>2. Show(events)
    BY <2>1, Zenon DEF SenderSyncs
  <2>3. events \in Seq(StatusEvents)
    BY <1>2, <2>1
  <2>4. QED
    BY <1>2, <2>2, <2>3, ShowMeans
<1>4. /\ sender' \in [stage : {"out", "in", "synced"}, routed : BOOLEAN,
                      breaks : 0 .. MaxBreaks, synced : Nat]
      /\ sender'.stage = "synced" /\ sender'.synced = Len(receiptLog)
  <2>1. sender' = [sender EXCEPT !.stage = "synced", !.synced = Len(receiptLog)]
    BY DEF SenderSyncs
  <2>2. QED
    BY <1>2, <2>1 DEF SenderTyped
<1>5. Working' = Working
  BY <1>1 DEF Working
<1>6. QED
  BY <1>1, <1>2, <1>3, <1>4, <1>5 DEF SenderTyped

LEMMA SenderTypedMoves ==
    ASSUME StatusInv, SenderTyped, NEW u \in Recipients, MemberMoves(u)
    PROVE  SenderTyped'
<1>1. /\ moves' = Append(moves, u) /\ Len(moves) < MaxMoves
      /\ UNCHANGED <<ack, acks, statusPushes, receiptLog, sender, shown, crossed>>
  BY DEF MemberMoves, senderVars
<1>2. Len(moves') <= MaxMoves
  <2>1. moves \in Seq(Recipients) /\ MaxMoves \in Nat
    BY ReceiptConstants DEF StatusInv, RowsTyped
  <2>2. Len(moves') = Len(moves) + 1 /\ Len(moves) \in Nat
    BY <1>1, <2>1
  <2>3. QED
    BY <1>1, <2>1, <2>2
<1>3. Working' = Working
  BY <1>1 DEF Working
<1>4. QED
  BY <1>1, <1>2, <1>3 DEF SenderTyped

-----------------------------------------------------------------------------
\* The queue keeps the order of pushes and route.
LEMMA RouteQueuedPush ==
    ASSUME SenderTyped, RouteQueued, NEW e \in StatusEvents, e.msg # 0,
           statusPushes' = Append(statusPushes, e), sender' = sender
    PROVE  RouteQueued'
<1>1. statusPushes \in Seq(StatusEvents)
  BY DEF SenderTyped
<1>2. PICK q : q = statusPushes'
  OBVIOUS
<1>3. /\ Len(statusPushes) \in Nat
      /\ DOMAIN statusPushes = 1 .. Len(statusPushes) /\ DOMAIN q = 1 .. Len(statusPushes) + 1
      /\ q[Len(statusPushes) + 1] = e /\ \A i \in DOMAIN statusPushes : q[i] = statusPushes[i]
  BY <1>1, <1>2, Appended
<1>4. \A i \in DOMAIN q : q[i].msg = 0 => i \in DOMAIN statusPushes /\ statusPushes[i].msg = 0
  BY <1>3
<1>5. (\E i \in DOMAIN q : q[i].msg = 0) <=> \E i \in DOMAIN statusPushes : statusPushes[i].msg = 0
  BY <1>3, <1>4
<1>6. QED
  BY <1>2, <1>3, <1>4, <1>5 DEF RouteQueued

LEMMA RouteQueuedDelivered ==
    ASSUME SenderTyped, RouteQueued, StatusDelivered
    PROVE  RouteQueued'
<1>1. statusPushes \in Seq(StatusEvents) /\ statusPushes # <<>>
  BY DEF SenderTyped, StatusDelivered
<1>2. PICK q : q = statusPushes' /\ q = Tail(statusPushes)
  BY DeliveredShown
<1>3. /\ Len(statusPushes) \in Nat /\ Len(statusPushes) >= 1
      /\ DOMAIN statusPushes = 1 .. Len(statusPushes) /\ DOMAIN q = 1 .. Len(statusPushes) - 1
      /\ Head(statusPushes) = statusPushes[1]
      /\ \A i \in 1 .. Len(statusPushes) - 1 : q[i] = statusPushes[i + 1]
  BY <1>1, <1>2, Taken
<1>4. /\ sender'.stage = sender.stage
      /\ sender'.routed <=> sender.routed \/ statusPushes[1] = RouteEvent
  BY <1>3, DeliveredMoves
<1>5. statusPushes[1] = RouteEvent <=> statusPushes[1].msg = 0
  <2>1. 1 \in DOMAIN statusPushes
    BY <1>3
  <2>2. statusPushes[1].msg = 0 => statusPushes[1] = RouteEvent
    BY <2>1 DEF RouteQueued
  <2>3. QED
    BY <2>2, RouteEventTyped
<1>6. /\ \A i \in DOMAIN q : q[i].msg = 0 => q[i] = RouteEvent
      /\ \A i, j \in DOMAIN q : q[i].msg = 0 /\ q[j].msg = 0 => i = j
  <2>1. \A i \in DOMAIN q : i + 1 \in DOMAIN statusPushes /\ q[i] = statusPushes[i + 1]
    BY <1>3
  <2>2. \A i, j \in DOMAIN q : i + 1 = j + 1 => i = j
    BY <1>3
  <2>3. QED
    BY <2>1, <2>2 DEF RouteQueued
<1>7. CASE statusPushes[1].msg = 0
  <2>1. \A i \in DOMAIN q : q[i].msg # 0
    <3>1. \A i \in DOMAIN q : i + 1 \in DOMAIN statusPushes /\ i + 1 # 1 /\ q[i] = statusPushes[i + 1]
      BY <1>3
    <3>2. 1 \in DOMAIN statusPushes
      BY <1>3
    <3>3. QED
      BY <1>7, <3>1, <3>2 DEF RouteQueued
  <2>2. sender.stage # "out" /\ sender'.routed
    BY <1>3, <1>4, <1>5, <1>7 DEF RouteQueued
  <2>3. QED
    BY <1>2, <1>4, <1>6, <2>1, <2>2 DEF RouteQueued
<1>8. CASE statusPushes[1].msg # 0
  <2>1. (\E i \in DOMAIN q : q[i].msg = 0) <=> \E i \in DOMAIN statusPushes : statusPushes[i].msg = 0
    <3>1. ASSUME NEW i \in DOMAIN statusPushes, statusPushes[i].msg = 0
          PROVE  \E k \in DOMAIN q : q[k].msg = 0
      <4>1. i - 1 \in DOMAIN q /\ q[i - 1] = statusPushes[i]
        BY <1>3, <1>8, <3>1
      <4>2. QED
        BY <3>1, <4>1
    <3>2. ASSUME NEW i \in DOMAIN q, q[i].msg = 0
          PROVE  \E k \in DOMAIN statusPushes : statusPushes[k].msg = 0
      <4>1. i + 1 \in DOMAIN statusPushes /\ q[i] = statusPushes[i + 1]
        BY <1>3
      <4>2. QED
        BY <3>2, <4>1
    <3>3. QED
      BY <3>1, <3>2
  <2>2. sender'.routed <=> sender.routed
    BY <1>4, <1>5, <1>8
  <2>3. QED
    BY <1>2, <1>4, <1>6, <2>1, <2>2 DEF RouteQueued
<1>9. QED
  BY <1>7, <1>8

LEMMA RouteQueuedLeaves ==
    ASSUME SenderTyped, RouteQueued, SenderLeaves
    PROVE  RouteQueued'
<1>1. /\ statusPushes' = statusPushes /\ sender.stage = "synced" /\ sender.routed
      /\ sender'.stage = "out" /\ ~sender'.routed
  BY LeavesMoves
<1>2. QED
  BY <1>1 DEF RouteQueued

LEMMA RouteQueuedReturns ==
    ASSUME SenderTyped, RouteQueued, SenderReturns
    PROVE  RouteQueued'
<1>1. statusPushes \in Seq(StatusEvents)
  BY DEF SenderTyped
<1>0. PICK e \in StatusEvents : e = RouteEvent /\ e.msg = 0
  BY RouteEventTyped
<1>2. PICK q : q = statusPushes' /\ q = Append(statusPushes, e)
  BY <1>0, ReturnsMoves
<1>3. /\ Len(statusPushes) \in Nat
      /\ DOMAIN statusPushes = 1 .. Len(statusPushes) /\ DOMAIN q = 1 .. Len(statusPushes) + 1
      /\ q[Len(statusPushes) + 1] = e
      /\ \A i \in DOMAIN statusPushes : q[i] = statusPushes[i]
  BY <1>1, <1>2, Appended
<1>4. /\ sender.stage = "out" /\ sender'.stage = "in" /\ sender'.routed = sender.routed
  BY ReturnsMoves
<1>5. ~sender.routed /\ \A i \in DOMAIN statusPushes : statusPushes[i].msg # 0
  BY <1>4 DEF RouteQueued
<1>6. \A i \in DOMAIN q : q[i].msg = 0 <=> i = Len(statusPushes) + 1
  BY <1>0, <1>3, <1>5
<1>7. Len(statusPushes) + 1 \in DOMAIN q
  BY <1>3
<1>8. QED
  BY <1>0, <1>2, <1>3, <1>4, <1>5, <1>6, <1>7 DEF RouteQueued

LEMMA RouteQueuedSyncs ==
    ASSUME SenderTyped, RouteQueued, SenderSyncs
    PROVE  RouteQueued'
<1>1. /\ statusPushes' = statusPushes /\ sender.stage = "in" /\ sender'.stage = "synced"
      /\ sender'.routed = sender.routed
  BY SyncsMoves
<1>2. QED
  BY <1>1 DEF RouteQueued

-----------------------------------------------------------------------------
(***************************************************************************)
(* What is on its way to the sender.                                       *)
(***************************************************************************)

\* The push of another message comes behind the pushes of this one.
LEMMA ComingPushOther ==
    ASSUME SenderTyped, NEW e \in StatusEvents, NEW m, e.msg \notin {0, m},
           statusPushes' = Append(statusPushes, e), sender' = sender
    PROVE  /\ \A s : Coming(m, s) => Coming(m, s)'
           /\ NoneComing(m) => NoneComing(m)'
<1>1. statusPushes \in Seq(StatusEvents)
  BY DEF SenderTyped
<1>2. PICK q : q = statusPushes'
  OBVIOUS
<1>3. /\ Len(statusPushes) \in Nat
      /\ DOMAIN statusPushes = 1 .. Len(statusPushes) /\ DOMAIN q = 1 .. Len(statusPushes) + 1
      /\ q[Len(statusPushes) + 1] = e /\ \A i \in DOMAIN statusPushes : q[i] = statusPushes[i]
  BY <1>1, <1>2, Appended
<1>4. ASSUME NEW s, Coming(m, s)
      PROVE  Coming(m, s)'
  <2>1. PICK i \in DOMAIN statusPushes :
           /\ statusPushes[i].msg = m /\ statusPushes[i].status = s
           /\ \A j \in DOMAIN statusPushes : j > i => statusPushes[j].msg \notin {0, m}
    BY <1>4 DEF Coming
  <2>2. /\ i \in DOMAIN q /\ q[i].msg = m /\ q[i].status = s
        /\ \A j \in DOMAIN q : j > i => q[j].msg \notin {0, m}
    <3>1. i \in DOMAIN q /\ q[i] = statusPushes[i]
      BY <1>3
    <3>2. \A j \in DOMAIN q : j \in DOMAIN statusPushes \/ j = Len(statusPushes) + 1
      BY <1>3
    <3>3. \A j \in DOMAIN q : j > i => q[j].msg \notin {0, m}
      BY <1>3, <2>1, <3>2
    <3>4. QED
      BY <2>1, <3>1, <3>3
  <2>3. sender'.stage # "out"
    BY <1>4 DEF Coming
  <2>4. QED
    BY <1>2, <2>2, <2>3 DEF Coming
<1>5. ASSUME NoneComing(m)
      PROVE  NoneComing(m)'
  <2>1. ASSUME NEW i \in DOMAIN q, q[i].msg = m, sender.stage # "out"
        PROVE  \E j \in DOMAIN q : j > i /\ q[j].msg = 0
    <3>1. i \in DOMAIN statusPushes /\ statusPushes[i].msg = m
      BY <1>3, <2>1
    <3>2. PICK j \in DOMAIN statusPushes : j > i /\ statusPushes[j].msg = 0
      BY <1>5, <2>1, <3>1 DEF NoneComing
    <3>3. j \in DOMAIN q /\ q[j] = statusPushes[j]
      BY <1>3
    <3>4. QED
      BY <3>2, <3>3
  <2>2. QED
    BY <1>2, <2>1 DEF NoneComing
<1>6. QED
  BY <1>4, <1>5

\* A push of the message itself is the last one.
LEMMA ComingPushOwn ==
    ASSUME SenderTyped, NEW e \in StatusEvents,
           statusPushes' = Append(statusPushes, e), sender' = sender
    PROVE  /\ sender.stage # "out" => Coming(e.msg, e.status)'
           /\ sender.stage = "out" => NoneComing(e.msg)'
<1>1. statusPushes \in Seq(StatusEvents)
  BY DEF SenderTyped
<1>2. PICK q : q = statusPushes'
  OBVIOUS
<1>3. /\ Len(statusPushes) \in Nat /\ DOMAIN q = 1 .. Len(statusPushes) + 1
      /\ q[Len(statusPushes) + 1] = e
  BY <1>1, <1>2, Appended
<1>4. /\ Len(statusPushes) + 1 \in DOMAIN q
      /\ \A j \in DOMAIN q : ~(j > Len(statusPushes) + 1)
  BY <1>3
<1>5. sender.stage # "out" => Coming(e.msg, e.status)'
  BY <1>2, <1>3, <1>4 DEF Coming
<1>6. sender.stage = "out" => NoneComing(e.msg)'
  BY DEF NoneComing
<1>7. QED
  BY <1>5, <1>6

LEMMA LoggedAppend ==
    ASSUME SenderTyped, NEW e \in StatusEvents, receiptLog' = Append(receiptLog, e)
    PROVE  /\ LastLogged(e.msg, e.status)'
           /\ \A m, s : m # e.msg /\ LastLogged(m, s) => LastLogged(m, s)'
           /\ \E i \in sender.synced + 1 .. Len(receiptLog') : receiptLog'[i].msg = e.msg
           /\ \A m : (\E i \in sender.synced + 1 .. Len(receiptLog) : receiptLog[i].msg = m)
                  => \E i \in sender.synced + 1 .. Len(receiptLog') : receiptLog'[i].msg = m
<1>1. /\ receiptLog \in Seq(StatusEvents) /\ sender.synced \in Nat
      /\ sender.synced <= Len(receiptLog)
  BY DEF SenderTyped
<1>2. PICK q : q = receiptLog'
  OBVIOUS
<1>3. /\ Len(receiptLog) \in Nat /\ Len(q) = Len(receiptLog) + 1
      /\ DOMAIN receiptLog = 1 .. Len(receiptLog) /\ DOMAIN q = 1 .. Len(receiptLog) + 1
      /\ q[Len(receiptLog) + 1] = e /\ \A i \in DOMAIN receiptLog : q[i] = receiptLog[i]
  BY <1>1, <1>2, Appended
<1>4. LastLogged(e.msg, e.status)'
  <2>1. /\ Len(receiptLog) + 1 \in DOMAIN q
        /\ \A j \in DOMAIN q : ~(j > Len(receiptLog) + 1)
    BY <1>3
  <2>2. QED
    BY <1>2, <1>3, <2>1 DEF LastLogged
<1>5. ASSUME NEW m, NEW s, m # e.msg, LastLogged(m, s)
      PROVE  LastLogged(m, s)'
  <2>1. \A j \in DOMAIN q : j \in DOMAIN receiptLog \/ j = Len(receiptLog) + 1
    BY <1>3
  <2>2. CASE s = "sent" /\ \A i \in DOMAIN receiptLog : receiptLog[i].msg # m
    <3>1. \A i \in DOMAIN q : q[i].msg # m
      BY <1>3, <1>5, <2>1, <2>2
    <3>2. QED
      BY <1>2, <2>2, <3>1 DEF LastLogged
  <2>3. CASE \E i \in DOMAIN receiptLog :
                /\ receiptLog[i].msg = m /\ receiptLog[i].status = s
                /\ \A j \in DOMAIN receiptLog : j > i => receiptLog[j].msg # m
    <3>1. PICK i \in DOMAIN receiptLog :
             /\ receiptLog[i].msg = m /\ receiptLog[i].status = s
             /\ \A j \in DOMAIN receiptLog : j > i => receiptLog[j].msg # m
      BY <2>3
    <3>2. i \in DOMAIN q /\ q[i] = receiptLog[i]
      BY <1>3
    <3>3. \A j \in DOMAIN q : j > i => q[j].msg # m
      BY <1>3, <1>5, <2>1, <3>1
    <3>4. QED
      BY <1>2, <3>1, <3>2, <3>3 DEF LastLogged
  <2>4. QED
    BY <1>5, <2>2, <2>3 DEF LastLogged
<1>6. \E i \in sender.synced + 1 .. Len(q) : q[i].msg = e.msg
  <2>1. Len(receiptLog) + 1 \in sender.synced + 1 .. Len(q)
    BY <1>1, <1>3
  <2>2. QED
    BY <1>3, <2>1
<1>7. ASSUME NEW m, NEW i \in sender.synced + 1 .. Len(receiptLog), receiptLog[i].msg = m
      PROVE  \E k \in sender.synced + 1 .. Len(q) : q[k].msg = m
  <2>1. i \in sender.synced + 1 .. Len(q) /\ q[i] = receiptLog[i]
    BY <1>1, <1>3
  <2>2. QED
    BY <1>7, <2>1
<1>8. QED
  BY <1>2, <1>4, <1>5, <1>6, <1>7

\* What leaves the part of m in the queue, the log and the handlers as it is.
LEMMA ShownFollowsKept ==
    ASSUME NEW m, ShownFollows(m), Alone(m), crossed[m] = {},
           ~Pushing(m)' => ~Pushing(m), ~Appending(m)' => ~Appending(m),
           msgStatus'[m] = msgStatus[m], shown'[m] = shown[m],
           LastLogged(m, msgStatus[m]) => LastLogged(m, msgStatus[m])',
           Coming(m, msgStatus[m]) => Coming(m, msgStatus[m])',
           NoneComing(m) => NoneComing(m)',
           sender'.stage = sender.stage, EventDue(m) => EventDue(m)'
    PROVE  ShownFollows(m)'
<1> SUFFICES ASSUME ~Pushing(m)'
             PROVE  /\ ~Appending(m)' => LastLogged(m, msgStatus[m])'
                    /\ \/ Coming(m, msgStatus[m])'
                       \/ /\ NoneComing(m)'
                          /\ shown'[m] = msgStatus'[m]
                             \/ (sender'.stage # "synced" /\ EventDue(m)')
  BY DEF ShownFollows
<1>1. /\ ~Appending(m) => LastLogged(m, msgStatus[m])
      /\ \/ Coming(m, msgStatus[m])
         \/ /\ NoneComing(m)
            /\ shown[m] = msgStatus[m] \/ (sender.stage # "synced" /\ EventDue(m))
  BY DEF ShownFollows
<1>2. QED
  BY <1>1

\* Queue, log and connection as they are.
LEMMA SenderSame ==
    ASSUME UNCHANGED <<statusPushes, receiptLog, sender>>, NEW m, NEW s, s' = s
    PROVE  /\ LastLogged(m, s)' = LastLogged(m, s) /\ Coming(m, s)' = Coming(m, s)
           /\ NoneComing(m)' = NoneComing(m)
BY DEF LastLogged, Coming, NoneComing

-----------------------------------------------------------------------------
LEMMA AckEventTyped ==
    ASSUME StatusInv, NEW h \in AckHandlers
    PROVE  /\ AckEvent(h) \in StatusEvents
           /\ AckEvent(h).msg = ack[h].msg /\ AckEvent(h).status = ack[h].status
<1>1. PICK b \in AckRecords : b = ack[h]
  BY DEF StatusInv, RowsTyped
<1>2. QED
  BY <1>1 DEF AckEvent, StatusEvents, AckRecords

\* What a statement of the handler of m does to another message.
LEMMA ShownFollowsOthers ==
    ASSUME StatusInv, SenderTyped, NEW h \in AckHandlers, AckHandlerStep(h), NEW m \in Messages,
           OneHandler(h, m), NEW n \in Messages \ {m}, ShownFollows(n)
    PROVE  ShownFollows(n)'
<1>1. /\ UNCHANGED <<moves, senderVars, crossed>> /\ ack[h].msg = m
      /\ \A g \in AckHandlers \ {h} : ack'[g] = ack[g]
      /\ msgStatus'[n] = msgStatus[n] /\ sender' = sender /\ shown' = shown
  BY DEF OneHandler, senderVars
<1>2. CASE Alone(n) /\ crossed[n] = {}
  <2>1. InProgress(n)' = InProgress(n) /\ \A g \in InProgress(n) : ack'[g] = ack[g]
    BY <1>1, OneHandlerProgress DEF InProgress
  <2>2. Pushing(n)' = Pushing(n) /\ Appending(n)' = Appending(n)
    BY <2>1 DEF Pushing, Appending
  <2>3. PICK s : s = msgStatus[n]
    OBVIOUS
  <2>4. PICK e \in StatusEvents : e = AckEvent(h) /\ e.msg = m
    BY <1>1, AckEventTyped
  <2>5. m \notin {0, n}
    BY ReceiptNumbers
  <2>6. /\ Coming(n, s) => Coming(n, s)'
        /\ NoneComing(n) => NoneComing(n)'
    <3>1. CASE statusPushes' = statusPushes
      BY <1>1, <3>1 DEF Coming, NoneComing, senderVars
    <3>2. CASE statusPushes' = Append(statusPushes, e)
      BY <1>1, <2>4, <2>5, <3>2, ComingPushOther DEF senderVars
    <3>3. QED
      BY <2>4, <3>1, <3>2 DEF AckHandlerStep, AckRecord, AckCursor, AckExpected, AckReads,
         AckAggregate, AckUpdate, AckPush, AckAppend
  <2>7. /\ LastLogged(n, s) => LastLogged(n, s)'
        /\ EventDue(n) => EventDue(n)'
    <3>1. CASE receiptLog' = receiptLog
      BY <1>1, <2>1, <3>1 DEF LastLogged, EventDue, senderVars
    <3>2. CASE receiptLog' = Append(receiptLog, e)
      <4>1. /\ LastLogged(n, s) => LastLogged(n, s)'
            /\ (\E i \in sender.synced + 1 .. Len(receiptLog) : receiptLog[i].msg = n)
                  => \E i \in sender.synced + 1 .. Len(receiptLog') : receiptLog'[i].msg = n
        BY <2>4, <2>5, <3>2, LoggedAppend
      <4>2. QED
        BY <1>1, <2>1, <4>1 DEF EventDue, senderVars
    <3>3. QED
      BY <2>4, <3>1, <3>2 DEF AckHandlerStep, AckRecord, AckCursor, AckExpected, AckReads,
         AckAggregate, AckUpdate, AckPush, AckAppend
  <2>8. /\ Coming(n, msgStatus[n]) => Coming(n, msgStatus[n])'
        /\ LastLogged(n, msgStatus[n]) => LastLogged(n, msgStatus[n])'
    <3>1. s = msgStatus'[n]
      BY <1>1, <2>3
    <3>2. Coming(n, s)' = Coming(n, msgStatus[n])' /\ LastLogged(n, s)' = LastLogged(n, msgStatus[n])'
      BY <3>1 DEF Coming, LastLogged
    <3>3. QED
      BY <2>3, <2>6, <2>7, <3>2
  <2>9. shown'[n] = shown[n] /\ sender'.stage = sender.stage
    BY <1>1
  <2>10. QED
    BY <1>1, <1>2, <2>2, <2>6, <2>7, <2>8, <2>9, ShownFollowsKept
<1>3. CASE ~(Alone(n) /\ crossed[n] = {})
  BY <1>1, <1>3 DEF ShownFollows, Alone
<1>4. QED
  BY <1>2, <1>3

\* What it does to its own message: the push is queued behind the row, the event
\* is logged behind the push.
LEMMA ShownFollowsStep ==
    ASSUME StatusInv, SenderTyped, NEW h \in AckHandlers, AckHandlerStep(h), NEW m \in Messages,
           OneHandler(h, m), StatusFollows(m), ShownFollows(m)
    PROVE  ShownFollows(m)'
<1>1. /\ UNCHANGED <<moves, senderVars, crossed>> /\ ack[h].msg = m
      /\ sender' = sender /\ shown' = shown
  BY DEF OneHandler, senderVars
<1>2. CASE ~(Alone(m) /\ crossed[m] = {})
  BY <1>1, <1>2 DEF ShownFollows, Alone
<1>3. CASE Alone(m) /\ crossed[m] = {}
  <2>1. InProgress(m) = {h} /\ HandlerMeans(h, m)
    BY <1>3, OneHandlerProgress DEF StatusFollows
  <2>2. /\ Pushing(m) <=> ack[h].step = "push"
        /\ Appending(m) <=> ack[h].step = "append"
    BY <2>1 DEF Pushing, Appending
  <2>3. InProgress(m)' \subseteq {h}
    BY <2>1, OneHandlerProgress
  <2>4. PICK e \in StatusEvents : e = AckEvent(h) /\ e.msg = m /\ e.status = ack[h].status
    BY <1>1, AckEventTyped
  <2>5. NoAck.step = "idle"
    BY DEF NoAck
  <2>6. RowsTyped
    BY DEF StatusInv
  <2>7. PICK s : s = msgStatus[m]
    OBVIOUS
  <2>8. CASE AckRecord(h) \/ AckCursor(h) \/ AckExpected(h) \/ AckReads(h) \/ AckAggregate(h)
    <3>1. /\ UNCHANGED <<msgStatus, statusPushes, receiptLog>>
          /\ ack[h].step \in {"record", "cursor", "expected", "reads", "delivered"}
      BY <2>8 DEF AckRecord, AckCursor, AckExpected, AckReads, AckAggregate, AckAt
    <3>2. ~Pushing(m) /\ ~Appending(m)
      BY <2>2, <3>1
    <3>3. ~Appending(m)
      BY <3>2
    <3>4. /\ LastLogged(m, s)' = LastLogged(m, s) /\ Coming(m, s)' = Coming(m, s)
          /\ NoneComing(m)' = NoneComing(m)
      BY <1>1, <3>1, SenderSame
    <3>5. EventDue(m) => EventDue(m)'
      BY <1>1, <3>1, <3>2 DEF EventDue, Appending
    <3>6. /\ Coming(m, msgStatus[m]) => Coming(m, msgStatus[m])'
          /\ LastLogged(m, msgStatus[m]) => LastLogged(m, msgStatus[m])'
      BY <2>7, <3>1, <3>4
    <3>7. QED
      BY <1>1, <1>3, <3>1, <3>2, <3>4, <3>5, <3>6, ShownFollowsKept
  <2>9. CASE AckUpdate(h)
    <3>1. ack'[h].step = "push" /\ ack'[h].msg = m
      BY <1>1, <2>6, <2>9, MovedOn DEF AckUpdate, AckSteps
    <3>2. Pushing(m)'
      BY <3>1 DEF Pushing, InProgress
    <3>3. QED
      BY <3>2 DEF ShownFollows
  <2>10. CASE AckPush(h)
    <3>1. ack'[h].step = "append" /\ ack'[h].msg = m
      BY <1>1, <2>6, <2>10, MovedOn DEF AckPush, AckSteps
    <3>2. Appending(m)' /\ EventDue(m)'
      BY <3>1 DEF Appending, EventDue, InProgress
    <3>3. e.status = s /\ msgStatus' = msgStatus /\ statusPushes' = Append(statusPushes, e)
      BY <2>1, <2>4, <2>7, <2>10 DEF AckPush, AckAt, HandlerMeans
    <3>4. /\ sender.stage # "out" => Coming(m, s)'
          /\ sender.stage = "out" => NoneComing(m)'
      BY <1>1, <2>4, <3>3, ComingPushOwn
    <3>5. sender.stage # "out" => Coming(m, msgStatus[m])'
      BY <2>7, <3>3, <3>4
    <3>6. sender'.stage = "out" => sender'.stage # "synced"
      OBVIOUS
    <3>7. QED
      BY <1>1, <3>2, <3>4, <3>5, <3>6 DEF ShownFollows
  <2>11. CASE AckAppend(h)
    <3>1. /\ e.status = s /\ UNCHANGED <<msgStatus, statusPushes>>
          /\ receiptLog' = Append(receiptLog, e) /\ ack[h].step = "append"
      BY <2>1, <2>4, <2>7, <2>11 DEF AckAppend, AckAt, HandlerMeans
    <3>2. /\ LastLogged(m, s)'
          /\ \E i \in sender.synced + 1 .. Len(receiptLog') : receiptLog'[i].msg = m
      BY <2>4, <3>1, LoggedAppend
    <3>3. EventDue(m)'
      BY <1>1, <3>2 DEF EventDue
    <3>4. Coming(m, s)' = Coming(m, s) /\ NoneComing(m)' = NoneComing(m)
      BY <1>1, <3>1 DEF Coming, NoneComing
    <3>5. \/ Coming(m, s)
          \/ /\ NoneComing(m)
             /\ shown[m] = s \/ (sender.stage # "synced" /\ EventDue(m))
      BY <1>3, <2>2, <2>7, <3>1 DEF ShownFollows
    <3>6. s = msgStatus'[m]
      BY <2>7, <3>1
    <3>7. QED
      BY <1>1, <3>2, <3>3, <3>4, <3>5, <3>6 DEF ShownFollows
  <2>12. QED
    BY <2>8, <2>9, <2>10, <2>11 DEF AckHandlerStep
<1>4. QED
  BY <1>2, <1>3

LEMMA ShownFollowsStart ==
    ASSUME StatusInv, SenderTyped, NEW h \in AckHandlers, NEW m \in Messages, NEW kind,
           AckStart(h, m, kind), NEW n \in Messages, ShownFollows(n)
    PROVE  ShownFollows(n)'
<1>1. /\ ack[h] = NoAck /\ RowsTyped
      /\ UNCHANGED <<moves, msgStatus, statusPushes, receiptLog, senderVars>>
      /\ sender' = sender /\ shown' = shown
  BY DEF AckStart, StatusInv, senderVars
<1>2. /\ \A g \in AckHandlers \ {h} : ack'[g] = ack[g]
      /\ ack'[h].step = "record" /\ NoAck.step = "idle"
  <2>1. PICK a : a = [NoAck EXCEPT !.step = "record", !.msg = m, !.kind = kind,
                                   !.was = msgStatus[m]]
    OBVIOUS
  <2>2. ack' = [ack EXCEPT ![h] = a]
    BY <2>1, Zenon DEF AckStart
  <2>3. a.step = "record" /\ NoAck.step = "idle"
    BY <2>1 DEF NoAck
  <2>4. QED
    BY <1>1, <2>2, <2>3 DEF RowsTyped
<1>3. /\ Pushing(n)' <=> Pushing(n)
      /\ Appending(n)' <=> Appending(n)
  <2>1. \A g \in AckHandlers : ack[g].step \in {"push", "append"}
                                  \/ ack'[g].step \in {"push", "append"} => ack'[g] = ack[g]
    BY <1>1, <1>2
  <2>2. QED
    BY <2>1 DEF Pushing, Appending, InProgress
<1>4. crossed[n] \subseteq crossed'[n]
  BY DEF AckStart, SenderTyped
<1>5. CASE Alone(n) /\ crossed[n] = {}
  <2>1. PICK s : s = msgStatus[n] /\ s = msgStatus'[n]
    BY <1>1
  <2>2. /\ LastLogged(n, s)' = LastLogged(n, s) /\ Coming(n, s)' = Coming(n, s)
        /\ NoneComing(n)' = NoneComing(n)
    BY <1>1, SenderSame
  <2>3. EventDue(n) <=> EventDue(n)'
    BY <1>1, <1>3 DEF EventDue, Appending
  <2>4. /\ Coming(n, msgStatus[n]) => Coming(n, msgStatus[n])'
        /\ LastLogged(n, msgStatus[n]) => LastLogged(n, msgStatus[n])'
    BY <2>1, <2>2
  <2>5. QED
    BY <1>1, <1>3, <1>5, <2>2, <2>3, <2>4, ShownFollowsKept
<1>6. CASE ~(Alone(n) /\ crossed[n] = {})
  BY <1>1, <1>4, <1>6 DEF ShownFollows, Alone
<1>7. QED
  BY <1>5, <1>6

\* The main thread takes an event: what it brings is shown, or lost with the route.
LEMMA ShownFollowsDelivered ==
    ASSUME SenderTyped, RouteQueued, StatusDelivered, NEW n \in Messages, ShownFollows(n)
    PROVE  ShownFollows(n)'
<1>1. /\ statusPushes \in Seq(StatusEvents) /\ statusPushes # <<>>
      /\ msgStatus' = msgStatus
  BY DEF SenderTyped, StatusDelivered
<1>2. PICK q : q = statusPushes' /\ q = Tail(statusPushes)
  BY DeliveredShown
<1>3. /\ Len(statusPushes) \in Nat /\ Len(statusPushes) >= 1
      /\ DOMAIN statusPushes = 1 .. Len(statusPushes) /\ DOMAIN q = 1 .. Len(statusPushes) - 1
      /\ Head(statusPushes) = statusPushes[1]
      /\ \A i \in 1 .. Len(statusPushes) - 1 : q[i] = statusPushes[i + 1]
  BY <1>1, <1>2, Taken
<1>4. /\ UNCHANGED <<ack, moves, receiptLog, crossed>>
      /\ sender'.stage = sender.stage /\ sender'.synced = sender.synced
  BY DeliveredMoves
<1>5. /\ 1 \in DOMAIN statusPushes
      /\ \A i \in DOMAIN q : i + 1 \in DOMAIN statusPushes /\ i + 1 > 1 /\ q[i] = statusPushes[i + 1]
      /\ \A i \in DOMAIN statusPushes : i > 1 => i - 1 \in DOMAIN q /\ q[i - 1] = statusPushes[i]
      /\ \A i \in DOMAIN statusPushes : i = 1 \/ i > 1
  BY <1>3
<1> SUFFICES ASSUME Alone(n)', crossed'[n] = {}, ~Pushing(n)'
             PROVE  /\ ~Appending(n)' => LastLogged(n, msgStatus[n])'
                    /\ \/ Coming(n, msgStatus[n])'
                       \/ /\ NoneComing(n)'
                          /\ shown'[n] = msgStatus'[n]
                             \/ (sender'.stage # "synced" /\ EventDue(n)')
  BY DEF ShownFollows
<1>6. /\ Pushing(n)' = Pushing(n) /\ Appending(n)' = Appending(n) /\ EventDue(n)' = EventDue(n)
      /\ LastLogged(n, msgStatus[n])' = LastLogged(n, msgStatus[n]) /\ Alone(n)
  BY <1>1, <1>4 DEF Pushing, Appending, EventDue, InProgress, LastLogged, Alone
<1>7. /\ ~Appending(n) => LastLogged(n, msgStatus[n])
      /\ \/ Coming(n, msgStatus[n])
         \/ /\ NoneComing(n)
            /\ shown[n] = msgStatus[n] \/ (sender.stage # "synced" /\ EventDue(n))
  BY <1>4, <1>6 DEF ShownFollows
<1>8. CASE Coming(n, msgStatus[n])
  <2>1. PICK i \in DOMAIN statusPushes :
           /\ statusPushes[i].msg = n /\ statusPushes[i].status = msgStatus[n]
           /\ \A j \in DOMAIN statusPushes : j > i => statusPushes[j].msg \notin {0, n}
    BY <1>8 DEF Coming
  <2>2. CASE i > 1
    <3>1. i - 1 \in DOMAIN q /\ q[i - 1].msg = n /\ q[i - 1].status = msgStatus[n]
      BY <1>5, <2>1, <2>2
    <3>2. ASSUME NEW j \in DOMAIN q, j > i - 1
          PROVE  q[j].msg \notin {0, n}
      <4>1. j + 1 \in DOMAIN statusPushes /\ j + 1 > i /\ q[j] = statusPushes[j + 1]
        BY <1>3, <1>5, <3>2
      <4>2. QED
        BY <2>1, <4>1
    <3>3. Coming(n, msgStatus[n])'
      BY <1>1, <1>2, <1>4, <1>8, <3>1, <3>2 DEF Coming
    <3>4. QED
      BY <1>6, <1>7, <3>3
  <2>3. CASE i = 1
    <3>1. \A j \in DOMAIN statusPushes : statusPushes[j].msg # 0
      <4>1. statusPushes[1].msg # 0
        BY <2>1, <2>3, ReceiptNumbers
      <4>2. QED
        BY <1>5, <2>1, <2>3, <4>1
    <3>2. sender.routed
      BY <1>8, <3>1 DEF RouteQueued, Coming
    <3>3. shown'[n] = msgStatus[n]
      <4>1. Head(statusPushes).msg = n /\ Head(statusPushes).status = msgStatus[n]
        BY <1>3, <2>1, <2>3
      <4>2. Head(statusPushes) # RouteEvent
        BY <1>3, <1>5, <3>1, RouteEventTyped
      <4>3. QED
        BY <3>2, <4>1, <4>2, DeliveredShown
    <3>4. NoneComing(n)'
      <4>1. \A j \in DOMAIN q : q[j].msg # n
        BY <1>5, <2>1, <2>3
      <4>2. QED
        BY <1>2, <4>1 DEF NoneComing
    <3>5. QED
      BY <1>1, <1>6, <1>7, <3>3, <3>4
  <2>4. QED
    BY <1>5, <2>2, <2>3
<1>9. CASE NoneComing(n) /\ (shown[n] = msgStatus[n] \/ (sender.stage # "synced" /\ EventDue(n)))
  <2>1. NoneComing(n)'
    <3>1. ASSUME NEW i \in DOMAIN q, q[i].msg = n, sender.stage # "out"
          PROVE  \E j \in DOMAIN q : j > i /\ q[j].msg = 0
      <4>1. i + 1 \in DOMAIN statusPushes /\ statusPushes[i + 1].msg = n /\ i + 1 > 1
        BY <1>5, <3>1
      <4>2. PICK j \in DOMAIN statusPushes : j > i + 1 /\ statusPushes[j].msg = 0
        BY <1>9, <3>1, <4>1 DEF NoneComing
      <4>3. j - 1 \in DOMAIN q /\ q[j - 1].msg = 0 /\ j - 1 > i
        BY <1>3, <1>5, <4>1, <4>2
      <4>4. QED
        BY <4>3
    <3>2. QED
      BY <1>2, <1>4, <3>1 DEF NoneComing
  <2>2. shown'[n] = shown[n]
    <3>1. Head(statusPushes).msg # n \/ ~sender.routed
      <4>1. SUFFICES ASSUME statusPushes[1].msg = n, sender.routed
                     PROVE  FALSE
        BY <1>3
      <4>2. sender.stage = "out" \/ \E j \in DOMAIN statusPushes : statusPushes[j].msg = 0
        BY <1>5, <1>9, <4>1 DEF NoneComing
      <4>3. QED
        BY <4>1, <4>2 DEF RouteQueued
    <3>2. QED
      BY <3>1, DeliveredShown
  <2>3. QED
    BY <1>1, <1>4, <1>6, <1>7, <1>9, <2>1, <2>2
<1>10. QED
  BY <1>7, <1>8, <1>9

\* The connection is lost: a push that is lost with it is still to be synced.
LEMMA ShownFollowsLeaves ==
    ASSUME SenderTyped, RouteQueued, SenderLeaves, NEW n \in Messages, ShownFollows(n)
    PROVE  ShownFollows(n)'
<1>1. /\ UNCHANGED <<ack, moves, statusPushes, receiptLog, shown, msgStatus>>
      /\ sender.stage = "synced" /\ sender'.stage = "out" /\ sender'.synced = sender.synced
  BY LeavesMoves
<1>2. /\ crossed[n] \subseteq crossed'[n]
      /\ (\E i \in DOMAIN statusPushes : statusPushes[i].msg = n) /\ ~EventDue(n)
            => "push" \in crossed'[n]
  BY DEF SenderLeaves, SenderTyped
<1> SUFFICES ASSUME Alone(n)', crossed'[n] = {}, ~Pushing(n)'
             PROVE  /\ ~Appending(n)' => LastLogged(n, msgStatus[n])'
                    /\ NoneComing(n)'
                    /\ shown'[n] = msgStatus'[n] \/ EventDue(n)'
  BY <1>1 DEF ShownFollows
<1>3. /\ Pushing(n)' = Pushing(n) /\ Appending(n)' = Appending(n) /\ EventDue(n)' = EventDue(n)
      /\ LastLogged(n, msgStatus[n])' = LastLogged(n, msgStatus[n])
  BY <1>1 DEF Pushing, Appending, EventDue, InProgress, LastLogged
<1>4. Alone(n) /\ crossed[n] = {}
  BY <1>1, <1>2 DEF Alone
<1>5. /\ ~Appending(n) => LastLogged(n, msgStatus[n])
      /\ Coming(n, msgStatus[n]) \/ shown[n] = msgStatus[n]
  BY <1>1, <1>3, <1>4 DEF ShownFollows
<1>6. Coming(n, msgStatus[n]) => EventDue(n)
  BY <1>2 DEF Coming
<1>7. NoneComing(n)'
  BY <1>1 DEF NoneComing
<1>8. QED
  BY <1>1, <1>3, <1>5, <1>6, <1>7

\* The new connection's route comes behind the pushes that are queued.
LEMMA ShownFollowsReturns ==
    ASSUME SenderTyped, RouteQueued, SenderReturns, NEW n \in Messages, ShownFollows(n)
    PROVE  ShownFollows(n)'
<1>1. /\ UNCHANGED <<ack, moves, receiptLog, shown, crossed, msgStatus>>
      /\ statusPushes' = Append(statusPushes, RouteEvent)
      /\ sender.stage = "out" /\ sender'.stage = "in" /\ sender'.synced = sender.synced
  BY ReturnsMoves
<1> SUFFICES ASSUME Alone(n)', crossed'[n] = {}, ~Pushing(n)'
             PROVE  /\ ~Appending(n)' => LastLogged(n, msgStatus[n])'
                    /\ NoneComing(n)'
                    /\ shown'[n] = msgStatus'[n] \/ EventDue(n)'
  BY <1>1 DEF ShownFollows
<1>2. /\ Pushing(n)' = Pushing(n) /\ Appending(n)' = Appending(n) /\ EventDue(n)' = EventDue(n)
      /\ LastLogged(n, msgStatus[n])' = LastLogged(n, msgStatus[n]) /\ Alone(n)
  BY <1>1 DEF Pushing, Appending, EventDue, InProgress, LastLogged, Alone
<1>3. /\ ~Appending(n) => LastLogged(n, msgStatus[n])
      /\ shown[n] = msgStatus[n] \/ EventDue(n)
  BY <1>1, <1>2 DEF ShownFollows, Coming
<1>4. NoneComing(n)'
  <2>1. statusPushes \in Seq(StatusEvents)
    BY DEF SenderTyped
  <2>2. PICK e \in StatusEvents : e = RouteEvent /\ e.msg = 0
    BY RouteEventTyped
  <2>3. PICK q : q = statusPushes' /\ q = Append(statusPushes, e)
    BY <1>1, <2>2
  <2>4. /\ Len(statusPushes) \in Nat /\ DOMAIN q = 1 .. Len(statusPushes) + 1
        /\ q[Len(statusPushes) + 1] = e
    BY <2>1, <2>3, Appended
  <2>5. n # 0
    BY ReceiptNumbers
  <2>6. \A i \in DOMAIN q : q[i].msg = n =>
           Len(statusPushes) + 1 \in DOMAIN q /\ Len(statusPushes) + 1 > i
    BY <2>2, <2>4, <2>5
  <2>7. QED
    BY <2>2, <2>3, <2>4, <2>6 DEF NoneComing
<1>5. QED
  BY <1>1, <1>2, <1>3, <1>4

\* The synchronisation brings the last event, unless it is about to be logged.
LEMMA ShownFollowsSyncs ==
    ASSUME SenderTyped, RouteQueued, SenderSyncs, NEW n \in Messages, ShownFollows(n)
    PROVE  ShownFollows(n)'
<1>1. /\ UNCHANGED <<ack, moves, statusPushes, receiptLog, msgStatus>>
      /\ sender.stage = "in" /\ sender'.stage = "synced"
  BY SyncsMoves
<1>2. /\ crossed[n] \subseteq crossed'[n]
      /\ Appending(n) => "sync" \in crossed'[n]
  BY DEF SenderSyncs, SenderTyped, Appending
<1> SUFFICES ASSUME Alone(n)', crossed'[n] = {}, ~Pushing(n)'
             PROVE  /\ LastLogged(n, msgStatus[n])'
                    /\ Coming(n, msgStatus[n])' \/ (NoneComing(n)' /\ shown'[n] = msgStatus'[n])
  BY <1>1 DEF ShownFollows
<1>3. /\ Pushing(n)' = Pushing(n) /\ NoneComing(n)' = NoneComing(n)
      /\ Coming(n, msgStatus[n])' = Coming(n, msgStatus[n])
      /\ LastLogged(n, msgStatus[n])' = LastLogged(n, msgStatus[n])
  BY <1>1 DEF Pushing, InProgress, LastLogged, NoneComing, Coming
<1>4. Alone(n) /\ crossed[n] = {} /\ ~Appending(n)
  BY <1>1, <1>2 DEF Alone
<1>5. /\ LastLogged(n, msgStatus[n])
      /\ \/ Coming(n, msgStatus[n])
         \/ /\ NoneComing(n)
            /\ shown[n] = msgStatus[n] \/ EventDue(n)
  BY <1>3, <1>4 DEF ShownFollows
<1>6. ASSUME shown[n] = msgStatus[n] \/ EventDue(n)
      PROVE  shown'[n] = msgStatus[n]
  <2>1. /\ receiptLog \in Seq(StatusEvents) /\ sender.synced \in Nat
        /\ sender.synced <= Len(receiptLog) /\ Len(receiptLog) \in Nat
        /\ DOMAIN receiptLog = 1 .. Len(receiptLog) /\ shown \in [Messages -> Statuses]
    BY DEF SenderTyped
  <2>2. PICK events : events = SubSeq(receiptLog, sender.synced + 1, Len(receiptLog))
    OBVIOUS
  <2>3. Show(events)
    BY <2>2, Zenon DEF SenderSyncs
  <2>4. /\ events \in Seq(StatusEvents)
        /\ DOMAIN events = 1 .. Len(receiptLog) - sender.synced
        /\ \A i \in DOMAIN events : events[i] = receiptLog[sender.synced + i]
    <3>1. sender.synced + 1 \in 1 .. Len(receiptLog) + 1
      BY <2>1
    <3>2. Len(events) = Len(receiptLog) - sender.synced
      BY <2>1, <2>2, <3>1
    <3>3. events \in Seq(StatusEvents)
      BY <2>1, <2>2, <3>1
    <3>4. DOMAIN events = 1 .. Len(receiptLog) - sender.synced
      BY <3>2, <3>3
    <3>5. \A i \in DOMAIN events : events[i] = receiptLog[sender.synced + i]
      BY <2>1, <2>2
    <3>6. QED
      BY <3>3, <3>4, <3>5
  <2>5. CASE \E i \in sender.synced + 1 .. Len(receiptLog) : receiptLog[i].msg = n
    <3>1. PICK i \in sender.synced + 1 .. Len(receiptLog) : receiptLog[i].msg = n
      BY <2>5
    <3>2. i \in DOMAIN receiptLog
      BY <2>1
    <3>3. PICK k \in DOMAIN receiptLog :
             /\ receiptLog[k].msg = n /\ receiptLog[k].status = msgStatus[n]
             /\ \A j \in DOMAIN receiptLog : j > k => receiptLog[j].msg # n
      BY <1>5, <3>1, <3>2 DEF LastLogged
    <3>4. ~(i > k)
      BY <3>1, <3>2, <3>3
    <3>5. PICK p : p = k - sender.synced
      OBVIOUS
    <3>6. p \in DOMAIN events /\ events[p] = receiptLog[k]
      <4>1. k \in Nat /\ i \in Nat /\ k <= Len(receiptLog) /\ i >= sender.synced + 1 /\ i <= k
        BY <2>1, <3>1, <3>2, <3>4
      <4>2. p \in 1 .. Len(receiptLog) - sender.synced /\ sender.synced + p = k
        BY <2>1, <3>5, <4>1
      <4>3. p \in DOMAIN events
        BY <2>4, <4>2
      <4>4. QED
        BY <2>4, <4>2, <4>3
    <3>7. ASSUME NEW j \in DOMAIN events, j > p
          PROVE  events[j].msg # n
      <4>1. sender.synced + j \in DOMAIN receiptLog /\ sender.synced + j > k
        BY <2>1, <2>4, <3>5, <3>7
      <4>2. QED
        BY <2>4, <3>3, <4>1
    <3>8. \A l \in Messages, j \in DOMAIN events :
             events[j].msg = l /\ (\A f \in DOMAIN events : f > j => events[f].msg # l) =>
                shown'[l] = events[j].status
      BY <2>1, <2>3, <2>4, ShowMeans
    <3>9. events[p].msg = n /\ events[p].status = msgStatus[n]
      BY <3>3, <3>6
    <3>10. QED
      BY <3>6, <3>7, <3>8, <3>9
  <2>6. CASE ~ \E i \in sender.synced + 1 .. Len(receiptLog) : receiptLog[i].msg = n
    <3>1. shown[n] = msgStatus[n]
      BY <1>4, <1>6, <2>6 DEF EventDue, Appending
    <3>2. \A i \in DOMAIN events : sender.synced + i \in sender.synced + 1 .. Len(receiptLog)
      BY <2>1, <2>4
    <3>3. \A i \in DOMAIN events : events[i].msg # n
      BY <2>4, <2>6, <3>2
    <3>4. QED
      BY <2>1, <2>3, <2>4, <3>1, <3>3, ShowMeans
  <2>7. QED
    BY <2>5, <2>6
<1>7. QED
  BY <1>1, <1>3, <1>5, <1>6

-----------------------------------------------------------------------------
\* Neither a handler, the queue, the log nor the connection.
LEMMA SettleKept ==
    ASSUME SettleInv, StatusInv',
           UNCHANGED <<recipients, receipt, msgStatus, ack, acks, moves, statusPushes,
                       receiptLog, sender, shown, crossed>>
    PROVE  SettleInv'
<1>1. SenderTyped' /\ IdleIsNoAck' /\ RouteQueued'
  BY DEF SettleInv, SenderTyped, IdleIsNoAck, RouteQueued, Working
<1>2. ASSUME NEW m \in Messages
      PROVE  StatusFollows(m)' /\ ShownFollows(m)'
  <2>1. StatusFollows(m) /\ ShownFollows(m)
    BY DEF SettleInv
  <2>2. InProgress(m)' = InProgress(m)
    BY DEF InProgress
  <2>3. StatusFollows(m)'
    BY <2>1, <2>2, StatusFollowsOthers
  <2>4. ShownFollows(m)'
    BY <2>1 DEF ShownFollows, Alone, Pushing, Appending, InProgress, LastLogged, Coming,
       NoneComing, EventDue
  <2>5. QED
    BY <2>3, <2>4
<1>3. QED
  BY <1>1, <1>2 DEF SettleInv

LEMMA SettleHandler ==
    ASSUME SettleInv, StatusInv', NEW h \in AckHandlers, AckHandlerStep(h)
    PROVE  SettleInv'
<1>1. /\ StatusInv /\ SenderTyped /\ IdleIsNoAck /\ RouteQueued
      /\ \A m \in Messages : StatusFollows(m) /\ ShownFollows(m)
  BY DEF SettleInv
<1>2. PICK m \in Messages : OneHandler(h, m)
  BY <1>1, OneHandlerSteps
<1>3. SenderTyped'
  BY <1>1, SenderTypedHandler
<1>4. IdleIsNoAck'
  BY <1>1, <1>2 DEF IdleIsNoAck, OneHandler
<1>5. sender' = sender /\ UNCHANGED <<moves, crossed, recipients>> /\ ack[h].msg = m
  BY <1>2 DEF OneHandler, senderVars
<1>6. RouteQueued'
  <2>1. CASE statusPushes' = statusPushes
    BY <1>1, <1>5, <2>1 DEF RouteQueued
  <2>2. CASE statusPushes' = Append(statusPushes, AckEvent(h))
    <3>1. PICK e \in StatusEvents : e = AckEvent(h) /\ e.msg = m
      BY <1>1, <1>5, AckEventTyped
    <3>2. m # 0
      BY ReceiptNumbers
    <3>3. QED
      BY <1>1, <1>5, <2>2, <3>1, <3>2, RouteQueuedPush
  <2>3. QED
    BY <2>1, <2>2 DEF AckHandlerStep, AckRecord, AckCursor, AckExpected, AckReads,
       AckAggregate, AckUpdate, AckPush, AckAppend
<1>7. StatusFollows(m)' /\ ShownFollows(m)'
  BY <1>1, <1>2, StatusFollowsStep, ShownFollowsStep
<1>8. ASSUME NEW n \in Messages \ {m}
      PROVE  StatusFollows(n)' /\ ShownFollows(n)'
  <2>1. /\ InProgress(n)' = InProgress(n) /\ receipt'[n] = receipt[n]
        /\ msgStatus'[n] = msgStatus[n]
    BY <1>2, OneHandlerProgress DEF OneHandler
  <2>2. \A g \in InProgress(n) : ack'[g] = ack[g]
    BY <1>2 DEF OneHandler, InProgress
  <2>3. StatusFollows(n)'
    BY <1>1, <1>5, <2>1, <2>2, StatusFollowsOthers
  <2>4. ShownFollows(n)'
    BY <1>1, <1>2, ShownFollowsOthers
  <2>5. QED
    BY <2>3, <2>4
<1>9. QED
  BY <1>3, <1>4, <1>6, <1>7, <1>8 DEF SettleInv

LEMMA SettleStart ==
    ASSUME SettleInv, StatusInv', NEW h \in AckHandlers, NEW m \in Messages, NEW kind,
           AckStart(h, m, kind)
    PROVE  SettleInv'
<1>1. /\ StatusInv /\ SenderTyped /\ IdleIsNoAck /\ RouteQueued
      /\ \A n \in Messages : StatusFollows(n) /\ ShownFollows(n)
  BY DEF SettleInv
<1>2. SenderTyped'
  BY <1>1, SenderTypedStart
<1>3. RouteQueued'
  BY <1>1 DEF RouteQueued, AckStart, senderVars
<1>4. IdleIsNoAck'
  <2>1. PICK a : a = [NoAck EXCEPT !.step = "record", !.msg = m, !.kind = kind,
                                   !.was = msgStatus[m]]
    OBVIOUS
  <2>2. ack' = [ack EXCEPT ![h] = a]
    BY <2>1, Zenon DEF AckStart
  <2>3. a.step = "record"
    BY <2>1 DEF NoAck
  <2>4. ack'[h] = a /\ \A g \in AckHandlers \ {h} : ack'[g] = ack[g]
    BY <1>1, <2>2 DEF StatusInv, RowsTyped
  <2>5. QED
    BY <1>1, <2>3, <2>4 DEF IdleIsNoAck
<1>5. ASSUME NEW n \in Messages
      PROVE  StatusFollows(n)' /\ ShownFollows(n)'
  BY <1>1, StatusFollowsStart, ShownFollowsStart
<1>6. QED
  BY <1>2, <1>3, <1>4, <1>5 DEF SettleInv

LEMMA SettleMove ==
    ASSUME SettleInv, StatusInv', NEW u \in Recipients, MemberMoves(u)
    PROVE  SettleInv'
<1>1. /\ StatusInv /\ SenderTyped /\ IdleIsNoAck /\ RouteQueued
  BY DEF SettleInv
<1>2. /\ UNCHANGED <<ack, statusPushes, sender>> /\ moves' = Append(moves, u)
  BY DEF MemberMoves, senderVars
<1>3. moves' # <<>>
  <2>1. moves \in Seq(Recipients)
    BY <1>1 DEF StatusInv, RowsTyped
  <2>2. QED
    BY <1>2, <2>1
<1>4. SenderTyped' /\ IdleIsNoAck' /\ RouteQueued'
  BY <1>1, <1>2, SenderTypedMoves DEF IdleIsNoAck, RouteQueued
<1>5. ASSUME NEW n \in Messages
      PROVE  StatusFollows(n)' /\ ShownFollows(n)'
  BY <1>3 DEF StatusFollows, ShownFollows, Alone
<1>6. QED
  BY <1>4, <1>5 DEF SettleInv

\* The sender's steps change no row and no handler.
LEMMA SettleSender ==
    ASSUME SettleInv, StatusInv',
           StatusDelivered \/ SenderLeaves \/ SenderReturns \/ SenderSyncs
    PROVE  SettleInv'
<1>1. /\ StatusInv /\ SenderTyped /\ IdleIsNoAck /\ RouteQueued
      /\ \A n \in Messages : StatusFollows(n) /\ ShownFollows(n)
  BY DEF SettleInv
<1>2. UNCHANGED <<recipients, receipt, msgStatus, ack, moves>>
  BY DEF StatusDelivered, SenderLeaves, SenderReturns, SenderSyncs
<1>3. SenderTyped'
  BY <1>1, SenderTypedDelivered, SenderTypedLeaves, SenderTypedReturns, SenderTypedSyncs
<1>4. RouteQueued'
  BY <1>1, RouteQueuedDelivered, RouteQueuedLeaves, RouteQueuedReturns, RouteQueuedSyncs
<1>5. IdleIsNoAck'
  BY <1>1, <1>2 DEF IdleIsNoAck
<1>6. ASSUME NEW n \in Messages
      PROVE  StatusFollows(n)' /\ ShownFollows(n)'
  <2>1. crossed[n] \subseteq crossed'[n]
    <3>1. CASE crossed' = crossed
      BY <3>1
    <3>2. CASE SenderLeaves
      BY <1>1, <3>2 DEF SenderLeaves, SenderTyped
    <3>3. CASE SenderSyncs
      BY <1>1, <3>3 DEF SenderSyncs, SenderTyped
    <3>4. QED
      BY <3>1, <3>2, <3>3 DEF StatusDelivered, SenderReturns
  <2>2. InProgress(n)' = InProgress(n)
    BY <1>2 DEF InProgress
  <2>3. StatusFollows(n)'
    BY <1>1, <1>2, <2>1, <2>2, StatusFollowsOthers
  <2>4. ShownFollows(n)'
    BY <1>1, ShownFollowsDelivered, ShownFollowsLeaves, ShownFollowsReturns,
       ShownFollowsSyncs
  <2>5. QED
    BY <2>3, <2>4
<1>7. QED
  BY <1>3, <1>4, <1>5, <1>6 DEF SettleInv

LEMMA InitSettleInv == ReceiptInit => SettleInv
<1> SUFFICES ASSUME ReceiptInit
             PROVE  SettleInv
  OBVIOUS
<1>1. StatusInv
  BY InitStatusInv
<1>2. \A h \in AckHandlers : ack[h] = NoAck
  BY DEF ReceiptInit
<1>3. NoAck.step = "idle" /\ NoAck.msg = 0 /\ \A m \in Messages : m # 0
  BY ReceiptNumbers DEF NoAck
<1>4. Working = {} /\ \A m \in Messages : InProgress(m) = {}
  BY <1>2, <1>3 DEF Working, InProgress
<1>5. statusPushes = <<>> /\ receiptLog = <<>> /\ moves = <<>> /\ acks = 0
  BY DEF ReceiptInit
<1>6. /\ statusPushes \in Seq(StatusEvents) /\ receiptLog \in Seq(StatusEvents)
      /\ Len(receiptLog) = 0 /\ Len(moves) = 0
      /\ DOMAIN statusPushes = {} /\ DOMAIN receiptLog = {}
  BY <1>5
<1>7. SenderTyped
  <2>1. Cardinality(Working) = 0
    BY <1>4, FS_EmptySet
  <2>2. /\ acks \in 0 .. MaxAcks /\ Len(moves) <= MaxMoves
        /\ Len(receiptLog) + Cardinality(Working) <= acks
    BY <1>5, <1>6, <2>1, ReceiptConstants
  <2>3. /\ sender \in [stage : {"out", "in", "synced"}, routed : BOOLEAN,
                       breaks : 0 .. MaxBreaks, synced : Nat]
        /\ sender.stage = "synced" /\ sender.synced = 0
    <3>1. sender = [stage |-> "synced", routed |-> TRUE, breaks |-> 0, synced |-> 0]
      BY DEF ReceiptInit
    <3>2. 0 \in 0 .. MaxBreaks
      BY ReceiptConstants
    <3>3. QED
      BY <3>1, <3>2
  <2>4. /\ shown \in [Messages -> Statuses]
        /\ crossed \in [Messages -> SUBSET {"acks", "sync", "push"}]
    BY DEF ReceiptInit, Statuses
  <2>5. QED
    BY <1>6, <2>2, <2>3, <2>4 DEF SenderTyped
<1>8. IdleIsNoAck
  BY <1>2 DEF IdleIsNoAck
<1>9. RouteQueued
  BY <1>6 DEF RouteQueued, ReceiptInit
<1>10. ASSUME NEW m \in Messages
       PROVE  StatusFollows(m) /\ ShownFollows(m)
  <2>1. msgStatus[m] = "sent" /\ shown[m] = "sent"
    BY DEF ReceiptInit
  <2>2. LastLogged(m, msgStatus[m]) /\ NoneComing(m)
    BY <1>6, <2>1 DEF LastLogged, NoneComing
  <2>3. ShownFollows(m)
    BY <2>1, <2>2 DEF ShownFollows
  <2>4. FollowingStatus(m) = "sent"
    <3>1. ReadersOf(m) = {} /\ ReceiversOf(m) = {}
      BY DEF ReceiptInit, ReadersOf, ReceiversOf, AckHandlers
    <3>2. ReadCount(m) = 0 /\ DeliveredCount(m) = 0
      BY <3>1, FS_EmptySet DEF ReadCount, DeliveredCount
    <3>3. Cardinality(recipients) \in Nat
      BY <1>1, StayedCounted, ReceiptNumbers DEF StatusInv, RowsTyped
    <3>4. QED
      BY <3>2, <3>3 DEF FollowingStatus, Aggregate
  <2>5. StatusFollows(m)
    BY <1>4, <2>1, <2>4 DEF StatusFollows
  <2>6. QED
    BY <2>3, <2>5
<1>11. QED
  BY <1>1, <1>7, <1>8, <1>9, <1>10 DEF SettleInv

LEMMA SettleStep == SettleInv /\ [ReceiptNext]_receiptVars => SettleInv'
<1> SUFFICES ASSUME SettleInv, [ReceiptNext]_receiptVars
             PROVE  SettleInv'
  OBVIOUS
<1>1. StatusInv'
  BY ReceiptsStep DEF SettleInv
<1>2. ASSUME NEW h \in AckHandlers, NEW m \in Messages, NEW kind \in {"delivered", "read"},
             AckStart(h, m, kind)
      PROVE  SettleInv'
  BY <1>1, <1>2, SettleStart
<1>3. ASSUME NEW h \in AckHandlers, AckHandlerStep(h)
      PROVE  SettleInv'
  BY <1>1, <1>3, SettleHandler
<1>4. ASSUME NEW u \in Recipients, MemberMoves(u)
      PROVE  SettleInv'
  BY <1>1, <1>4, SettleMove
<1>5. ASSUME NEW u \in Recipients, NEW m \in Messages, SyncMessages(u, m)
      PROVE  SettleInv'
  BY <1>1, <1>5, SettleKept DEF SyncMessages, senderVars
<1>6. CASE StatusDelivered \/ SenderLeaves \/ SenderReturns \/ SenderSyncs
  BY <1>1, <1>6, SettleSender
<1>7. CASE UNCHANGED receiptVars
  BY <1>1, <1>7, SettleKept DEF receiptVars, senderVars
<1>8. QED
  BY <1>2, <1>3, <1>4, <1>5, <1>6, <1>7 DEF ReceiptNext

LEMMA SettleInvHolds == ReceiptSpec => []SettleInv
<1>1. ReceiptInit => SettleInv
  BY InitSettleInv
<1>2. SettleInv /\ [ReceiptNext]_receiptVars => SettleInv'
  BY SettleStep
<1>3. QED
  BY <1>1, <1>2, PTL DEF ReceiptSpec

-----------------------------------------------------------------------------
(***************************************************************************)
(* The theorems.                                                           *)
(***************************************************************************)
LEMMA StatusInvHolds == ReceiptSpec => []StatusInv
BY InitStatusInv, ReceiptsStep, PTL DEF ReceiptSpec

\* However many acknowledgements overlap, the status of a message is never
\* ahead of its receipts, those of users who moved aside: the code counts before
\* it writes, and receipts are never taken back.
THEOREM StatusIsEarned == ReceiptSpec => []StatusEarned
<1>1. StatusInv => StatusEarned
  BY DEF StatusInv
<1>2. QED
  BY <1>1, StatusInvHolds, PTL

\* What a member has read is never unread again, but by leaving:
\* updateMemberReadCursor() and sync_messages only move the position forward.
THEOREM ReadStaysRead == ReceiptSpec => []ReadIsNotUnread
<1>1. StatusInv => ReadIsNotUnread
  BY DEF StatusInv
<1>2. QED
  BY <1>1, StatusInvHolds, PTL

\* Once nobody acknowledges a message, its row in messages has the status that
\* follows from its receipts, and a sender who is connected and has nothing
\* queued shows it: whatever the order of the handlers' statements, of the
\* packets and of the synchronisations, outside the overlaps that StatusSettles
\* names.
THEOREM StatusComesToRest == ReceiptSpec => []StatusSettles
<1>1. SettleInv => StatusSettles
  <2> SUFFICES ASSUME SettleInv, NEW m \in Messages,
                      AckQuiet(m), moves = <<>>, "acks" \notin crossed[m]
               PROVE  /\ msgStatus[m] = FollowingStatus(m)
                      /\ SenderCaughtUp /\ crossed[m] = {} => shown[m] = msgStatus[m]
    BY DEF StatusSettles
  <2>1. Alone(m) /\ InProgress(m) = {}
    BY DEF Alone, AckQuiet
  <2>2. StatusFollows(m) /\ ShownFollows(m)
    BY DEF SettleInv
  <2>3. msgStatus[m] = FollowingStatus(m)
    BY <2>1, <2>2 DEF StatusFollows
  <2>4. ASSUME SenderCaughtUp, crossed[m] = {}
        PROVE  shown[m] = msgStatus[m]
    <3>1. ~Pushing(m)
      BY <2>1 DEF Pushing
    <3>2. DOMAIN statusPushes = {}
      BY <2>4 DEF SenderCaughtUp
    <3>3. ~Coming(m, msgStatus[m])
      BY <3>2 DEF Coming
    <3>4. QED
      BY <2>1, <2>2, <2>4, <3>1, <3>3 DEF ShownFollows, SenderCaughtUp
  <2>5. QED
    BY <2>3, <2>4
<1>2. QED
  BY <1>1, SettleInvHolds, PTL

\* Every row, packet, event and variable of the handlers has its type, and so
\* has the sender's side: its position is within the stream, which holds no
\* more events than there were acknowledgements.
THEOREM ReceiptTypes == ReceiptSpec => []ReceiptTypeOK
<1>1. SettleInv => ReceiptTypeOK
  <2> SUFFICES ASSUME SettleInv
               PROVE  ReceiptTypeOK
    OBVIOUS
  <2>1. RowsTyped /\ SenderTyped
    BY DEF SettleInv, StatusInv
  <2>2. sender \in [stage : {"out", "in", "synced"}, routed : BOOLEAN,
                    breaks : 0 .. MaxBreaks, synced : 0 .. MaxAcks]
    <3>1. sender \in [stage : {"out", "in", "synced"}, routed : BOOLEAN,
                      breaks : 0 .. MaxBreaks, synced : Nat]
      BY <2>1 DEF SenderTyped
    <3>2. Cardinality(Working) \in Nat
      BY WorkingFinite
    <3>3. sender.synced \in 0 .. MaxAcks
      BY <2>1, <3>1, <3>2, ReceiptConstants DEF SenderTyped
    <3>4. QED
      BY <3>1, <3>3
  <2>3. /\ statusPushes \in Seq([msg : 0 .. MaxMessage, status : Statuses])
        /\ receiptLog \in Seq([msg : 0 .. MaxMessage, status : Statuses])
    BY <2>1 DEF SenderTyped, StatusEvents
  <2>4. QED
    BY <2>1, <2>2, <2>3 DEF ReceiptTypeOK, SenderTyped, RowsTyped, ReceiptKinds, Counts,
        AckRecords
<1>2. QED
  BY <1>1, SettleInvHolds, PTL
=============================================================================
