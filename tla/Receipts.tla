------------------------------- MODULE Receipts -------------------------------
(***************************************************************************)
(* Receipts, the status of a message and the read position.                *)
(*                                                                         *)
(* ack_message runs on the handler thread of a recipient's device as a     *)
(* sequence of SQL statements that commit one by one: the receipt is       *)
(* written, the members and the receipts are counted, and the status that  *)
(* follows is written, pushed to the sender and appended to the sender's   *)
(* sync_events.  The statements of several acknowledgements interleave,    *)
(* members come and go, and the sender's client applies pushes and synced  *)
(* events in the order in which they reach it.                             *)
(*                                                                         *)
(* One conversation, all messages of one sender who acknowledges none of   *)
(* them (the client acknowledges incoming messages only).  Names differ    *)
(* from those of the other server modules, with which one run explores it. *)
(***************************************************************************)
EXTENDS Integers, FiniteSets, Sequences

CONSTANTS
    Recipients,   \* users who may be members, the sender not among them
    AckDevices,   \* devices of each of them; each has a handler thread
    MaxMessage,   \* bound: messages in the conversation
    MaxAcks,      \* bound: acknowledgements handled
    MaxMoves,     \* bound: members who leave or join
    MaxBreaks     \* bound: broken connections of the sender and moves, together

ASSUME ReceiptConstants ==
    /\ IsFiniteSet(Recipients) /\ IsFiniteSet(AckDevices)
    /\ {MaxMessage, MaxAcks, MaxMoves, MaxBreaks} \subseteq Nat

VARIABLES
    recipients,   \* conversation_members besides the sender
    receipt,      \* message_receipts: one row for each message and device
    msgStatus,    \* messages.status
    readUpTo,     \* conversation_members.last_read_message_id
    ack,          \* acknowledgement in progress on each handler thread
    acks,         \* number of acknowledgements so far
    moves,        \* members who have left or joined since the messages
    statusPushes, \* MessageStatusUpdate packets in the server's event queue
    receiptLog,   \* the sender's receipt rows of sync_events
    sender,       \* the sender's connection and its position in receiptLog
    shown,        \* the sender's client: status of its messages
    crossed       \* history: what overlapped, for each message

senderVars == <<sender, shown>>
receiptVars == <<recipients, receipt, msgStatus, readUpTo, ack, acks, moves,
                 statusPushes, receiptLog, senderVars, crossed>>

Messages == 1 .. MaxMessage
AckHandlers == Recipients \X AckDevices
Statuses == {"", "sent", "delivered", "read"}

NoAck == [step |-> "idle", msg |-> 0, kind |-> "", was |-> "", expected |-> 0,
          reads |-> 0, status |-> ""]
AckSteps == {"idle", "record", "cursor", "expected", "reads", "delivered",
             "update", "push", "append"}

ReceiptTypeOK ==
    /\ recipients \subseteq Recipients
    /\ receipt \in [Messages -> [AckHandlers -> {"", "delivered", "read"}]]
    /\ msgStatus \in [Messages -> Statuses \ {""}]
    /\ readUpTo \in [Recipients -> 0 .. MaxMessage]
    /\ ack \in [AckHandlers ->
                  [step : AckSteps, msg : 0 .. MaxMessage,
                   kind : {"", "delivered", "read"}, was : Statuses,
                   expected : 0 .. Cardinality(Recipients),
                   reads : 0 .. Cardinality(Recipients), status : Statuses]]
    /\ acks \in 0 .. MaxAcks
    /\ moves \in Seq(Recipients) /\ Len(moves) <= MaxMoves
    /\ \A q \in {statusPushes, receiptLog} :
          q \in Seq([msg : 0 .. MaxMessage, status : Statuses])
    /\ sender \in [stage : {"out", "in", "synced"}, routed : BOOLEAN,
                   breaks : 0 .. MaxBreaks, synced : 0 .. MaxAcks]
    /\ shown \in [Messages -> Statuses]
    /\ crossed \in [Messages -> SUBSET {"acks", "sync", "push"}]

\* The messages are stored and fanned out, and on the sender's device.
ReceiptInit ==
    /\ recipients = Recipients
    /\ receipt = [m \in Messages |-> [h \in AckHandlers |-> ""]]
    /\ msgStatus = [m \in Messages |-> "sent"]
    /\ readUpTo = [u \in Recipients |-> 0]
    /\ ack = [h \in AckHandlers |-> NoAck] /\ acks = 0
    /\ moves = <<>>
    /\ statusPushes = <<>> /\ receiptLog = <<>>
    /\ sender = [stage |-> "synced", routed |-> TRUE, breaks |-> 0, synced |-> 0]
    /\ shown = [m \in Messages |-> "sent"]
    /\ crossed = [m \in Messages |-> {}]

-----------------------------------------------------------------------------
(***************************************************************************)
(* The receipts.                                                           *)
(***************************************************************************)

\* Who has a receipt for m that counts as "read", or as "delivered".
ReadersOf(m) == {u \in Recipients :
                    \E d \in AckDevices : receipt[m][<<u, d>>] = "read"}
ReceiversOf(m) == {u \in Recipients :
                      \E d \in AckDevices : receipt[m][<<u, d>>] # ""}

\* Faulty variant: every device of a user counts.
DeviceReadCount(m) == Cardinality({h \in AckHandlers : receipt[m][h] = "read"})

\* receiptUserCount(): users, not devices; users who have left are counted too.
ReadCount(m) == Cardinality(ReadersOf(m))
DeliveredCount(m) == Cardinality(ReceiversOf(m))

\* The status that follows from the three counts.
Aggregate(expected, reads, delivered) ==
    IF expected > 0 /\ reads >= expected THEN "read"
    ELSE IF expected > 0 /\ delivered >= expected THEN "delivered"
    ELSE ""

-----------------------------------------------------------------------------
(***************************************************************************)
(* ack_message.                                                            *)
(***************************************************************************)
AckAt(h, step) ==
    /\ ack[h].step = step
    /\ UNCHANGED <<recipients, acks, moves>>

AckGoTo(h, step) == ack' = [ack EXCEPT ![h].step = step]

InProgress(m) == {h \in AckHandlers : ack[h].msg = m}

\* getMessage(): the row as it is now, and isConversationMember().
AckStart(h, m, kind) ==
    /\ ack[h] = NoAck
    /\ acks < MaxAcks /\ acks' = acks + 1
    /\ h[1] \in recipients
    /\ ack' = [ack EXCEPT ![h] = [NoAck EXCEPT !.step = "record", !.msg = m,
                                     !.kind = kind, !.was = msgStatus[m]]]
    /\ crossed' = IF InProgress(m) = {} THEN crossed
                  ELSE [crossed EXCEPT ![m] = @ \cup {"acks"}]
    /\ UNCHANGED <<recipients, receipt, msgStatus, readUpTo, moves,
                   statusPushes, receiptLog, senderVars>>

\* recordMessageReceipt(): what was read stays read.
AckRecord(h) ==
    /\ AckAt(h, "record")
    /\ receipt' = [receipt EXCEPT ![ack[h].msg][h] =
                      IF @ = "read" THEN @ ELSE ack[h].kind]
    /\ AckGoTo(h, IF ack[h].kind = "read" THEN "cursor" ELSE "expected")
    /\ UNCHANGED <<msgStatus, readUpTo, statusPushes, receiptLog, senderVars, crossed>>

\* Faulty variant: the read position follows every acknowledgement.
AckCursorAnyway(h) ==
    /\ AckAt(h, "cursor")
    /\ readUpTo' = [readUpTo EXCEPT ![h[1]] = IF h[1] \in recipients THEN ack[h].msg ELSE @]
    /\ AckGoTo(h, "expected")
    /\ UNCHANGED <<receipt, msgStatus, statusPushes, receiptLog, senderVars, crossed>>

\* updateMemberReadCursor() moves forward only and finds no row of a member who
\* has left; the reader's own devices are told of the acknowledged message.
AckCursor(h) ==
    /\ AckAt(h, "cursor")
    /\ readUpTo' = [readUpTo EXCEPT ![h[1]] =
                       IF h[1] \in recipients /\ @ < ack[h].msg THEN ack[h].msg ELSE @]
    /\ AckGoTo(h, "expected")
    /\ UNCHANGED <<receipt, msgStatus, statusPushes, receiptLog, senderVars, crossed>>

\* memberCountExcluding() the sender ...
AckExpected(h) ==
    /\ AckAt(h, "expected")
    /\ ack' = [ack EXCEPT ![h].step = "reads", ![h].expected = Cardinality(recipients)]
    /\ UNCHANGED <<receipt, msgStatus, readUpTo, statusPushes, receiptLog,
                   senderVars, crossed>>

\* ... and the two counts of the receipts.
AckReads(h) ==
    /\ AckAt(h, "reads")
    /\ ack' = [ack EXCEPT ![h].step = "delivered", ![h].reads = ReadCount(ack[h].msg)]
    /\ UNCHANGED <<receipt, msgStatus, readUpTo, statusPushes, receiptLog,
                   senderVars, crossed>>

\* The status is compared with the one the handler saw at the start.
AckAggregate(h) ==
    LET status == Aggregate(ack[h].expected, ack[h].reads, DeliveredCount(ack[h].msg))
    IN
    /\ AckAt(h, "delivered")
    /\ ack' = [ack EXCEPT ![h] =
                  IF status \in {"", ack[h].was} THEN NoAck
                  ELSE [ack[h] EXCEPT !.step = "update", !.status = status]]
    /\ UNCHANGED <<receipt, msgStatus, readUpTo, statusPushes, receiptLog,
                   senderVars, crossed>>

\* updateMessageStatus() writes whatever the row holds by now.
AckUpdate(h) ==
    /\ AckAt(h, "update")
    /\ msgStatus' = [msgStatus EXCEPT ![ack[h].msg] = ack[h].status]
    /\ AckGoTo(h, "push")
    /\ UNCHANGED <<receipt, readUpTo, statusPushes, receiptLog, senderVars, crossed>>

AckEvent(h) == [msg |-> ack[h].msg, status |-> ack[h].status]

\* MessageStatusUpdate to the sender, by way of the main thread ...
AckPush(h) ==
    /\ AckAt(h, "push")
    /\ statusPushes' = Append(statusPushes, AckEvent(h))
    /\ AckGoTo(h, "append")
    /\ UNCHANGED <<receipt, msgStatus, readUpTo, receiptLog, senderVars, crossed>>

\* Faulty variant: the event carries what the device acknowledged.
AckAppendKind(h) ==
    /\ AckAt(h, "append")
    /\ receiptLog' = Append(receiptLog, [msg |-> ack[h].msg, status |-> ack[h].kind])
    /\ ack' = [ack EXCEPT ![h] = NoAck]
    /\ UNCHANGED <<receipt, msgStatus, readUpTo, statusPushes, senderVars, crossed>>

\* ... and then the receipt event, the same status.
AckAppend(h) ==
    /\ AckAt(h, "append")
    /\ receiptLog' = Append(receiptLog, AckEvent(h))
    /\ ack' = [ack EXCEPT ![h] = NoAck]
    /\ UNCHANGED <<receipt, msgStatus, readUpTo, statusPushes, senderVars, crossed>>

\* sync_messages moves the read position without any receipt.
SyncMessages(u, m) ==
    /\ u \in recipients /\ readUpTo[u] < m
    /\ readUpTo' = [readUpTo EXCEPT ![u] = m]
    /\ UNCHANGED <<recipients, receipt, msgStatus, ack, acks, moves,
                   statusPushes, receiptLog, senderVars, crossed>>

\* A member leaves or is removed; one joins, with a row that has read nothing.
MemberMoves(u) ==
    /\ Len(moves) < MaxMoves /\ sender.breaks + Len(moves) < MaxBreaks
    /\ moves' = Append(moves, u)
    /\ recipients' = IF u \in recipients THEN recipients \ {u}
                     ELSE recipients \cup {u}
    /\ readUpTo' = [readUpTo EXCEPT ![u] = 0]
    /\ UNCHANGED <<receipt, msgStatus, ack, acks, statusPushes, receiptLog,
                   senderVars, crossed>>

-----------------------------------------------------------------------------
(***************************************************************************)
(* The sender's client.                                                    *)
(***************************************************************************)

\* userLoggedIn in the event queue: the sender's new connection gets its route.
RouteEvent == [msg |-> 0, status |-> ""]

\* statusRank(), which only upsertMessage() compares.
statusRank(status) ==
    CASE status = "sent" -> 1 [] status = "delivered" -> 2 [] status = "read" -> 3
      [] OTHER -> 0

\* handleMessageStatusUpdate() and the receipt events of ingestSyncEvents()
\* write the local row, whatever it holds: the last one stays.
Show(events) ==
    shown' = [m \in Messages |->
                 LET own == {i \in DOMAIN events : events[i].msg = m}
                 IN IF own = {} THEN shown[m]
                    ELSE events[CHOOSE i \in own : \A j \in own : j <= i].status]

\* The main thread takes an event; a push without a route is lost.
StatusDelivered ==
    /\ statusPushes # <<>>
    /\ statusPushes' = Tail(statusPushes)
    /\ IF Head(statusPushes) = RouteEvent
       THEN sender' = [sender EXCEPT !.routed = TRUE] /\ UNCHANGED shown
       ELSE /\ Show(IF sender.routed THEN <<Head(statusPushes)>> ELSE <<>>)
            /\ UNCHANGED sender
    /\ UNCHANGED <<recipients, receipt, msgStatus, readUpTo, ack, acks, moves,
                   receiptLog, crossed>>

\* The next synchronisation will bring an event of m.
EventDue(m) ==
    \/ \E i \in sender.synced + 1 .. Len(receiptLog) : receiptLog[i].msg = m
    \/ \E h \in InProgress(m) : ack[h].step = "append"

\* The connection is lost, and with it what is queued for it.  A push that an
\* earlier synchronisation has overtaken is then lost for good, after an older
\* push may have undone what was synced.
SenderLeaves ==
    /\ sender.stage = "synced" /\ sender.routed
    /\ sender.breaks + Len(moves) < MaxBreaks
    /\ sender' = [sender EXCEPT !.stage = "out", !.routed = FALSE, !.breaks = @ + 1]
    /\ crossed' = [m \in Messages |->
                      IF (\E i \in DOMAIN statusPushes : statusPushes[i].msg = m)
                         /\ ~EventDue(m)
                      THEN crossed[m] \cup {"push"} ELSE crossed[m]]
    /\ UNCHANGED <<recipients, receipt, msgStatus, readUpTo, ack, acks, moves,
                   statusPushes, receiptLog, shown>>

SenderReturns ==
    /\ sender.stage = "out"
    /\ sender' = [sender EXCEPT !.stage = "in"]
    /\ statusPushes' = Append(statusPushes, RouteEvent)
    /\ UNCHANGED <<recipients, receipt, msgStatus, readUpTo, ack, acks, moves,
                   receiptLog, shown, crossed>>

\* sync_events after the login, from where the client has got to.  An
\* acknowledgement whose push is out and whose event is not yet appended is
\* missed here and may be missed altogether.
SenderSyncs ==
    /\ sender.stage = "in"
    /\ sender' = [sender EXCEPT !.stage = "synced", !.synced = Len(receiptLog)]
    /\ Show(SubSeq(receiptLog, sender.synced + 1, Len(receiptLog)))
    /\ crossed' = [m \in Messages |->
                      IF \E h \in InProgress(m) : ack[h].step = "append"
                      THEN crossed[m] \cup {"sync"} ELSE crossed[m]]
    /\ UNCHANGED <<recipients, receipt, msgStatus, readUpTo, ack, acks, moves,
                   statusPushes, receiptLog>>

-----------------------------------------------------------------------------
AckHandlerStep(h) ==
    \/ AckRecord(h) \/ AckCursor(h) \/ AckExpected(h) \/ AckReads(h)
    \/ AckAggregate(h) \/ AckUpdate(h) \/ AckPush(h) \/ AckAppend(h)

ReceiptNext ==
    \/ \E h \in AckHandlers :
          \/ \E m \in Messages, kind \in {"delivered", "read"} : AckStart(h, m, kind)
          \/ AckHandlerStep(h)
    \/ \E u \in Recipients : MemberMoves(u) \/ \E m \in Messages : SyncMessages(u, m)
    \/ StatusDelivered \/ SenderLeaves \/ SenderReturns \/ SenderSyncs

ReceiptSpec == ReceiptInit /\ [][ReceiptNext]_receiptVars

-----------------------------------------------------------------------------
(***************************************************************************)
(* Properties.                                                             *)
(***************************************************************************)
Moved == {moves[i] : i \in DOMAIN moves}

\* docs/PROTOCOL.md: delivered when every recipient has got the message, read
\* when every recipient has read it.  Acknowledgements that overlap, several
\* devices of a user and counts taken one after the other never put the status
\* ahead of that.  A receipt of a user who left or joined stands in for another
\* recipient's: receiptUserCount() does not look at who is a member.
StatusEarned ==
    \A m \in Messages :
        /\ msgStatus[m] = "read" =>
              recipients \ Moved \subseteq ReadersOf(m) \/ ReadersOf(m) \cap Moved # {}
        /\ msgStatus[m] # "sent" =>
              recipients \ Moved \subseteq ReceiversOf(m) \/ ReceiversOf(m) \cap Moved # {}

AckQuiet(m) == InProgress(m) = {}
SenderCaughtUp == sender.stage = "synced" /\ sender.routed /\ statusPushes = <<>>

\* The status that follows from the receipts as they are.
FollowingStatus(m) ==
    LET status == Aggregate(Cardinality(recipients), ReadCount(m), DeliveredCount(m))
    IN IF status = "" THEN "sent" ELSE status

\* Once its acknowledgements are handled, the status of a message is the one
\* that follows from its receipts, and a connected sender shows it.  With the
\* same members, that fails after acknowledgements of the message overlapped:
\* the handler that saw the older counts may write last, and the pushes may be
\* sent in another order than the rows are written.  What the sender shows also
\* fails when it synced between a push and its event, and when it lost its
\* connection while a push that a synchronisation had overtaken was queued.
StatusSettles ==
    \A m \in Messages : AckQuiet(m) /\ moves = <<>> /\ "acks" \notin crossed[m] =>
        /\ msgStatus[m] = FollowingStatus(m)
        /\ SenderCaughtUp /\ crossed[m] = {} => shown[m] = msgStatus[m]

\* docs/ARCHITECTURE.md: MessageStatusUpdate and receipt events move the status
\* in the local store forward only, by comparison of status_rank.
ShownOnlyForward ==
    [][\A m \in Messages : statusRank(shown[m]) <= statusRank(shown'[m])]_receiptVars

\* What a member has acknowledged as read is not counted as unread again, on
\* whatever device and in whatever order; joining again starts from nothing.
ReadIsNotUnread ==
    \A m \in Messages : \A u \in ReadersOf(m) :
        u \in Moved \/ readUpTo[u] >= m
            \/ \E h \in InProgress(m) : h[1] = u /\ ack[h].step = "cursor"
=============================================================================
