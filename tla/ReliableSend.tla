----------------------------- MODULE ReliableSend -----------------------------
(***************************************************************************)
(* What the outbox and the idempotent send promise one account together:   *)
(* a composed message is stored at most once, however often it is sent,    *)
(* and the client lets go of it only when it is stored or the user's data  *)
(* are erased.                                                             *)
(***************************************************************************)
EXTENDS Naturals, Sequences

CONSTANT Items   \* messages

VARIABLES
    composed,    \* messages the user has written
    held,        \* messages the client keeps for sending again
    given,       \* messages it has given up
    log          \* messages in the order they were stored

sendVars == <<composed, held, given, log>>

Logged == {log[n] : n \in DOMAIN log}

Init ==
    /\ composed = {} /\ held = {} /\ given = {}
    /\ log = <<>>

Compose(i) ==
    /\ i \notin composed
    /\ composed' = composed \cup {i}
    /\ held' = held \cup {i}
    /\ UNCHANGED <<given, log>>

Store(i) ==
    /\ i \in composed \ Logged
    /\ log' = Append(log, i)
    /\ UNCHANGED <<composed, held, given>>

\* An acknowledgement, or an own message seen in the event stream.
Release(S) ==
    /\ S \subseteq held \cap Logged
    /\ held' = held \ S
    /\ UNCHANGED <<composed, given, log>>

\* Logout or the end of the session erases everything at once; a message that
\* cannot be encrypted is given up alone.
GiveUp(S) ==
    /\ S = held \/ \E i \in held : S = {i}
    /\ held' = held \ S
    /\ given' = given \cup S
    /\ UNCHANGED <<composed, log>>

Next ==
    \/ \E i \in Items : Compose(i) \/ Store(i)
    \/ \E S \in SUBSET held : Release(S) \/ GiveUp(S)

Spec == Init /\ [][Next]_sendVars
=============================================================================
