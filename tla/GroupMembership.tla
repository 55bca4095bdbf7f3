--------------------------- MODULE GroupMembership ---------------------------
(***************************************************************************)
(* Members and roles of one group on the server.                           *)
(*                                                                         *)
(* create_group, invite_group_members, leave_group and kick_group_member   *)
(* run on the handler threads of the connections.  Each is a sequence of   *)
(* SQL statements that commit one by one (only the creation is a           *)
(* transaction), so the statements of several requests interleave and a    *)
(* crash can fall between any two.  Every change is followed by a system   *)
(* message and a change notification for those who are members then.       *)
(*                                                                         *)
(* A user may be logged in on several connections.  Validation of users,   *)
(* names and batch sizes comes before all of this and is left out.         *)
(***************************************************************************)
EXTENDS Integers, FiniteSets

CONSTANTS
    Users,
    Conns,       \* connections; each has a handler thread
    NoUser,
    MaxMembers,  \* DatabaseManager::MaxGroupMembers
    MaxRequests  \* bound: requests handled

ASSUME GroupConstants ==
    /\ IsFiniteSet(Users) /\ IsFiniteSet(Conns) /\ NoUser \notin Users
    /\ MaxMembers \in Nat \ {0} /\ MaxRequests \in Nat

VARIABLES
    account,     \* m_authenticatedUserId of each connection's handler
    exists,      \* the group's row in conversations
    role,        \* conversation_members: role of each user ("" without a row)
    op,          \* request in progress on each handler thread
    requests,    \* number of requests so far
    owed,        \* history: what a handler's changes still have to tell whom
    mishaps      \* history: what went wrong besides the plain interleaving

groupVars == <<exists, role>>
historyVars == <<owed, mishaps>>
vars == <<account, groupVars, op, requests, historyVars>>

Roles == {"owner", "admin", "member"}
Members == {u \in Users : role[u] # ""}
Owners == {u \in Users : role[u] = "owner"}

Idle == [kind |-> "idle", step |-> "idle", todo |-> {}, target |-> NoUser,
         myRole |-> ""]
Kinds == {"idle", "create", "invite", "leave", "kick"}
Steps == {"idle", "count", "insert", "role", "successor", "transfer",
          "postTransfer", "notifyTransfer", "target", "remove", "post", "notify"}
Mishaps == {"crash", "sql", "overlap", "insert", "message"}
Notices == {"system", "changed"}

TypeOK ==
    /\ account \in [Conns -> Users]
    /\ exists \in BOOLEAN
    /\ role \in [Users -> Roles \cup {""}]
    /\ ~exists => Members = {}
    /\ op \in [Conns -> [kind : Kinds, step : Steps, todo : SUBSET Users,
                         target : Users \cup {NoUser},
                         myRole : Roles \cup {""}]]
    /\ requests \in 0 .. MaxRequests
    /\ owed \in [Conns -> SUBSET (Notices \X Users)]
    /\ mishaps \subseteq Mishaps

Init ==
    /\ account \in [Conns -> Users]
    /\ exists = FALSE /\ role = [u \in Users |-> ""]
    /\ op = [c \in Conns |-> Idle]
    /\ requests = 0
    /\ owed = [c \in Conns |-> {}] /\ mishaps = {}

-----------------------------------------------------------------------------
Self(c) == account[c]

\* Faulty variant: the owner is not counted.
OtherMemberCount == Cardinality(Members \ Owners)

MemberCount == Cardinality(Members)

\* The handler has checked the request's form and starts working on it.
Start(c, kind, step, todo, target) ==
    /\ op[c] = Idle
    /\ requests < MaxRequests /\ requests' = requests + 1
    /\ op' = [op EXCEPT ![c] = [Idle EXCEPT !.kind = kind, !.step = step,
                                            !.todo = todo, !.target = target]]
    /\ UNCHANGED account

At(c, step) ==
    /\ op[c].step = step
    /\ UNCHANGED <<account, exists, requests>>

GoTo(c, step) == op' = [op EXCEPT ![c].step = step]
Return(c) == op' = [op EXCEPT ![c] = Idle]

\* Everyone who is a member after c's change has to be told of it.
Owe(c) == owed' = [owed EXCEPT ![c] = Notices \X {u \in Users : role'[u] # ""}]

\* A user who has left the group is not told any more.
OweRemoval(c, u) ==
    owed' = [d \in Conns |->
                IF d = c THEN Notices \X (Members \ {u})
                         ELSE {n \in owed[d] : n[2] # u}]

\* A leave and another request that changes the members are in progress.
Overlap(c, kind) ==
    \E d \in Conns \ {c} :
        /\ {kind, op[d].kind} \subseteq {"leave", "kick", "invite"}
        /\ "leave" \in {kind, op[d].kind}

Note(c, kind) ==
    mishaps' = IF Overlap(c, kind) THEN mishaps \cup {"overlap"} ELSE mishaps

\* Faulty variant: members are inserted although the group is rolled back.
CreateGroupHalf(c, S) ==
    /\ ~exists
    /\ Start(c, "create", "post", {}, NoUser)
    /\ role' = [u \in Users |-> IF u = Self(c) THEN "owner"
                                ELSE IF u \in S THEN "member" ELSE ""]
    /\ Owe(c)
    /\ UNCHANGED <<exists, mishaps>>

\* createGroup() inserts the group and its members in one transaction.
CreateGroup(c, S) ==
    /\ ~exists
    /\ Cardinality(S \cup {Self(c)}) <= MaxMembers
    /\ Start(c, "create", "post", {}, NoUser)
    /\ exists' = TRUE
    /\ role' = [u \in Users |-> IF u = Self(c) THEN "owner"
                                ELSE IF u \in S THEN "member" ELSE ""]
    /\ Owe(c)
    /\ UNCHANGED mishaps

-----------------------------------------------------------------------------
(***************************************************************************)
(* invite_group_members.                                                   *)
(***************************************************************************)

\* The checks of the request.  addGroupMembers() reads the members again, so
\* that one step for all of them loses no behaviour.
Invite(c, S) ==
    /\ exists /\ Self(c) \in Members
    /\ S # {} /\ S \cap Members = {}
    /\ MemberCount + Cardinality(S) <= MaxMembers
    /\ Start(c, "invite", "count", S, NoUser)
    /\ Note(c, "invite")
    /\ UNCHANGED <<groupVars, owed>>

\* addGroupMembers(): the next user, unless a member already or the group full.
InviteCount(c) ==
    /\ At(c, "count")
    /\ op[c].todo # {}
    /\ \E u \in op[c].todo :
          IF u \in Members
          THEN op' = [op EXCEPT ![c].todo = @ \ {u}]
          ELSE IF MemberCount >= MaxMembers
          THEN op' = [op EXCEPT ![c].todo = {}]
          ELSE op' = [op EXCEPT ![c].todo = @ \ {u}, ![c].target = u,
                                ![c].step = "insert"]
    /\ UNCHANGED <<role, historyVars>>

InviteDone(c) ==
    /\ At(c, "count")
    /\ op[c].todo = {}
    /\ GoTo(c, "post")
    /\ UNCHANGED <<role, historyVars>>

InviteInsert(c) ==
    /\ At(c, "insert")
    /\ op[c].target \notin Members
    /\ role' = [role EXCEPT ![op[c].target] = "member"]
    /\ GoTo(c, "count")
    /\ Owe(c)
    /\ UNCHANGED mishaps

\* The row exists by now, or the statement fails: the request ends with an
\* error, whatever it has inserted before.
InviteInsertFails(c) ==
    /\ At(c, "insert")
    /\ Return(c)
    /\ mishaps' = mishaps \cup {"insert"}
    /\ UNCHANGED <<role, owed>>

-----------------------------------------------------------------------------
(***************************************************************************)
(* leave_group and kick_group_member.                                      *)
(***************************************************************************)

\* groupRole() of the caller: an owner has to find a successor.
Leave(c) ==
    /\ exists /\ Self(c) \in Members
    /\ Start(c, "leave", IF role[Self(c)] = "owner" THEN "successor" ELSE "remove",
             {}, Self(c))
    /\ Note(c, "leave")
    /\ UNCHANGED <<groupVars, owed>>

\* Faulty variant: the caller may be taken for the successor.
LeaveSuccessorAny(c) ==
    /\ At(c, "successor")
    /\ \E u \in Members :
          op' = [op EXCEPT ![c].target = u, ![c].step = "transfer"]
    /\ UNCHANGED <<role, historyVars>>

\* The first other member in order of joining; which one does not matter here.
LeaveSuccessor(c) ==
    LET others == Members \ {Self(c)} IN
    /\ At(c, "successor")
    /\ IF others = {}
       THEN GoTo(c, "remove")
       ELSE \E u \in others :
               op' = [op EXCEPT ![c].target = u, ![c].step = "transfer"]
    /\ UNCHANGED <<role, historyVars>>

\* updateMemberRole() changes no row if the successor has gone meanwhile.
LeaveTransfer(c) ==
    /\ At(c, "transfer")
    /\ role' = [role EXCEPT ![op[c].target] = IF @ = "" THEN "" ELSE "owner"]
    /\ GoTo(c, "postTransfer")
    /\ Owe(c)
    /\ UNCHANGED mishaps

\* Its result is not looked at.
LeaveTransferFails(c) ==
    /\ At(c, "transfer")
    /\ GoTo(c, "postTransfer")
    /\ mishaps' = mishaps \cup {"sql"}
    /\ UNCHANGED <<role, owed>>

Kick(c, u) ==
    /\ exists /\ u # Self(c)
    /\ Start(c, "kick", "role", {}, u)
    /\ Note(c, "kick")
    /\ UNCHANGED <<groupVars, owed>>

Outranks(r, s) ==
    \/ r = "owner" /\ s # "owner"
    \/ r = "admin" /\ s = "member"

\* groupRole() of the caller ...
KickMyRole(c) ==
    /\ At(c, "role")
    /\ op' = [op EXCEPT ![c].step = "target", ![c].myRole = role[Self(c)]]
    /\ UNCHANGED <<role, historyVars>>

\* ... and of the target.
KickTargetRole(c) ==
    /\ At(c, "target")
    /\ IF op[c].target \in Members /\ Outranks(op[c].myRole, role[op[c].target])
       THEN GoTo(c, "remove")
       ELSE Return(c)
    /\ UNCHANGED <<role, historyVars>>

\* removeGroupMember(): of the caller, or of the one who is kicked.
Removed(c) == IF op[c].kind = "leave" THEN Self(c) ELSE op[c].target

\* Faulty variant: nobody is told of a removal.
RemoveMemberSilently(c) ==
    /\ At(c, "remove")
    /\ Removed(c) \in Members
    /\ role' = [role EXCEPT ![Removed(c)] = ""]
    /\ Return(c)
    /\ OweRemoval(c, Removed(c))
    /\ UNCHANGED mishaps

RemoveMember(c) ==
    /\ At(c, "remove")
    /\ Removed(c) \in Members
    /\ role' = [role EXCEPT ![Removed(c)] = ""]
    /\ GoTo(c, "post")
    /\ OweRemoval(c, Removed(c))
    /\ UNCHANGED mishaps

\* There is no such row any more, or the statement fails.
RemoveFails(c) ==
    /\ At(c, "remove")
    /\ mishaps' = IF Removed(c) \in Members THEN mishaps \cup {"sql"} ELSE mishaps
    /\ Return(c)
    /\ UNCHANGED <<role, owed>>

-----------------------------------------------------------------------------
(***************************************************************************)
(* Telling the members.                                                    *)
(***************************************************************************)

\* postGroupSystemMessage() and notifyGroupChanged() both read the members
\* anew; a notice to a member is a row of sync_events and a push.
Tell(c, notice) ==
    owed' = [owed EXCEPT ![c] = @ \ ({notice} \X Members)]

PostSystemMessage(c) ==
    /\ \/ At(c, "postTransfer") /\ GoTo(c, "notifyTransfer")
       \/ At(c, "post") /\ GoTo(c, "notify")
    /\ Tell(c, "system")
    /\ UNCHANGED <<role, mishaps>>

\* The message cannot be stored; the request goes on.
PostFails(c) ==
    /\ \/ At(c, "postTransfer") /\ GoTo(c, "notifyTransfer")
       \/ At(c, "post") /\ GoTo(c, "notify")
    /\ mishaps' = mishaps \cup {"message"}
    /\ UNCHANGED <<role, owed>>

\* Faulty variant: the hand-over ends the request.
NotifyChangedReturns(c) ==
    /\ \E step \in {"notifyTransfer", "notify"} : At(c, step)
    /\ Return(c)
    /\ Tell(c, "changed")
    /\ UNCHANGED <<role, mishaps>>

NotifyChanged(c) ==
    /\ \/ At(c, "notifyTransfer") /\ GoTo(c, "remove")
       \/ At(c, "notify") /\ Return(c)
    /\ Tell(c, "changed")
    /\ UNCHANGED <<role, mishaps>>

\* The server process dies and starts again.
ServerCrash ==
    /\ \E c \in Conns : op[c] # Idle
    /\ op' = [c \in Conns |-> Idle]
    /\ mishaps' = mishaps \cup {"crash"}
    /\ UNCHANGED <<account, groupVars, requests, owed>>

-----------------------------------------------------------------------------
Handler(c) ==
    \/ InviteCount(c) \/ InviteDone(c) \/ InviteInsert(c) \/ InviteInsertFails(c)
    \/ LeaveSuccessor(c) \/ LeaveTransfer(c) \/ LeaveTransferFails(c)
    \/ KickMyRole(c) \/ KickTargetRole(c)
    \/ RemoveMember(c) \/ RemoveFails(c)
    \/ PostSystemMessage(c) \/ PostFails(c) \/ NotifyChanged(c)

Next ==
    \/ \E c \in Conns :
          \/ \E S \in SUBSET Users : CreateGroup(c, S) \/ Invite(c, S)
          \/ \E u \in Users : Kick(c, u)
          \/ Leave(c) \/ Handler(c)
    \/ ServerCrash

Spec == Init /\ [][Next]_vars

-----------------------------------------------------------------------------
(***************************************************************************)
(* Properties.                                                             *)
(***************************************************************************)

\* processLeaveGroupRequest(): a leaving owner hands the group over first, so
\* that no group is left without an owner.  A crash at any point keeps that.
\* It fails in two cases: the update of the successor's role fails and goes
\* unnoticed, and a leave overlaps another change of the members: the successor
\* leaves or is kicked at the same time, or the last member leaves on one device
\* and invites on another.
OwnedUnlessRaced ==
    Members # {} => Owners # {} \/ {"sql", "overlap"} \cap mishaps # {}

\* Only the hand-over itself makes two owners, and only until the old owner's
\* row is gone: nobody else is left with the powers of an owner, unless the
\* server dies or the removal fails in between, or changes overlap.
SingleOwner ==
    \/ Cardinality(Owners) <= 1
    \/ \E c \in Conns : op[c].kind = "leave"
    \/ {"crash", "sql", "overlap"} \cap mishaps # {}

\* The limit is checked before the rows are inserted.  Invitations that run at
\* the same time can pass it, but each of them by its last insertion only.
MemberLimit ==
    Cardinality(Members) <= MaxMembers + Cardinality(Conns) - 1

\* docs/PROTOCOL.md: every change of the members is announced.  Whoever is a
\* member from the change to the end of the request has got both notices, on
\* which the clients' key rotation depends.  What is lost is lost to a crash,
\* an insertion that failed after others had succeeded, or a message row that
\* could not be written.
Announced ==
    \A c \in Conns : op[c] = Idle /\ owed[c] # {} =>
        \/ {"crash", "insert"} \cap mishaps # {}
        \/ "message" \in mishaps /\ owed[c] \subseteq {"system"} \X Users
=============================================================================
