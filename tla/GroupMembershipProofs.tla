------------------------ MODULE GroupMembershipProofs ------------------------
(***************************************************************************)
(* Theorems about GroupMembership, for every set of users and connections, *)
(* every limit and every number of requests: the requests of any number of *)
(* handler threads interleave statement by statement, statements fail and  *)
(* the server dies.                                                        *)
(***************************************************************************)
EXTENDS GroupMembership, FiniteSetTheorems, TLAPS

-----------------------------------------------------------------------------
(***************************************************************************)
(* The inductive invariant.                                                *)
(***************************************************************************)

\* Which request a handler can be in the middle of at each step, and that only
\* an existing group has requests.
Flow(c) ==
    /\ op[c].step # "idle" => op[c].kind # "idle"
    /\ op[c].kind # "idle" => exists
    /\ op[c].step \in {"count", "insert"} => op[c].kind = "invite"
    /\ op[c].step \in {"successor", "transfer", "postTransfer", "notifyTransfer"} =>
          op[c].kind = "leave"
    /\ op[c].step \in {"role", "target"} => op[c].kind = "kick"
    /\ op[c].step = "remove" => op[c].kind \in {"leave", "kick"}

Flows == \A c \in Conns : Flow(c)

\* A thread about to insert has counted already: its row is as good as there.
Inserting == {c \in Conns : op[c].step = "insert"}

Room == Cardinality(Members) + Cardinality(Inserting)
           <= MaxMembers + Cardinality(Conns) - 1

\* Only members are owed a notice, and what is still owed fits the step: after
\* a change both notices are, until the first of them has been sent.
OpenSteps == {"count", "insert", "postTransfer", "post"}

Lost == {"crash", "insert"} \cap mishaps # {}

Owed(c) ==
    /\ owed[c] \subseteq Notices \X Members
    /\ ~Lost /\ op[c].step \notin OpenSteps =>
          /\ op[c].step \notin {"notifyTransfer", "notify"} =>
                owed[c] \subseteq {"system"} \X Users
          /\ (\E u \in Users : <<"system", u>> \in owed[c]) => "message" \in mishaps

Debts == \A c \in Conns : Owed(c)

\* As long as no leave overlaps another change, a leave has the group to itself.
Calm == {"sql", "overlap"} \cap mishaps = {}

Changing == {"leave", "kick", "invite"}

Alone(c) ==
    op[c].kind = "leave" => \A d \in Conns \ {c} : op[d].kind \notin Changing

\* What each request knows of the owners at each of its steps.
OwnerKnown(c) ==
    /\ Alone(c)
    /\ op[c].kind = "invite" => Members # {}
    /\ op[c].kind = "kick" /\ op[c].step = "remove" => op[c].target \notin Owners
    /\ op[c].step = "transfer" => op[c].target \in Members \ {Self(c)}
    /\ op[c].step \in {"postTransfer", "notifyTransfer"} => Owners \ {Self(c)} # {}
    /\ op[c].kind = "leave" /\ op[c].step = "remove" /\ Self(c) \in Owners =>
          Members = {Self(c)} \/ Owners \ {Self(c)} # {}

Succession ==
    Calm => /\ Members # {} => Owners # {}
            /\ \A c \in Conns : OwnerKnown(c)

\* How many owners there can be besides the one who is leaving.
AtMostOne(S) == \A u, v \in S : u = v

OwnersLeft(c) ==
    op[c].kind = "leave" =>
        /\ AtMostOne(Owners \ {Self(c)})
        /\ op[c].step \in {"successor", "transfer"} => Owners \subseteq {Self(c)}
        /\ op[c].step \in {"post", "notify"} => AtMostOne(Owners)

OneOwner ==
    Calm /\ "crash" \notin mishaps =>
        /\ \A c \in Conns : OwnersLeft(c)
        /\ AtMostOne(Owners) \/ \E c \in Conns : op[c].kind = "leave"

GroupInv == TypeOK /\ Flows /\ Room /\ Debts /\ Succession /\ OneOwner

-----------------------------------------------------------------------------
(***************************************************************************)
(* Counting.                                                               *)
(***************************************************************************)
LEMMA MembersCounted ==
    /\ IsFiniteSet(Members) /\ Cardinality(Members) \in Nat
    /\ MemberCount = Cardinality(Members)
BY GroupConstants, FS_Subset, FS_CardinalityType DEF Members, MemberCount

LEMMA ConnectionsCounted ==
    ASSUME NEW S \in SUBSET Conns
    PROVE  /\ IsFiniteSet(S) /\ Cardinality(S) \in Nat
           /\ Cardinality(Conns) \in Nat
           /\ Cardinality(S) <= Cardinality(Conns)
           /\ S # Conns => Cardinality(S) <= Cardinality(Conns) - 1
BY GroupConstants, FS_Subset, FS_CardinalityType

-----------------------------------------------------------------------------
(***************************************************************************)
(* What an action does to the requests, one connection at a time.          *)
(***************************************************************************)
Request == [kind : Kinds, step : Steps, todo : SUBSET Users,
            target : Users \cup {NoUser}, myRole : Roles \cup {""}]

\* A request that starts is the only thing that changes.
LEMMA StartedRequest ==
    ASSUME TypeOK, NEW c \in Conns,
           NEW kind \in Kinds, NEW step \in Steps, NEW todo \in SUBSET Users,
           NEW target \in Users \cup {NoUser},
           Start(c, kind, step, todo, target)
    PROVE  /\ op[c].kind = "idle" /\ op[c].step = "idle"
           /\ op'[c] \in Request
           /\ op'[c].kind = kind /\ op'[c].step = step
           /\ op'[c].target = target
           /\ \A d \in Conns \ {c} : op'[d] = op[d]
           /\ op' \in [Conns -> Request]
           /\ requests' \in 0 .. MaxRequests
           /\ account' = account
<1>1. Idle \in Request /\ Idle.kind = "idle" /\ Idle.step = "idle"
  BY DEF Idle, Request, Kinds, Steps
<1>2. op[c] = Idle /\ op \in [Conns -> Request]
  BY DEF Start, TypeOK, Request
<1>3. PICK s : s = [Idle EXCEPT !.kind = kind, !.step = step, !.todo = todo, !.target = target]
  OBVIOUS
<1>4. s \in Request /\ s.kind = kind /\ s.step = step /\ s.target = target
  BY <1>1, <1>3 DEF Request
<1>5. op' = [op EXCEPT ![c] = s]
  BY <1>1, <1>3 DEF Start
<1>6. op' \in [Conns -> Request] /\ op'[c] = s /\ \A d \in Conns \ {c} : op'[d] = op[d]
  BY <1>2, <1>4, <1>5
<1>7. requests' \in 0 .. MaxRequests /\ account' = account
  <2>1. requests < MaxRequests /\ requests' = requests + 1 /\ account' = account
    BY Zenon DEF Start
  <2>2. requests \in 0 .. MaxRequests
    BY DEF TypeOK
  <2>3. QED
    BY <2>1, <2>2, GroupConstants
<1>8. QED
  BY <1>1, <1>2, <1>4, <1>6, <1>7

\* The next step of a request leaves the rest of it alone.
LEMMA NextStep ==
    ASSUME TypeOK, NEW c \in Conns, NEW step \in Steps, GoTo(c, step)
    PROVE  /\ op'[c] \in Request
           /\ op'[c].kind = op[c].kind /\ op'[c].step = step
           /\ op'[c].target = op[c].target
           /\ \A d \in Conns \ {c} : op'[d] = op[d]
           /\ op' \in [Conns -> Request]
BY DEF TypeOK, GoTo, Request

LEMMA RequestEnds ==
    ASSUME TypeOK, NEW c \in Conns, Return(c)
    PROVE  /\ op'[c].kind = "idle" /\ op'[c].step = "idle"
           /\ \A d \in Conns \ {c} : op'[d] = op[d]
           /\ op' \in [Conns -> Request]
BY DEF TypeOK, Return, Idle, Request, Kinds, Steps

\* addGroupMembers() looks at one user: it goes on to the insertion only after
\* it has found room.
LEMMA InviteCounted ==
    ASSUME TypeOK, NEW c \in Conns, InviteCount(c)
    PROVE  /\ account' = account /\ exists' = exists /\ requests' = requests
           /\ \A d \in Conns \ {c} : op'[d] = op[d]
           /\ op' \in [Conns -> Request]
           /\ op'[c].kind = op[c].kind /\ op[c].step = "count"
           /\ op'[c].step \in {"count", "insert"}
           /\ op'[c].step = "insert" => MemberCount < MaxMembers
<1>0. op \in [Conns -> Request]
  BY DEF TypeOK, Request
<1>1. op[c].step = "count" /\ UNCHANGED <<account, exists, requests>>
  BY DEF InviteCount, At
<1>2. PICK u \in op[c].todo :
         \/ op' = [op EXCEPT ![c].todo = @ \ {u}]
         \/ op' = [op EXCEPT ![c].todo = {}]
         \/ /\ MemberCount < MaxMembers
            /\ op' = [op EXCEPT ![c].todo = @ \ {u}, ![c].target = u, ![c].step = "insert"]
  <2>1. MemberCount < MaxMembers \/ MemberCount >= MaxMembers
    BY GroupConstants, MembersCounted
  <2>2. QED
    BY <2>1 DEF InviteCount
<1>3. /\ op' \in [Conns -> Request] /\ op'[c].kind = op[c].kind
      /\ \A d \in Conns \ {c} : op'[d] = op[d]
      /\ op'[c].step \in {"count", "insert"}
      /\ op'[c].step = "insert" => MemberCount < MaxMembers
  <2>1. PICK todo \in SUBSET Users : todo = op[c].todo \ {u} /\ u \in Users
    BY <1>0 DEF Request
  <2>2. CASE op' = [op EXCEPT ![c].todo = todo] \/ op' = [op EXCEPT ![c].todo = {}]
    BY <1>0, <1>1, <2>2 DEF Request
  <2>3. CASE /\ MemberCount < MaxMembers
             /\ op' = [op EXCEPT ![c].todo = todo, ![c].target = u, ![c].step = "insert"]
    <3>1. PICK a : a = [op EXCEPT ![c].todo = todo]
      OBVIOUS
    <3>2. a \in [Conns -> Request]
      BY <1>0, <3>1 DEF Request
    <3>3. a[c].kind = op[c].kind /\ \A d \in Conns \ {c} : a[d] = op[d]
      BY <1>0, <3>1 DEF Request
    <3>4. PICK b : b = [a EXCEPT ![c].target = u]
      OBVIOUS
    <3>5. b \in [Conns -> Request]
      BY <2>1, <3>2, <3>4 DEF Request
    <3>6. b[c].kind = a[c].kind /\ \A d \in Conns \ {c} : b[d] = a[d]
      BY <3>2, <3>4 DEF Request
    <3>7. op' = [b EXCEPT ![c].step = "insert"]
      BY <2>3, <3>1, <3>4
    <3>8. op' \in [Conns -> Request]
      BY <3>5, <3>7 DEF Request, Steps
    <3>9. op'[c].kind = b[c].kind /\ op'[c].step = "insert"
             /\ \A d \in Conns \ {c} : op'[d] = b[d]
      BY <3>5, <3>7 DEF Request
    <3>10. QED
      BY <2>3, <3>3, <3>6, <3>8, <3>9
  <2>4. QED
    BY <1>2, <2>1, <2>2, <2>3
<1>4. QED
  BY <1>1, <1>3

\* The first other member becomes the successor, if there is one.
LEMMA SuccessorChosen ==
    ASSUME TypeOK, NEW c \in Conns, LeaveSuccessor(c)
    PROVE  /\ account' = account /\ exists' = exists /\ requests' = requests
           /\ \A d \in Conns \ {c} : op'[d] = op[d]
           /\ op' \in [Conns -> Request]
           /\ op'[c].kind = op[c].kind /\ op[c].step = "successor"
           /\ op'[c].step \in {"remove", "transfer"}
           /\ op'[c].step = "remove" => Members \subseteq {Self(c)}
           /\ op'[c].step = "transfer" => op'[c].target \in Members \ {Self(c)}
<1>1. op \in [Conns -> Request]
  BY DEF TypeOK, Request
<1>2. op[c].step = "successor" /\ UNCHANGED <<account, exists, requests>>
  BY DEF LeaveSuccessor, At
<1>3. CASE Members \subseteq {Self(c)} /\ GoTo(c, "remove")
  BY <1>2, <1>3, NextStep DEF Steps
<1>4. ASSUME NEW u \in Members \ {Self(c)},
             op' = [op EXCEPT ![c].target = u, ![c].step = "transfer"]
      PROVE  /\ op' \in [Conns -> Request] /\ op'[c].kind = op[c].kind
             /\ op'[c].step = "transfer" /\ op'[c].target = u
             /\ \A d \in Conns \ {c} : op'[d] = op[d]
  BY <1>1, <1>4 DEF Request, Steps, Members
<1>5. QED
  BY <1>2, <1>3, <1>4 DEF LeaveSuccessor

\* The handler remembers the caller's role as it was then.
LEMMA MyRoleRead ==
    ASSUME TypeOK, NEW c \in Conns, KickMyRole(c)
    PROVE  /\ account' = account /\ exists' = exists /\ requests' = requests
           /\ \A d \in Conns \ {c} : op'[d] = op[d]
           /\ op' \in [Conns -> Request]
           /\ op'[c].kind = op[c].kind /\ op[c].step = "role" /\ op'[c].step = "target"
<1>1. op \in [Conns -> Request]
  BY DEF TypeOK, Request
<1>2. /\ op[c].step = "role" /\ UNCHANGED <<account, exists, requests>>
      /\ op' = [op EXCEPT ![c].step = "target", ![c].myRole = role[Self(c)]]
  BY DEF KickMyRole, At
<1>3. role[Self(c)] \in Roles \cup {""}
  BY DEF TypeOK, Self
<1>4. QED
  BY <1>1, <1>2, <1>3 DEF Request, Steps

\* What a handler's step leaves alone, and how it moves its own request on.
LEMMA HandlerMoves ==
    ASSUME TypeOK, NEW c \in Conns, Handler(c)
    PROVE  /\ account' = account /\ exists' = exists /\ requests' = requests
           /\ \A d \in Conns \ {c} : op'[d] = op[d]
           /\ op' \in [Conns -> Request]
           /\ \/ op'[c].kind = "idle" /\ op'[c].step = "idle"
              \/ op'[c].kind = op[c].kind /\ op'[c].step # "idle"
           /\ op'[c].step = "insert" => InviteCount(c)
<1>1. op \in [Conns -> Request]
  BY DEF TypeOK, Request
<1>2. CASE InviteCount(c)
  BY <1>2, InviteCounted
<1>3. CASE InviteDone(c)
  BY <1>3, NextStep DEF InviteDone, At, Steps
<1>4. CASE InviteInsert(c)
  BY <1>4, NextStep DEF InviteInsert, At, Steps
<1>5. CASE InviteInsertFails(c)
  BY <1>5, RequestEnds DEF InviteInsertFails, At
<1>6. CASE LeaveSuccessor(c)
  BY <1>6, SuccessorChosen
<1>7. CASE LeaveTransfer(c) \/ LeaveTransferFails(c)
  BY <1>7, NextStep DEF LeaveTransfer, LeaveTransferFails, At, Steps
<1>8. CASE KickMyRole(c)
  BY <1>8, MyRoleRead
<1>9. CASE KickTargetRole(c)
  BY <1>9, NextStep, RequestEnds DEF KickTargetRole, At, Steps
<1>10. CASE RemoveMember(c)
  BY <1>10, NextStep DEF RemoveMember, At, Steps
<1>11. CASE RemoveFails(c)
  BY <1>11, RequestEnds DEF RemoveFails, At
<1>12. CASE PostSystemMessage(c) \/ PostFails(c)
  BY <1>12, NextStep DEF PostSystemMessage, PostFails, At, Steps
<1>13. CASE NotifyChanged(c)
  BY <1>13, NextStep, RequestEnds DEF NotifyChanged, At, Steps
<1>14. QED
  BY <1>2, <1>3, <1>4, <1>5, <1>6, <1>7, <1>8, <1>9, <1>10, <1>11, <1>12, <1>13
  DEF Handler

\* The start of each kind of request.
LEMMA CreateMoves ==
    ASSUME TypeOK, NEW c \in Conns, NEW S \in SUBSET Users, CreateGroup(c, S)
    PROVE  /\ op[c].kind = "idle" /\ op[c].step = "idle"
           /\ op'[c].kind = "create" /\ op'[c].step = "post"
           /\ \A d \in Conns \ {c} : op'[d] = op[d]
           /\ op' \in [Conns -> Request] /\ requests' \in 0 .. MaxRequests
           /\ account' = account
BY StartedRequest, Zenon DEF CreateGroup, Kinds, Steps

LEMMA InviteMoves ==
    ASSUME TypeOK, NEW c \in Conns, NEW S \in SUBSET Users, Invite(c, S)
    PROVE  /\ op[c].kind = "idle" /\ op[c].step = "idle"
           /\ op'[c].kind = "invite" /\ op'[c].step = "count"
           /\ \A d \in Conns \ {c} : op'[d] = op[d]
           /\ op' \in [Conns -> Request] /\ requests' \in 0 .. MaxRequests
           /\ account' = account
BY StartedRequest, Zenon DEF Invite, Kinds, Steps

LEMMA LeaveMoves ==
    ASSUME TypeOK, NEW c \in Conns, Leave(c)
    PROVE  /\ op[c].kind = "idle" /\ op[c].step = "idle"
           /\ op'[c].kind = "leave"
           /\ op'[c].step = IF role[Self(c)] = "owner" THEN "successor" ELSE "remove"
           /\ \A d \in Conns \ {c} : op'[d] = op[d]
           /\ op' \in [Conns -> Request] /\ requests' \in 0 .. MaxRequests
           /\ account' = account
<1>1. PICK step \in {"successor", "remove"} :
         /\ step = IF role[Self(c)] = "owner" THEN "successor" ELSE "remove"
         /\ Start(c, "leave", step, {}, Self(c))
  BY DEF Leave
<1>2. "leave" \in Kinds /\ step \in Steps /\ {} \in SUBSET Users
  BY DEF Kinds, Steps
<1>3. Self(c) \in Users \cup {NoUser}
  BY DEF TypeOK, Self
<1>4. QED
  BY <1>1, <1>2, <1>3, StartedRequest

LEMMA KickMoves ==
    ASSUME TypeOK, NEW c \in Conns, NEW u \in Users, Kick(c, u)
    PROVE  /\ op[c].kind = "idle" /\ op[c].step = "idle"
           /\ op'[c].kind = "kick" /\ op'[c].step = "role"
           /\ \A d \in Conns \ {c} : op'[d] = op[d]
           /\ op' \in [Conns -> Request] /\ requests' \in 0 .. MaxRequests
           /\ account' = account
<1>1. Start(c, "kick", "role", {}, u)
  BY DEF Kick
<1>2. "kick" \in Kinds /\ "role" \in Steps /\ {} \in SUBSET Users
  BY DEF Kinds, Steps
<1>3. u \in Users \cup {NoUser}
  OBVIOUS
<1>4. QED
  BY <1>1, <1>2, <1>3, StartedRequest

-----------------------------------------------------------------------------
(***************************************************************************)
(* What an action does to the rows of the members.                         *)
(***************************************************************************)
Role == [Users -> Roles \cup {""}]

LEMMA RowsKept ==
    ASSUME role' = role
    PROVE  Members' = Members /\ Owners' = Owners
BY DEF Members, Owners

\* createGroup()
LEMMA RowsCreated ==
    ASSUME TypeOK, NEW c \in Conns, NEW S \in SUBSET Users, CreateGroup(c, S)
    PROVE  /\ role' \in Role
           /\ Members = {} /\ Owners = {}
           /\ Members' = S \cup {Self(c)} /\ Owners' = {Self(c)}
           /\ Cardinality(Members') <= MaxMembers
<1>1. /\ role' = [u \in Users |-> IF u = Self(c) THEN "owner"
                                  ELSE IF u \in S THEN "member" ELSE ""]
      /\ ~exists /\ Cardinality(S \cup {Self(c)}) <= MaxMembers
  BY DEF CreateGroup
<1>2. Self(c) \in Users
  BY DEF TypeOK, Self
<1>3. role' \in Role
  BY <1>1 DEF Role, Roles
<1>4. Members' = S \cup {Self(c)} /\ Owners' = {Self(c)}
  BY <1>1, <1>2 DEF Members, Owners
<1>5. Members = {} /\ Owners = {}
  BY <1>1 DEF TypeOK, Members, Owners
<1>6. QED
  BY <1>1, <1>3, <1>4, <1>5

\* The insertion of addGroupMembers() makes no owner.
LEMMA RowInserted ==
    ASSUME TypeOK, NEW c \in Conns, InviteInsert(c)
    PROVE  /\ role' \in Role
           /\ \E u : Members' \subseteq Members \cup {u}
           /\ Members \subseteq Members' /\ Owners' = Owners
BY DEF TypeOK, InviteInsert, Role, Roles, Members, Owners

\* The hand-over adds an owner if the successor is still there.
LEMMA RoleTransferred ==
    ASSUME TypeOK, NEW c \in Conns, LeaveTransfer(c)
    PROVE  /\ role' \in Role
           /\ Members' = Members
           /\ Owners \subseteq Owners' /\ Owners' \subseteq Owners \cup {op[c].target}
           /\ op[c].target \in Members => op[c].target \in Owners'
BY DEF TypeOK, LeaveTransfer, Role, Roles, Members, Owners

LEMMA RowRemoved ==
    ASSUME TypeOK, NEW c \in Conns, RemoveMember(c)
    PROVE  /\ role' \in Role
           /\ Removed(c) \in Members
           /\ Members' = Members \ {Removed(c)} /\ Owners' = Owners \ {Removed(c)}
           /\ \A u \in Users : role'[u] = role[u] \/ role'[u] = ""
BY DEF TypeOK, RemoveMember, Role, Roles, Members, Owners

\* The other steps of a handler change no row.
LEMMA RowsChange ==
    ASSUME TypeOK, NEW c \in Conns, Handler(c), ~InviteInsert(c)
    PROVE  /\ Members' \subseteq Members
           /\ ~LeaveTransfer(c) /\ ~RemoveMember(c) => role' = role
<1>1. CASE ~LeaveTransfer(c) /\ ~RemoveMember(c)
  <2>1. role' = role
    BY <1>1
    DEF Handler, InviteCount, InviteDone, InviteInsertFails, LeaveSuccessor,
        LeaveTransferFails, KickMyRole, KickTargetRole, RemoveFails, PostSystemMessage,
        PostFails, NotifyChanged
  <2>2. QED
    BY <2>1, RowsKept
<1>2. CASE LeaveTransfer(c) \/ RemoveMember(c)
  BY <1>2, RoleTransferred, RowRemoved
<1>3. QED
  BY <1>1, <1>2

-----------------------------------------------------------------------------
(***************************************************************************)
(* Types.                                                                  *)
(***************************************************************************)
LEMMA InitTyped == Init => TypeOK
<1> SUFFICES ASSUME Init PROVE TypeOK
  OBVIOUS
<1>1. Idle \in Request
  BY DEF Idle, Request, Kinds, Steps
<1>2. op \in [Conns -> Request]
  BY <1>1 DEF Init
<1>3. Members = {} /\ role \in Role
  BY DEF Init, Members, Role
<1>4. requests = 0 /\ MaxRequests \in Nat
  BY GroupConstants DEF Init
<1>5. requests \in 0 .. MaxRequests
  BY <1>4
<1>6. QED
  BY <1>2, <1>3, <1>5 DEF Init, TypeOK, Request, Role

\* The parts of the type invariant that the moves above leave open.
LEMMA TypesKept ==
    ASSUME TypeOK, op' \in [Conns -> Request], requests' \in 0 .. MaxRequests,
           account' = account, exists' \in BOOLEAN,
           role' \in Role, ~exists' => Members' = {},
           owed' \in [Conns -> SUBSET (Notices \X Users)], mishaps' \subseteq Mishaps
    PROVE  TypeOK'
BY DEF TypeOK, Request, Role

LEMMA OweTyped ==
    ASSUME TypeOK, NEW c \in Conns, Owe(c)
    PROVE  owed' \in [Conns -> SUBSET (Notices \X Users)]
BY DEF TypeOK, Owe

LEMMA OweRemovalTyped ==
    ASSUME TypeOK, NEW c \in Conns, NEW u, OweRemoval(c, u)
    PROVE  owed' \in [Conns -> SUBSET (Notices \X Users)]
BY DEF TypeOK, OweRemoval, Members

LEMMA TellTyped ==
    ASSUME TypeOK, NEW c \in Conns, NEW notice, Tell(c, notice)
    PROVE  owed' \in [Conns -> SUBSET (Notices \X Users)]
BY DEF TypeOK, Tell

LEMMA HandlerTyped ==
    ASSUME TypeOK, Flows, NEW c \in Conns, Handler(c)
    PROVE  TypeOK'
<1> DEFINE OwedType == [Conns -> SUBSET (Notices \X Users)]
<1>1. /\ op' \in [Conns -> Request] /\ requests' \in 0 .. MaxRequests
      /\ account' = account /\ exists' = exists /\ exists \in BOOLEAN
  <2>1. requests \in 0 .. MaxRequests /\ exists \in BOOLEAN
    BY DEF TypeOK
  <2>2. QED
    BY <2>1, HandlerMoves
<1>2. role \in Role /\ owed \in OwedType /\ mishaps \subseteq Mishaps
  BY DEF TypeOK, Role
<1>3. ~exists => Members = {}
  BY DEF TypeOK
<1>4. CASE role' = role /\ owed' \in OwedType /\ mishaps' \subseteq Mishaps
  BY <1>1, <1>2, <1>3, <1>4, RowsKept, TypesKept
<1>5. CASE InviteInsert(c)
  <2>1. exists /\ owed' \in OwedType /\ mishaps' = mishaps /\ role' \in Role
    BY <1>5, OweTyped, RowInserted DEF InviteInsert, At, Flows, Flow
  <2>2. QED
    BY <1>1, <1>2, <2>1, TypesKept
<1>6. CASE LeaveTransfer(c)
  <2>1. owed' \in OwedType /\ mishaps' = mishaps /\ role' \in Role /\ Members' = Members
    BY <1>6, OweTyped, RoleTransferred DEF LeaveTransfer
  <2>2. QED
    BY <1>1, <1>2, <1>3, <2>1, TypesKept
<1>7. CASE RemoveMember(c)
  <2>1. owed' \in OwedType /\ mishaps' = mishaps /\ role' \in Role
           /\ Members' \subseteq Members
    BY <1>7, OweRemovalTyped, RowRemoved DEF RemoveMember
  <2>2. QED
    BY <1>1, <1>2, <1>3, <2>1, TypesKept
<1>8. CASE \/ InviteCount(c) \/ InviteDone(c) \/ InviteInsertFails(c)
           \/ LeaveSuccessor(c) \/ LeaveTransferFails(c)
           \/ KickMyRole(c) \/ KickTargetRole(c) \/ RemoveFails(c) \/ PostFails(c)
  <2>1. role' = role /\ owed' = owed /\ mishaps' \subseteq mishaps \cup Mishaps
    BY <1>8
    DEF InviteCount, InviteDone, InviteInsertFails, LeaveSuccessor, LeaveTransferFails,
        KickMyRole, KickTargetRole, RemoveFails, PostFails, historyVars, Mishaps
  <2>2. QED
    BY <1>2, <1>4, <2>1
<1>9. CASE PostSystemMessage(c) \/ NotifyChanged(c)
  BY <1>2, <1>4, <1>9, TellTyped DEF PostSystemMessage, NotifyChanged
<1>10. QED
  BY <1>5, <1>6, <1>7, <1>8, <1>9 DEF Handler

LEMMA StepTyped ==
    ASSUME TypeOK, Flows, [Next]_vars
    PROVE  TypeOK'
<1>1. role \in Role /\ mishaps \subseteq Mishaps /\ exists \in BOOLEAN
         /\ owed \in [Conns -> SUBSET (Notices \X Users)]
         /\ op \in [Conns -> Request] /\ requests \in 0 .. MaxRequests
  BY DEF TypeOK, Role, Request
<1>2. ~exists => Members = {}
  BY DEF TypeOK
<1>3. ASSUME NEW c \in Conns, NEW S \in SUBSET Users, CreateGroup(c, S)
      PROVE  TypeOK'
  <2>1. exists' = TRUE /\ mishaps' = mishaps /\ Owe(c)
    BY <1>3 DEF CreateGroup
  <2>2. QED
    BY <1>1, <1>3, <2>1, CreateMoves, RowsCreated, OweTyped, TypesKept
<1>4. ASSUME NEW kind, NEW c \in Conns, Note(c, kind), UNCHANGED <<groupVars, owed>>,
             op' \in [Conns -> Request], requests' \in 0 .. MaxRequests, account' = account
      PROVE  TypeOK'
  <2>1. mishaps' \subseteq Mishaps
    BY <1>1, <1>4 DEF Note, Mishaps
  <2>2. QED
    BY <1>1, <1>2, <1>4, <2>1, RowsKept, TypesKept DEF groupVars
<1>5. ASSUME NEW c \in Conns, NEW S \in SUBSET Users, Invite(c, S)
      PROVE  TypeOK'
  BY <1>4, <1>5, InviteMoves DEF Invite
<1>6. ASSUME NEW c \in Conns, Leave(c)
      PROVE  TypeOK'
  BY <1>4, <1>6, LeaveMoves DEF Leave
<1>7. ASSUME NEW c \in Conns, NEW u \in Users, Kick(c, u)
      PROVE  TypeOK'
  BY <1>4, <1>7, KickMoves DEF Kick
<1>8. CASE ServerCrash
  <2>1. Idle \in Request
    BY DEF Idle, Request, Kinds, Steps
  <2>2. /\ op' \in [Conns -> Request] /\ mishaps' \subseteq Mishaps
        /\ UNCHANGED <<account, groupVars, requests, owed>>
    BY <1>1, <1>8, <2>1 DEF ServerCrash, Mishaps
  <2>3. QED
    BY <1>1, <1>2, <2>2, RowsKept, TypesKept DEF groupVars
<1>9. CASE UNCHANGED vars
  BY <1>1, <1>2, <1>9, RowsKept, TypesKept DEF vars, groupVars, historyVars
<1>10. QED
  BY <1>3, <1>5, <1>6, <1>7, <1>8, <1>9, HandlerTyped DEF Next

-----------------------------------------------------------------------------
(***************************************************************************)
(* The order of the steps.                                                 *)
(***************************************************************************)

\* The steps a request can be in once a handler has taken one.
LEMMA HandlerGoesTo ==
    ASSUME NEW c \in Conns, TypeOK, Flow(c), Handler(c)
    PROVE  Flow(c)'
<1>1. /\ exists' = exists
      /\ \/ op'[c].kind = "idle" /\ op'[c].step = "idle"
         \/ op'[c].kind = op[c].kind /\ op'[c].step # "idle"
  BY HandlerMoves
<1> USE DEF Flow
<1>2. CASE InviteCount(c)
  BY <1>1, <1>2, InviteCounted
<1>3. CASE InviteDone(c)
  BY <1>1, <1>3, NextStep DEF InviteDone, At, Steps
<1>4. CASE InviteInsert(c)
  BY <1>1, <1>4, NextStep DEF InviteInsert, At, Steps
<1>5. CASE InviteInsertFails(c) \/ RemoveFails(c)
  BY <1>1, <1>5, RequestEnds DEF InviteInsertFails, RemoveFails
<1>6. CASE LeaveSuccessor(c)
  BY <1>1, <1>6, SuccessorChosen
<1>7. CASE LeaveTransfer(c) \/ LeaveTransferFails(c)
  BY <1>1, <1>7, NextStep DEF LeaveTransfer, LeaveTransferFails, At, Steps
<1>8. CASE KickMyRole(c)
  BY <1>1, <1>8, MyRoleRead
<1>9. CASE KickTargetRole(c)
  BY <1>1, <1>9, NextStep, RequestEnds DEF KickTargetRole, At, Steps
<1>10. CASE RemoveMember(c)
  <2>1. op[c].step = "remove" /\ GoTo(c, "post")
    BY <1>10 DEF RemoveMember, At
  <2>2. QED
    BY <1>1, <2>1, NextStep DEF Steps
<1>11. CASE PostSystemMessage(c) \/ PostFails(c)
  BY <1>1, <1>11, NextStep DEF PostSystemMessage, PostFails, At, Steps
<1>12. CASE NotifyChanged(c)
  BY <1>1, <1>12, NextStep, RequestEnds DEF NotifyChanged, At, Steps
<1>13. QED
  BY <1>2, <1>3, <1>4, <1>5, <1>6, <1>7, <1>8, <1>9, <1>10, <1>11, <1>12 DEF Handler

LEMMA StepFlows ==
    ASSUME TypeOK, Flows, [Next]_vars
    PROVE  Flows'
<1> USE DEF Flows
<1>1. ASSUME NEW c \in Conns, Handler(c)
      PROVE  Flows'
  <2>1. Flow(c)'
    BY <1>1, HandlerGoesTo
  <2>2. ASSUME NEW d \in Conns \ {c}
        PROVE  Flow(d)'
    BY <1>1, <2>2, HandlerMoves DEF Flow
  <2>3. QED
    BY <2>1, <2>2
<1>2. ASSUME NEW c \in Conns, exists',
             op'[c].kind \in {"create", "invite", "leave", "kick"},
             op'[c].step = "count" => op'[c].kind = "invite",
             op'[c].step \in {"post", "count", "successor", "remove", "role"},
             op'[c].step \in {"successor", "remove"} => op'[c].kind = "leave",
             op'[c].step = "role" => op'[c].kind = "kick",
             \A d \in Conns \ {c} : op'[d] = op[d]
      PROVE  Flows'
  BY <1>2 DEF Flow
<1>3. ASSUME NEW c \in Conns, NEW S \in SUBSET Users, CreateGroup(c, S)
      PROVE  Flows'
  <2>1. exists'
    BY <1>3 DEF CreateGroup
  <2>2. QED
    BY <1>2, <1>3, <2>1, CreateMoves
<1>4. ASSUME NEW c \in Conns, NEW S \in SUBSET Users, Invite(c, S)
      PROVE  Flows'
  <2>1. exists'
    BY <1>4 DEF Invite, groupVars
  <2>2. QED
    BY <1>2, <1>4, <2>1, InviteMoves
<1>5. ASSUME NEW c \in Conns, Leave(c)
      PROVE  Flows'
  <2>1. exists'
    BY <1>5 DEF Leave, groupVars
  <2>2. QED
    BY <1>2, <1>5, <2>1, LeaveMoves
<1>6. ASSUME NEW c \in Conns, NEW u \in Users, Kick(c, u)
      PROVE  Flows'
  <2>1. exists'
    BY <1>6 DEF Kick, groupVars
  <2>2. QED
    BY <1>2, <1>6, <2>1, KickMoves
<1>7. CASE ServerCrash
  BY <1>7 DEF ServerCrash, Flow, Idle
<1>8. CASE UNCHANGED vars
  BY <1>8 DEF vars, groupVars, Flow
<1>9. QED
  BY <1>1, <1>3, <1>4, <1>5, <1>6, <1>7, <1>8 DEF Next

-----------------------------------------------------------------------------
(***************************************************************************)
(* The limit.                                                              *)
(***************************************************************************)

\* An insertion takes the place its thread has counted.
LEMMA StepRoom ==
    ASSUME TypeOK, Flows, Room, [Next]_vars
    PROVE  Room'
<1> DEFINE n == Cardinality(Members)   i == Cardinality(Inserting)
           k == Cardinality(Conns)
<1>1. /\ n \in Nat /\ n' \in Nat /\ i \in Nat /\ i' \in Nat /\ k \in Nat
      /\ MaxMembers \in Nat \ {0}
  <2>1. IsFiniteSet(Members')
    BY GroupConstants, FS_Subset DEF Members
  <2>2. Inserting \in SUBSET Conns /\ Inserting' \in SUBSET Conns
    BY DEF Inserting
  <2>3. QED
    BY <2>1, <2>2, MembersCounted, ConnectionsCounted, FS_CardinalityType, GroupConstants
<1>2. n + i <= MaxMembers + k - 1
  BY DEF Room
<1>3. SUFFICES n' + i' <= MaxMembers + k - 1
  BY DEF Room
<1>4. CASE Members' \subseteq Members /\ Inserting' \subseteq Inserting
  <2>1. n' <= n /\ i' <= i
    BY <1>4, MembersCounted, ConnectionsCounted, FS_Subset DEF Inserting
  <2>2. QED
    BY <1>1, <1>2, <2>1
<1>5. ASSUME NEW c \in Conns, Handler(c)
      PROVE  n' + i' <= MaxMembers + k - 1
  <2>1. /\ \A d \in Conns \ {c} : op'[d] = op[d]
        /\ op'[c].step = "insert" => InviteCount(c)
    BY <1>5, HandlerMoves
  <2>2. CASE InviteInsert(c)
    <3>1. PICK u : Members' \subseteq Members \cup {u}
      BY <2>2, RowInserted
    <3>2. n' <= n + 1
      <4>1. IsFiniteSet(Members \cup {u}) /\ Cardinality(Members \cup {u}) <= n + 1
        <5>1. /\ IsFiniteSet(Members \cup {u})
              /\ Cardinality(Members \cup {u}) =
                    IF u \in Members THEN Cardinality(Members) ELSE Cardinality(Members) + 1
          BY MembersCounted, FS_AddElement, Zenon
        <5>2. QED
          BY <1>1, <5>1
      <4>2. n' <= Cardinality(Members \cup {u}) /\ Cardinality(Members \cup {u}) \in Nat
        BY <3>1, <4>1, FS_Subset, FS_CardinalityType
      <4>3. QED
        BY <1>1, <4>1, <4>2
    <3>3. c \in Inserting /\ Inserting' = Inserting \ {c}
      BY <2>1, <2>2, NextStep DEF InviteInsert, At, Steps, Inserting
    <3>4. i' = i - 1
      BY <3>3, ConnectionsCounted, FS_RemoveElement DEF Inserting
    <3>5. QED
      BY <1>1, <1>2, <3>2, <3>4
  <2>3. CASE op'[c].step = "insert"
    <3>1. n < MaxMembers /\ n' = n
      BY <2>1, <2>3, InviteCounted, MembersCounted, RowsKept DEF InviteCount
    <3>2. i' <= k
      BY ConnectionsCounted DEF Inserting
    <3>3. QED
      BY <1>1, <3>1, <3>2
  <2>4. CASE ~InviteInsert(c) /\ op'[c].step # "insert"
    <3>1. Inserting' \subseteq Inserting
      BY <2>1, <2>4 DEF Inserting
    <3>2. Members' \subseteq Members
      BY <1>5, <2>4, RowsChange
    <3>3. QED
      BY <1>4, <3>1, <3>2
  <2>5. QED
    BY <2>2, <2>3, <2>4
<1>6. ASSUME NEW c \in Conns, NEW S \in SUBSET Users, CreateGroup(c, S)
      PROVE  n' + i' <= MaxMembers + k - 1
  <2>1. n' <= MaxMembers
    BY <1>6, RowsCreated
  <2>2. c \notin Inserting'
    BY <1>6, CreateMoves DEF Inserting
  <2>3. i' <= k - 1
    BY <2>2, ConnectionsCounted DEF Inserting
  <2>4. QED
    BY <1>1, <2>1, <2>3
<1>7. ASSUME NEW c \in Conns, op'[c].step # "insert",
             \A d \in Conns \ {c} : op'[d] = op[d], UNCHANGED groupVars
      PROVE  n' + i' <= MaxMembers + k - 1
  BY <1>4, <1>7, RowsKept DEF groupVars, Inserting
<1>8. ASSUME NEW c \in Conns, NEW S \in SUBSET Users, Invite(c, S)
      PROVE  n' + i' <= MaxMembers + k - 1
  BY <1>7, <1>8, InviteMoves DEF Invite
<1>9. ASSUME NEW c \in Conns, Leave(c)
      PROVE  n' + i' <= MaxMembers + k - 1
  BY <1>7, <1>9, LeaveMoves DEF Leave
<1>10. ASSUME NEW c \in Conns, NEW u \in Users, Kick(c, u)
       PROVE  n' + i' <= MaxMembers + k - 1
  BY <1>7, <1>10, KickMoves DEF Kick
<1>11. CASE ServerCrash
  BY <1>4, <1>11, RowsKept DEF ServerCrash, groupVars, Inserting, Idle
<1>12. CASE UNCHANGED vars
  BY <1>4, <1>12, RowsKept DEF vars, groupVars, Inserting
<1>13. QED
  BY <1>5, <1>6, <1>8, <1>9, <1>10, <1>11, <1>12 DEF Next

-----------------------------------------------------------------------------
(***************************************************************************)
(* The notices.                                                            *)
(***************************************************************************)
\* What a connection owes stays right while it does nothing and what it owes
\* goes to members only.
LEMMA DebtStays ==
    ASSUME NEW c \in Conns, Owed(c), op'[c] = op[c], mishaps \subseteq mishaps',
           owed'[c] \subseteq owed[c], owed'[c] \subseteq Notices \X Members'
    PROVE  Owed(c)'
BY DEF Owed, Lost

\* It stays right when the connection goes on from a step at which everything
\* is told, or to one at which nothing need be.
LEMMA DebtGoesOn ==
    ASSUME NEW c \in Conns, Owed(c), owed' = owed, Members' = Members,
           mishaps \subseteq mishaps',
           \/ op[c].step \notin OpenSteps \cup {"notifyTransfer", "notify"}
           \/ op'[c].step \in OpenSteps
           \/ "insert" \in mishaps'
    PROVE  Owed(c)'
<1>1. owed'[c] \subseteq Notices \X Members'
  BY DEF Owed
<1>2. CASE op'[c].step \in OpenSteps \/ "insert" \in mishaps'
  BY <1>1, <1>2 DEF Owed, Lost, OpenSteps
<1>3. CASE op[c].step \notin OpenSteps \cup {"notifyTransfer", "notify"}
  BY <1>1, <1>3 DEF Owed, Lost, OpenSteps
<1>4. QED
  BY <1>2, <1>3

\* A change is owed to all who are members after it.
LEMMA ChangeOwed ==
    ASSUME TypeOK, Debts, NEW c \in Conns, Owe(c), Members \subseteq Members',
           op'[c].step \in OpenSteps, \A d \in Conns \ {c} : op'[d] = op[d],
           mishaps' = mishaps, role' \in Role
    PROVE  Debts'
<1>1. owed' = [owed EXCEPT ![c] = Notices \X Members']
  BY DEF Owe, Members
<1>2. owed'[c] = Notices \X Members'
  BY <1>1 DEF TypeOK
<1>3. Owed(c)'
  BY <1>2 DEF Owed, OpenSteps
<1>4. ASSUME NEW d \in Conns \ {c}
      PROVE  Owed(d)'
  <2>1. owed'[d] = owed[d] /\ Owed(d)
    BY <1>1 DEF TypeOK, Debts
  <2>2. owed'[d] \subseteq Notices \X Members'
    BY <2>1 DEF Owed
  <2>3. QED
    BY <2>1, <2>2, DebtStays
<1>5. QED
  BY <1>3, <1>4 DEF Debts

\* Who has been removed is owed nothing any more.
LEMMA RemovalOwed ==
    ASSUME TypeOK, Debts, NEW c \in Conns, RemoveMember(c)
    PROVE  Debts'
<1>1. PICK u : u = Removed(c) /\ OweRemoval(c, u) /\ Members' = Members \ {u}
  BY RowRemoved DEF RemoveMember
<1>2. /\ owed'[c] = Notices \X (Members \ {u})
      /\ \A d \in Conns \ {c} : owed'[d] = {n \in owed[d] : n[2] # u}
  BY <1>1 DEF OweRemoval
<1>3. op'[c].step = "post" /\ \A d \in Conns \ {c} : op'[d] = op[d]
  BY NextStep DEF RemoveMember, Steps
<1>4. mishaps' = mishaps
  BY DEF RemoveMember
<1>5. Owed(c)'
  BY <1>1, <1>2, <1>3 DEF Owed, OpenSteps
<1>6. ASSUME NEW d \in Conns \ {c}
      PROVE  Owed(d)'
  <2>1. owed'[d] \subseteq owed[d] /\ Owed(d)
    BY <1>2 DEF Debts
  <2>2. owed'[d] \subseteq Notices \X Members'
    BY <1>1, <1>2, <2>1 DEF Owed
  <2>3. QED
    BY <1>3, <1>4, <2>1, <2>2, DebtStays
<1>7. QED
  BY <1>5, <1>6 DEF Debts

\* Telling the members settles one of the two notices.
LEMMA Told ==
    ASSUME TypeOK, NEW c \in Conns, Owed(c), NEW notice \in Notices, Tell(c, notice)
    PROVE  /\ \A d \in Conns \ {c} : owed'[d] = owed[d]
           /\ owed'[c] \subseteq owed[c]
           /\ \A u : <<notice, u>> \notin owed'[c]
<1>1. owed' = [owed EXCEPT ![c] = @ \ ({notice} \X Members)]
  BY DEF Tell
<1>2. owed'[c] = owed[c] \ ({notice} \X Members)
  BY <1>1 DEF TypeOK
<1>3. owed[c] \subseteq Notices \X Members
  BY DEF Owed
<1>4. QED
  BY <1>1, <1>2, <1>3 DEF TypeOK

LEMMA OnlySystem ==
    ASSUME NEW S \in SUBSET (Notices \X Users), \A u : <<"changed", u>> \notin S
    PROVE  S \subseteq {"system"} \X Users
<1>1. ASSUME NEW n \in S
      PROVE  n \in {"system"} \X Users
  <2>1. PICK notice \in Notices, u \in Users : n = <<notice, u>>
    OBVIOUS
  <2>2. notice = "system"
    BY <2>1 DEF Notices
  <2>3. QED
    BY <2>1, <2>2
<1>2. QED
  BY <1>1

LEMMA StepDebts ==
    ASSUME TypeOK, Flows, Debts, [Next]_vars
    PROVE  Debts'
<1> USE DEF OpenSteps
<1>1. ASSUME NEW c \in Conns, owed' = owed, Members' = Members,
             mishaps \subseteq mishaps', \A d \in Conns \ {c} : op'[d] = op[d],
             \/ op[c].step \notin OpenSteps \cup {"notifyTransfer", "notify"}
             \/ op'[c].step \in OpenSteps
             \/ "insert" \in mishaps'
      PROVE  Debts'
  <2>1. Owed(c)'
    BY <1>1, DebtGoesOn DEF Debts
  <2>2. ASSUME NEW d \in Conns \ {c}
        PROVE  Owed(d)'
    <3>1. Owed(d) /\ owed'[d] = owed[d] /\ owed'[d] \subseteq Notices \X Members'
      BY <1>1 DEF Debts, Owed
    <3>2. QED
      BY <1>1, <3>1, DebtStays
  <2>3. QED
    BY <2>1, <2>2 DEF Debts
<1>2. ASSUME NEW c \in Conns, Handler(c)
      PROVE  Debts'
  <2>1. \A d \in Conns \ {c} : op'[d] = op[d]
    BY <1>2, HandlerMoves
  <2>2. CASE InviteCount(c) \/ InviteDone(c)
    <3>1. op'[c].step \in OpenSteps
      BY <2>2, InviteCounted, NextStep DEF InviteDone, Steps
    <3>2. owed' = owed /\ role' = role /\ mishaps' = mishaps
      BY <2>2 DEF InviteCount, InviteDone, historyVars
    <3>3. QED
      BY <1>1, <2>1, <3>1, <3>2, RowsKept
  <2>3. CASE InviteInsert(c)
    <3>1. op'[c].step = "count"
      BY <2>3, NextStep DEF InviteInsert, Steps
    <3>2. QED
      BY <2>1, <2>3, <3>1, RowInserted, ChangeOwed DEF InviteInsert
  <2>4. CASE InviteInsertFails(c)
    BY <1>1, <2>1, <2>4, RowsKept DEF InviteInsertFails
  <2>5. CASE LeaveSuccessor(c) \/ KickMyRole(c) \/ KickTargetRole(c)
    <3>1. op[c].step \in {"successor", "role", "target"}
      BY <2>5 DEF LeaveSuccessor, KickMyRole, KickTargetRole, At
    <3>2. owed' = owed /\ role' = role /\ mishaps' = mishaps
      BY <2>5 DEF LeaveSuccessor, KickMyRole, KickTargetRole, historyVars
    <3>3. QED
      BY <1>1, <2>1, <3>1, <3>2, RowsKept
  <2>6. CASE LeaveTransfer(c)
    <3>1. op'[c].step = "postTransfer"
      BY <2>6, NextStep DEF LeaveTransfer, Steps
    <3>2. QED
      BY <2>1, <2>6, <3>1, RoleTransferred, ChangeOwed DEF LeaveTransfer
  <2>7. CASE LeaveTransferFails(c)
    <3>1. op'[c].step = "postTransfer"
      BY <2>7, NextStep DEF LeaveTransferFails, Steps
    <3>2. owed' = owed /\ role' = role /\ mishaps \subseteq mishaps'
      BY <2>7 DEF LeaveTransferFails
    <3>3. QED
      BY <1>1, <2>1, <3>1, <3>2, RowsKept
  <2>8. CASE RemoveMember(c)
    BY <2>8, RemovalOwed
  <2>9. CASE RemoveFails(c)
    <3>1. op[c].step = "remove" /\ owed' = owed /\ role' = role /\ mishaps \subseteq mishaps'
      BY <2>9 DEF RemoveFails, At
    <3>2. QED
      BY <1>1, <2>1, <3>1, RowsKept
  <2>10. CASE PostSystemMessage(c)
    <3>1. /\ Tell(c, "system") /\ role' = role /\ mishaps' = mishaps
          /\ op'[c].step \in {"notifyTransfer", "notify"}
      BY <2>10, NextStep DEF PostSystemMessage, Steps
    <3>2. /\ \A d \in Conns \ {c} : owed'[d] = owed[d]
          /\ owed'[c] \subseteq owed[c] /\ \A u : <<"system", u>> \notin owed'[c]
      BY <3>1, Told DEF Debts, Notices
    <3>3. Members' = Members
      BY <3>1, RowsKept
    <3>4. Owed(c)'
      BY <3>1, <3>2, <3>3 DEF Debts, Owed
    <3>5. ASSUME NEW d \in Conns \ {c}
          PROVE  Owed(d)'
      <4>1. owed'[d] = owed[d] /\ Owed(d)
        BY <3>2 DEF Debts
      <4>2. owed'[d] \subseteq Notices \X Members'
        BY <3>3, <4>1 DEF Owed
      <4>3. QED
        BY <2>1, <3>1, <4>1, <4>2, DebtStays
    <3>6. QED
      BY <3>4, <3>5 DEF Debts
  <2>11. CASE PostFails(c)
    <3>1. /\ owed' = owed /\ role' = role /\ mishaps' = mishaps \cup {"message"}
          /\ op'[c].step \in {"notifyTransfer", "notify"}
      BY <2>11, NextStep DEF PostFails, Steps
    <3>2. Members' = Members
      BY <3>1, RowsKept
    <3>3. Owed(c)'
      BY <3>1, <3>2 DEF Debts, Owed
    <3>4. ASSUME NEW d \in Conns \ {c}
          PROVE  Owed(d)'
      <4>1. owed'[d] = owed[d] /\ Owed(d)
        BY <3>1 DEF Debts
      <4>2. owed'[d] \subseteq Notices \X Members'
        BY <3>2, <4>1 DEF Owed
      <4>3. QED
        BY <2>1, <3>1, <4>1, <4>2, DebtStays
    <3>5. QED
      BY <3>3, <3>4 DEF Debts
  <2>12. CASE NotifyChanged(c)
    <3>1. Tell(c, "changed") /\ role' = role /\ mishaps' = mishaps
      BY <2>12 DEF NotifyChanged
    <3>2. op[c].step \in {"notifyTransfer", "notify"}
      BY <2>12 DEF NotifyChanged, At
    <3>3. /\ \A d \in Conns \ {c} : owed'[d] = owed[d]
          /\ owed'[c] \subseteq owed[c] /\ \A u : <<"changed", u>> \notin owed'[c]
      BY <3>1, Told DEF Debts, Notices
    <3>4. Members' = Members
      BY <3>1, RowsKept
    <3>5. owed'[c] \subseteq {"system"} \X Users
      <4>1. owed'[c] \subseteq Notices \X Users
        BY <3>3 DEF TypeOK
      <4>2. QED
        BY <3>3, <4>1, OnlySystem
    <3>6. Owed(c)'
      BY <3>1, <3>2, <3>3, <3>4, <3>5 DEF Debts, Owed, Lost
    <3>7. ASSUME NEW d \in Conns \ {c}
          PROVE  Owed(d)'
      <4>1. owed'[d] = owed[d] /\ Owed(d)
        BY <3>3 DEF Debts
      <4>2. owed'[d] \subseteq Notices \X Members'
        BY <3>4, <4>1 DEF Owed
      <4>3. QED
        BY <2>1, <3>1, <4>1, <4>2, DebtStays
    <3>8. QED
      BY <3>6, <3>7 DEF Debts
  <2>13. QED
    BY <1>2, <2>2, <2>3, <2>4, <2>5, <2>6, <2>7, <2>8, <2>9, <2>10, <2>11, <2>12
    DEF Handler
<1>3. ASSUME NEW c \in Conns, NEW S \in SUBSET Users, CreateGroup(c, S)
      PROVE  Debts'
  <2>1. mishaps' = mishaps /\ Owe(c)
    BY <1>3 DEF CreateGroup
  <2>2. QED
    BY <1>3, <2>1, CreateMoves, RowsCreated, ChangeOwed
<1>4. ASSUME NEW kind, NEW c \in Conns, Note(c, kind), UNCHANGED <<groupVars, owed>>,
             op[c].step = "idle", \A d \in Conns \ {c} : op'[d] = op[d]
      PROVE  Debts'
  <2>1. mishaps \subseteq mishaps' /\ Members' = Members
    BY <1>4, RowsKept DEF Note, groupVars
  <2>2. QED
    BY <1>1, <1>4, <2>1
<1>5. ASSUME NEW c \in Conns, NEW S \in SUBSET Users, Invite(c, S)
      PROVE  Debts'
  BY <1>4, <1>5, InviteMoves DEF Invite
<1>6. ASSUME NEW c \in Conns, Leave(c)
      PROVE  Debts'
  BY <1>4, <1>6, LeaveMoves DEF Leave
<1>7. ASSUME NEW c \in Conns, NEW u \in Users, Kick(c, u)
      PROVE  Debts'
  BY <1>4, <1>7, KickMoves DEF Kick
<1>8. CASE ServerCrash
  <2>1. "crash" \in mishaps' /\ owed' = owed /\ Members' = Members
    BY <1>8, RowsKept DEF ServerCrash, groupVars
  <2>2. QED
    BY <2>1 DEF Debts, Owed, Lost
<1>9. CASE UNCHANGED vars
  <2>1. owed' = owed /\ Members' = Members /\ mishaps' = mishaps /\ op' = op
    BY <1>9, RowsKept DEF vars, groupVars, historyVars
  <2>2. QED
    BY <2>1 DEF Debts, Owed, Lost
<1>10. QED
  BY <1>2, <1>3, <1>5, <1>6, <1>7, <1>8, <1>9 DEF Next

-----------------------------------------------------------------------------
(***************************************************************************)
(* The owner.                                                              *)
(***************************************************************************)
\* Mishaps are never forgotten, so a calm group has been calm all along.
LEMMA MishapsGrow ==
    ASSUME [Next]_vars
    PROVE  mishaps \subseteq mishaps'
<1>1. ASSUME NEW c \in Conns, Handler(c)
      PROVE  mishaps \subseteq mishaps'
  BY <1>1
  DEF Handler, InviteCount, InviteDone, InviteInsert, InviteInsertFails, LeaveSuccessor,
      LeaveTransfer, LeaveTransferFails, KickMyRole, KickTargetRole, RemoveMember,
      RemoveFails, PostSystemMessage, PostFails, NotifyChanged, historyVars
<1>2. QED
  BY <1>1
  DEF Next, CreateGroup, Invite, Leave, Kick, Note, ServerCrash, vars, historyVars

\* A request that starts without an overlap leaves every leave alone.
LEMMA StartsAlone ==
    ASSUME TypeOK, \A d \in Conns : Alone(d), NEW c \in Conns, NEW kind \in Changing,
           Note(c, kind), Calm', op'[c].kind = kind,
           \A d \in Conns \ {c} : op'[d] = op[d]
    PROVE  \A d \in Conns : Alone(d)'
<1>1. ~Overlap(c, kind)
  BY DEF Note, Calm
<1>2. \A d \in Conns \ {c} :
         {kind, op[d].kind} \subseteq Changing => "leave" \notin {kind, op[d].kind}
  BY <1>1 DEF Overlap, Changing
<1>3. ASSUME NEW d \in Conns
      PROVE  Alone(d)'
  BY <1>2 DEF Alone, Changing
<1>4. QED
  BY <1>3

\* What is known of the owners lasts as long as nobody changes the rows.
LEMMA KnownStays ==
    ASSUME NEW c \in Conns, OwnerKnown(c), op'[c] = op[c], account' = account,
           role' = role, Alone(c)'
    PROVE  OwnerKnown(c)'
BY RowsKept DEF OwnerKnown, Self

\* A connection that changes nothing knows nothing.
LEMMA NothingKnown ==
    ASSUME NEW c \in Conns, Flow(c), op[c].kind \notin Changing
    PROVE  OwnerKnown(c)
BY DEF Flow, Changing, OwnerKnown, Alone

\* A handler's step starts no change.
LEMMA HandlerStaysAlone ==
    ASSUME TypeOK, \A d \in Conns : Alone(d), NEW c \in Conns, Handler(c)
    PROVE  \A d \in Conns : Alone(d)'
BY HandlerMoves DEF Alone, Changing

\* The steps that change no row.
LEMMA QuietHandlerKnows ==
    ASSUME TypeOK, NEW c \in Conns, Flow(c), OwnerKnown(c), Calm', Alone(c)',
           Handler(c), ~InviteInsert(c), ~LeaveTransfer(c), ~RemoveMember(c)
    PROVE  OwnerKnown(c)'
<1>1. /\ role' = role /\ account' = account /\ Self(c)' = Self(c)
      /\ Members' = Members /\ Owners' = Owners
  BY HandlerMoves, RowsChange, RowsKept DEF Self
<1>2. Flow(c)'
  BY HandlerGoesTo
<1>3. CASE op'[c].kind \notin Changing
  BY <1>2, <1>3 DEF Flow, Changing, OwnerKnown, Alone
<1>4. CASE InviteCount(c) \/ InviteDone(c)
  <2>1. op'[c].kind = "invite" /\ op'[c].step \in {"count", "insert", "post"}
           /\ op[c].kind = "invite"
    BY <1>4, InviteCounted, NextStep DEF InviteDone, At, Steps, Flow
  <2>2. QED
    BY <1>1, <2>1 DEF OwnerKnown
<1>5. CASE LeaveSuccessor(c)
  <2>1. op[c].kind = "leave"
    BY <1>5 DEF LeaveSuccessor, At, Flow
  <2>2. Self(c) \in Owners => Self(c) \in Members
    BY DEF Owners, Members
  <2>3. QED
    BY <1>1, <1>5, <2>1, <2>2, SuccessorChosen DEF OwnerKnown
<1>6. CASE LeaveTransferFails(c)
  BY <1>6 DEF LeaveTransferFails, Calm
<1>7. CASE KickMyRole(c)
  BY <1>1, <1>7, MyRoleRead DEF OwnerKnown, Flow
<1>8. CASE KickTargetRole(c)
  <2>1. CASE Return(c)
    BY <1>3, <2>1, RequestEnds DEF Changing
  <2>2. CASE GoTo(c, "remove") /\ Outranks(op[c].myRole, role[op[c].target])
    <3>1. op[c].target \notin Owners
      BY <2>2 DEF Outranks, Owners
    <3>2. op'[c].kind = "kick" /\ op'[c].step = "remove" /\ op'[c].target = op[c].target
      BY <1>8, <2>2, NextStep DEF KickTargetRole, At, Flow, Steps
    <3>3. QED
      BY <1>1, <3>1, <3>2 DEF OwnerKnown
  <2>3. QED
    BY <1>8, <2>1, <2>2 DEF KickTargetRole
<1>9. CASE PostSystemMessage(c) \/ PostFails(c)
  <2>1. /\ op'[c].kind = op[c].kind
        /\ \/ op[c].step = "postTransfer" /\ op'[c].step = "notifyTransfer"
           \/ op[c].step = "post" /\ op'[c].step = "notify"
    BY <1>9, NextStep DEF PostSystemMessage, PostFails, At, Steps
  <2>2. QED
    BY <1>1, <2>1 DEF OwnerKnown
<1>10. CASE NotifyChanged(c)
  <2>1. CASE Return(c)
    BY <1>3, <2>1, RequestEnds DEF Changing
  <2>2. CASE At(c, "notifyTransfer") /\ GoTo(c, "remove")
    <3>1. op[c].kind = "leave" /\ op'[c].kind = "leave" /\ op'[c].step = "remove"
             /\ op[c].step = "notifyTransfer"
      BY <2>2, NextStep DEF At, Flow, Steps
    <3>2. QED
      BY <1>1, <3>1 DEF OwnerKnown
  <2>3. QED
    BY <1>10, <2>1, <2>2 DEF NotifyChanged
<1>11. CASE InviteInsertFails(c) \/ RemoveFails(c)
  BY <1>3, <1>11, RequestEnds DEF InviteInsertFails, RemoveFails, Changing
<1>12. QED
  BY <1>4, <1>5, <1>6, <1>7, <1>8, <1>9, <1>10, <1>11 DEF Handler

LEMMA HandlerSuccession ==
    ASSUME TypeOK, Flows, Succession, NEW c \in Conns, Handler(c), Calm, Calm'
    PROVE  Succession'
<1>1. /\ \A d \in Conns \ {c} : op'[d] = op[d]
      /\ op'[c].kind \in {op[c].kind, "idle"}
      /\ account' = account
      /\ \A d \in Conns : Self(d)' = Self(d)
  BY HandlerMoves DEF Self
<1>2. /\ Members # {} => Owners # {}
      /\ \A d \in Conns : OwnerKnown(d) /\ Alone(d)
  BY DEF Succession, OwnerKnown
<1>3. \A d \in Conns : Alone(d)' /\ Flow(d) /\ Flow(d)'
  <2>1. ASSUME NEW d \in Conns PROVE Flow(d)'
    <3>1. Flow(d) /\ exists' = exists
      BY HandlerMoves DEF Flows
    <3>2. QED
      BY <1>1, <3>1, HandlerGoesTo DEF Flow
  <2>2. QED
    BY <1>2, <2>1, HandlerStaysAlone DEF Flows
<1>4. CASE ~InviteInsert(c) /\ ~LeaveTransfer(c) /\ ~RemoveMember(c)
  <2>1. OwnerKnown(c)'
    BY <1>2, <1>3, <1>4, QuietHandlerKnows
  <2>2. role' = role
    BY <1>4, RowsChange
  <2>3. \A d \in Conns \ {c} : OwnerKnown(d)'
    BY <1>1, <1>2, <1>3, <2>2, KnownStays
  <2>4. QED
    BY <1>2, <2>1, <2>2, <2>3, RowsKept DEF Succession
<1>5. CASE InviteInsert(c)
  <2>1. /\ op[c].kind = "invite" /\ op'[c].kind = "invite" /\ op'[c].step = "count"
    BY <1>3, <1>5, NextStep DEF InviteInsert, At, Steps, Flow
  <2>2. Members # {} /\ Members \subseteq Members' /\ Owners' = Owners
    BY <1>2, <1>5, <2>1, RowInserted DEF OwnerKnown
  <2>3. OwnerKnown(c)'
    BY <1>3, <2>1, <2>2 DEF OwnerKnown
  <2>4. ASSUME NEW d \in Conns \ {c}
        PROVE  OwnerKnown(d)'
    <3>1. op[d].kind # "leave" /\ op'[d] = op[d]
      BY <1>1, <1>2, <2>1 DEF Alone, Changing
    <3>2. QED
      BY <1>2, <1>3, <2>2, <3>1 DEF OwnerKnown, Flow
  <2>5. QED
    BY <1>2, <2>2, <2>3, <2>4 DEF Succession
<1>6. CASE LeaveTransfer(c)
  <2>1. /\ op[c].kind = "leave" /\ op[c].step = "transfer"
        /\ op'[c].kind = "leave" /\ op'[c].step = "postTransfer"
    BY <1>3, <1>6, NextStep DEF LeaveTransfer, At, Steps, Flow
  <2>2. op[c].target \in Owners' \ {Self(c)}
    BY <1>2, <1>6, <2>1, RoleTransferred DEF OwnerKnown
  <2>3. OwnerKnown(c)'
    BY <1>1, <1>3, <2>1, <2>2 DEF OwnerKnown
  <2>4. ASSUME NEW d \in Conns \ {c}
        PROVE  OwnerKnown(d)'
    <3>1. op'[d].kind \notin Changing
      BY <1>1, <1>2, <2>1 DEF Alone
    <3>2. QED
      BY <1>3, <3>1 DEF OwnerKnown, Flow, Alone, Changing
  <2>5. QED
    BY <2>2, <2>3, <2>4 DEF Succession
<1>7. CASE RemoveMember(c)
  <2>1. /\ op[c].step = "remove" /\ op[c].kind \in {"leave", "kick"}
        /\ op'[c].kind = op[c].kind /\ op'[c].step = "post"
    <3>1. op[c].step = "remove" /\ GoTo(c, "post")
      BY <1>7 DEF RemoveMember, At
    <3>2. QED
      BY <1>3, <3>1, NextStep DEF Steps, Flow
  <2>2. /\ Members' = Members \ {Removed(c)} /\ Owners' = Owners \ {Removed(c)}
        /\ Removed(c) \in Members
    BY <1>7, RowRemoved
  <2>3. Owners' \subseteq Members'
    BY <2>2 DEF Members, Owners
  <2>4. CASE op[c].kind = "leave"
    <3>1. Removed(c) = Self(c)
      BY <2>4 DEF Removed
    <3>2. Members' # {} => Owners' # {}
      <4>1. CASE Self(c) \in Owners
        BY <1>2, <2>1, <2>2, <2>4, <3>1, <4>1 DEF OwnerKnown
      <4>2. CASE Self(c) \notin Owners
        BY <1>2, <2>2, <3>1, <4>2
      <4>3. QED
        BY <4>1, <4>2
    <3>3. OwnerKnown(c)'
      BY <1>3, <2>1, <2>4 DEF OwnerKnown
    <3>4. ASSUME NEW d \in Conns \ {c}
          PROVE  OwnerKnown(d)'
      <4>1. op'[d].kind \notin Changing
        BY <1>1, <1>2, <2>4 DEF Alone
      <4>2. QED
        BY <1>3, <4>1 DEF OwnerKnown, Flow, Alone, Changing
    <3>5. QED
      BY <3>2, <3>3, <3>4 DEF Succession
  <2>5. CASE op[c].kind = "kick"
    <3>1. Owners' = Owners /\ Owners # {}
      BY <1>2, <2>1, <2>2, <2>5 DEF Removed, OwnerKnown
    <3>2. OwnerKnown(c)'
      BY <1>3, <2>1, <2>5, <3>1 DEF OwnerKnown
    <3>3. ASSUME NEW d \in Conns \ {c}
          PROVE  OwnerKnown(d)'
      <4>1. op[d].kind # "leave" /\ op'[d] = op[d]
        BY <1>1, <1>2, <2>5 DEF Alone, Changing
      <4>2. Members' # {}
        BY <2>3, <3>1
      <4>3. QED
        BY <1>2, <1>3, <3>1, <4>1, <4>2 DEF OwnerKnown, Flow
    <3>4. QED
      BY <3>1, <3>2, <3>3 DEF Succession
  <2>6. QED
    BY <2>1, <2>4, <2>5
<1>8. QED
  BY <1>4, <1>5, <1>6, <1>7

LEMMA StepSuccession ==
    ASSUME TypeOK, Flows, Succession, [Next]_vars
    PROVE  Succession'
<1> SUFFICES ASSUME Calm'
             PROVE  Succession'
  BY DEF Succession
<1>1. Calm
  BY MishapsGrow DEF Calm
<1>2. Flows'
  BY StepFlows
<1>3. /\ Members # {} => Owners # {}
      /\ \A d \in Conns : OwnerKnown(d) /\ Alone(d)
  BY <1>1 DEF Succession, OwnerKnown
<1>4. ASSUME NEW c \in Conns, NEW S \in SUBSET Users, CreateGroup(c, S)
      PROVE  Succession'
  <2>1. Owners' # {}
    BY <1>4, RowsCreated
  <2>2. ~exists
    BY <1>4 DEF CreateGroup
  <2>3. \A d \in Conns : op'[d].kind \notin Changing
    BY <1>4, <2>2, CreateMoves DEF Flows, Flow, Changing
  <2>4. \A d \in Conns : OwnerKnown(d)'
    BY <1>2, <2>3 DEF Flows, Flow, OwnerKnown, Alone, Changing
  <2>5. QED
    BY <2>1, <2>4 DEF Succession
<1>5. ASSUME NEW c \in Conns, NEW kind \in Changing, Note(c, kind), op'[c].kind = kind,
             \A d \in Conns \ {c} : op'[d] = op[d], account' = account,
             UNCHANGED groupVars,
             kind = "leave" => op'[c].step \in {"successor", "remove"}
                                  /\ (op'[c].step = "remove" => Self(c) \notin Owners),
             kind = "invite" => Members # {} /\ op'[c].step = "count",
             kind = "kick" => op'[c].step = "role"
      PROVE  Succession'
  <2>1. role' = role /\ Members' = Members /\ Owners' = Owners /\ Self(c)' = Self(c)
    BY <1>5, RowsKept DEF groupVars, Self
  <2>2. \A d \in Conns : Alone(d)'
    BY <1>3, <1>5, StartsAlone
  <2>3. \A d \in Conns \ {c} : OwnerKnown(d)'
    BY <1>3, <1>5, <2>1, <2>2, KnownStays
  <2>4. OwnerKnown(c)'
    BY <1>5, <2>1, <2>2 DEF OwnerKnown, Changing
  <2>5. QED
    BY <1>3, <2>1, <2>3, <2>4 DEF Succession
<1>6. ASSUME NEW c \in Conns, NEW S \in SUBSET Users, Invite(c, S)
      PROVE  Succession'
  <2>1. Note(c, "invite") /\ UNCHANGED groupVars /\ Members # {}
    BY <1>6 DEF Invite
  <2>2. QED
    BY <1>5, <1>6, <2>1, InviteMoves DEF Changing
<1>7. ASSUME NEW c \in Conns, Leave(c)
      PROVE  Succession'
  <2>1. Note(c, "leave") /\ UNCHANGED groupVars
    BY <1>7 DEF Leave
  <2>2. Self(c) \in Owners => role[Self(c)] = "owner"
    BY DEF Owners
  <2>3. op'[c].step \in {"successor", "remove"}
           /\ (op'[c].step = "remove" => Self(c) \notin Owners)
    BY <1>7, <2>2, LeaveMoves
  <2>4. QED
    BY <1>5, <1>7, <2>1, <2>3, LeaveMoves DEF Changing
<1>8. ASSUME NEW c \in Conns, NEW u \in Users, Kick(c, u)
      PROVE  Succession'
  <2>1. Note(c, "kick") /\ UNCHANGED groupVars
    BY <1>8 DEF Kick
  <2>2. QED
    BY <1>5, <1>8, <2>1, KickMoves DEF Changing
<1>9. CASE ServerCrash
  <2>1. Members' = Members /\ Owners' = Owners
    BY <1>9, RowsKept DEF ServerCrash, groupVars
  <2>2. \A d \in Conns : op'[d].kind \notin Changing
    BY <1>9 DEF ServerCrash, Idle, Changing
  <2>3. \A d \in Conns : OwnerKnown(d)'
    BY <1>2, <2>2 DEF Flows, Flow, OwnerKnown, Alone, Changing
  <2>4. QED
    BY <1>3, <2>1, <2>3 DEF Succession
<1>10. CASE UNCHANGED vars
  <2>1. role' = role /\ op' = op /\ account' = account
    BY <1>10 DEF vars, groupVars
  <2>2. QED
    BY <1>3, <2>1, RowsKept DEF Succession, OwnerKnown, Alone, Self
<1>11. QED
  BY <1>1, <1>4, <1>6, <1>7, <1>8, <1>9, <1>10, HandlerSuccession DEF Next

\* What one leave knows of the other owners lasts while the rows do.
LEMMA LeftStays ==
    ASSUME NEW c \in Conns, OwnersLeft(c), op'[c] = op[c], account' = account,
           Owners' = Owners
    PROVE  OwnersLeft(c)'
BY DEF OwnersLeft, Self, AtMostOne

\* Requests that are not in the middle of a leave neither make an owner nor let
\* one of two go unnoticed.
LEMMA OthersKeepOneOwner ==
    ASSUME TypeOK, OneOwner, Calm, "crash" \notin mishaps,
           NEW c \in Conns, op[c].kind # "leave", op'[c].kind # "leave",
           \A d \in Conns \ {c} : op'[d] = op[d], account' = account,
           Owners' = Owners
    PROVE  OneOwner'
<1>1. /\ \A d \in Conns : OwnersLeft(d)
      /\ AtMostOne(Owners) \/ \E d \in Conns : op[d].kind = "leave"
  BY DEF OneOwner
<1>2. \A d \in Conns \ {c} : OwnersLeft(d)'
  BY <1>1, LeftStays
<1>3. OwnersLeft(c)'
  BY DEF OwnersLeft
<1>4. AtMostOne(Owners)' \/ \E d \in Conns : op'[d].kind = "leave"
  BY <1>1 DEF AtMostOne
<1>5. QED
  BY <1>2, <1>3, <1>4 DEF OneOwner

LEMMA HandlerOneOwner ==
    ASSUME TypeOK, Flows, Succession, OneOwner, NEW c \in Conns, Handler(c),
           Calm, Calm', "crash" \notin mishaps
    PROVE  OneOwner'
<1>1. /\ \A d \in Conns \ {c} : op'[d] = op[d]
      /\ op'[c].kind \in {op[c].kind, "idle"}
      /\ account' = account
      /\ \A d \in Conns : Self(d)' = Self(d)
  BY HandlerMoves DEF Self
<1>2. /\ \A d \in Conns : OwnersLeft(d) /\ Alone(d) /\ Flow(d)
      /\ AtMostOne(Owners) \/ \E d \in Conns : op[d].kind = "leave"
  BY DEF OneOwner, Succession, OwnerKnown, Flows
<1>3. CASE op[c].kind # "leave" /\ Owners' = Owners
  BY <1>1, <1>3, OthersKeepOneOwner
<1>4. CASE op[c].kind # "leave" /\ Owners' # Owners
  <2>1. RemoveMember(c) /\ op[c].kind = "kick"
    <3>1. ~InviteInsert(c)
      BY <1>4, RowInserted
    <3>2. ~LeaveTransfer(c)
      BY <1>2, <1>4 DEF LeaveTransfer, At, Flow
    <3>3. RemoveMember(c)
      BY <1>4, <3>1, <3>2, RowsChange, RowsKept
    <3>4. QED
      BY <1>2, <1>4, <3>3 DEF RemoveMember, At, Flow
  <2>2. \A d \in Conns : op[d].kind # "leave"
    BY <1>2, <2>1 DEF Alone, Changing
  <2>3. Owners' \subseteq Owners
    BY <2>1, RowRemoved
  <2>4. AtMostOne(Owners)'
    BY <1>2, <2>2, <2>3 DEF AtMostOne
  <2>5. \A d \in Conns : OwnersLeft(d)'
    BY <1>1, <1>4, <2>2 DEF OwnersLeft
  <2>6. QED
    BY <2>4, <2>5 DEF OneOwner
<1>5. CASE op[c].kind = "leave"
  <2>1. ASSUME NEW d \in Conns \ {c}
        PROVE  OwnersLeft(d)'
    BY <1>1, <1>2, <1>5 DEF Alone, Changing, OwnersLeft
  <2>2. /\ AtMostOne(Owners \ {Self(c)})
        /\ op[c].step \in {"successor", "transfer"} => Owners \subseteq {Self(c)}
        /\ op[c].step \in {"post", "notify"} => AtMostOne(Owners)
    BY <1>2, <1>5 DEF OwnersLeft
  <2>3. ASSUME op'[c].kind = "leave", OwnersLeft(c)'
        PROVE  OneOwner'
    BY <2>1, <2>3 DEF OneOwner
  <2>4. ASSUME AtMostOne(Owners), Owners' = Owners, op'[c].kind = "idle"
        PROVE  OneOwner'
    BY <2>1, <2>4 DEF OneOwner, OwnersLeft, AtMostOne
  <2>5. CASE LeaveSuccessor(c)
    <3>1. Owners' = Owners
      BY <2>5, RowsKept DEF LeaveSuccessor
    <3>2. /\ op[c].step = "successor" /\ op'[c].kind = "leave"
          /\ op'[c].step \in {"remove", "transfer"}
      BY <1>5, <2>5, SuccessorChosen
    <3>3. OwnersLeft(c)'
      BY <1>1, <2>2, <3>1, <3>2 DEF OwnersLeft, AtMostOne
    <3>4. QED
      BY <2>3, <3>2, <3>3
  <2>6. CASE LeaveTransfer(c)
    <3>1. /\ op[c].step = "transfer" /\ op'[c].kind = "leave"
          /\ op'[c].step = "postTransfer"
      BY <1>5, <2>6, NextStep DEF LeaveTransfer, At, Steps
    <3>2. Owners' \subseteq {Self(c), op[c].target}
      BY <2>2, <2>6, <3>1, RoleTransferred
    <3>3. OwnersLeft(c)'
      BY <1>1, <3>1, <3>2 DEF OwnersLeft, AtMostOne
    <3>4. QED
      BY <2>3, <3>1, <3>3
  <2>7. CASE LeaveTransferFails(c)
    BY <2>7 DEF LeaveTransferFails, Calm
  <2>8. CASE RemoveMember(c)
    <3>1. op'[c].kind = "leave" /\ op'[c].step = "post"
      <4>1. GoTo(c, "post")
        BY <2>8 DEF RemoveMember
      <4>2. QED
        BY <1>5, <4>1, NextStep DEF Steps
    <3>2. Owners' = Owners \ {Self(c)}
      BY <1>5, <2>8, RowRemoved DEF Removed
    <3>3. OwnersLeft(c)'
      BY <1>1, <2>2, <3>1, <3>2 DEF OwnersLeft, AtMostOne
    <3>4. QED
      BY <2>3, <3>1, <3>3
  <2>9. CASE RemoveFails(c)
    <3>1. op'[c].kind = "idle" /\ Owners' = Owners
      BY <2>9, RequestEnds, RowsKept DEF RemoveFails
    <3>2. Self(c) \notin Members
      BY <1>5, <2>9 DEF RemoveFails, Removed, Calm
    <3>3. AtMostOne(Owners)
      BY <2>2, <3>2 DEF AtMostOne, Owners, Members
    <3>4. QED
      BY <2>4, <3>1, <3>3
  <2>10. CASE PostSystemMessage(c) \/ PostFails(c)
    <3>1. Owners' = Owners
      BY <2>10, RowsKept DEF PostSystemMessage, PostFails
    <3>2. /\ op'[c].kind = "leave"
          /\ \/ op[c].step = "postTransfer" /\ op'[c].step = "notifyTransfer"
             \/ op[c].step = "post" /\ op'[c].step = "notify"
      BY <1>5, <2>10, NextStep DEF PostSystemMessage, PostFails, At, Steps
    <3>3. OwnersLeft(c)'
      BY <1>1, <2>2, <3>1, <3>2 DEF OwnersLeft, AtMostOne
    <3>4. QED
      BY <2>3, <3>2, <3>3
  <2>11. CASE NotifyChanged(c)
    <3>1. Owners' = Owners
      BY <2>11, RowsKept DEF NotifyChanged
    <3>2. CASE At(c, "notifyTransfer") /\ GoTo(c, "remove")
      <4>1. op'[c].kind = "leave" /\ op'[c].step = "remove"
        BY <1>5, <3>2, NextStep DEF Steps
      <4>2. OwnersLeft(c)'
        BY <1>1, <2>2, <3>1, <4>1 DEF OwnersLeft, AtMostOne
      <4>3. QED
        BY <2>3, <4>1, <4>2
    <3>3. CASE At(c, "notify") /\ Return(c)
      BY <2>2, <2>4, <3>1, <3>3, RequestEnds DEF At
    <3>4. QED
      BY <2>11, <3>2, <3>3 DEF NotifyChanged
  <2>12. QED
    BY <1>2, <1>5, <2>5, <2>6, <2>7, <2>8, <2>9, <2>10, <2>11
    DEF Handler, Flow, InviteCount, InviteDone, InviteInsert, InviteInsertFails,
        KickMyRole, KickTargetRole, At
<1>6. QED
  BY <1>3, <1>4, <1>5

LEMMA StepOneOwner ==
    ASSUME TypeOK, Flows, Succession, Succession', OneOwner, [Next]_vars
    PROVE  OneOwner'
<1> SUFFICES ASSUME Calm', "crash" \notin mishaps'
             PROVE  OneOwner'
  BY DEF OneOwner
<1>1. Calm /\ "crash" \notin mishaps
  BY MishapsGrow DEF Calm
<1>2. /\ \A d \in Conns : OwnersLeft(d)
      /\ AtMostOne(Owners) \/ \E d \in Conns : op[d].kind = "leave"
  BY <1>1 DEF OneOwner
<1>3. ASSUME NEW c \in Conns, NEW S \in SUBSET Users, CreateGroup(c, S)
      PROVE  OneOwner'
  <2>1. Owners' = {Self(c)}
    BY <1>3, RowsCreated
  <2>2. ~exists
    BY <1>3 DEF CreateGroup
  <2>3. \A d \in Conns : op'[d].kind # "leave"
    BY <1>3, <2>2, CreateMoves DEF Flows, Flow
  <2>4. QED
    BY <2>1, <2>3 DEF OneOwner, OwnersLeft, AtMostOne
<1>4. ASSUME NEW c \in Conns, NEW S \in SUBSET Users, Invite(c, S)
      PROVE  OneOwner'
  <2>1. Owners' = Owners
    BY <1>4, RowsKept DEF Invite, groupVars
  <2>2. QED
    BY <1>1, <1>4, <2>1, InviteMoves, OthersKeepOneOwner
<1>5. ASSUME NEW c \in Conns, NEW u \in Users, Kick(c, u)
      PROVE  OneOwner'
  <2>1. Owners' = Owners
    BY <1>5, RowsKept DEF Kick, groupVars
  <2>2. QED
    BY <1>1, <1>5, <2>1, KickMoves, OthersKeepOneOwner
<1>6. ASSUME NEW c \in Conns, Leave(c)
      PROVE  OneOwner'
  <2>1. /\ Owners' = Owners /\ Self(c)' = Self(c)
        /\ op[c].kind = "idle" /\ op'[c].kind = "leave"
        /\ op'[c].step = IF role[Self(c)] = "owner" THEN "successor" ELSE "remove"
        /\ \A d \in Conns \ {c} : op'[d] = op[d] /\ account' = account
    BY <1>6, LeaveMoves, RowsKept DEF Leave, groupVars, Self
  <2>2. \A d \in Conns : op[d].kind # "leave"
    BY <2>1 DEF Succession, OwnerKnown, Alone, Changing
  <2>3. AtMostOne(Owners)
    BY <1>2, <2>2
  <2>4. role[Self(c)] = "owner" => Self(c) \in Owners
    BY DEF TypeOK, Self, Owners
  <2>5. OwnersLeft(c)'
    BY <2>1, <2>3, <2>4 DEF OwnersLeft, AtMostOne
  <2>6. \A d \in Conns \ {c} : OwnersLeft(d)'
    BY <2>1, <2>2 DEF OwnersLeft
  <2>7. QED
    BY <2>1, <2>5, <2>6 DEF OneOwner
<1>7. CASE ServerCrash
  BY <1>7 DEF ServerCrash
<1>8. CASE UNCHANGED vars
  <2>1. role' = role /\ op' = op /\ account' = account
    BY <1>8 DEF vars, groupVars
  <2>2. QED
    BY <1>2, <2>1, RowsKept DEF OneOwner, OwnersLeft, AtMostOne, Self
<1>9. QED
  BY <1>1, <1>3, <1>4, <1>5, <1>6, <1>7, <1>8, HandlerOneOwner DEF Next

-----------------------------------------------------------------------------
(***************************************************************************)
(* The theorems.                                                           *)
(***************************************************************************)
LEMMA IdleRequest == Idle.kind = "idle" /\ Idle.step = "idle"
BY DEF Idle

LEMMA InitGroupInv == Init => GroupInv
<1> SUFFICES ASSUME Init
             PROVE  GroupInv
  OBVIOUS
<1>1. TypeOK
  BY InitTyped
<1>2. /\ Members = {} /\ Owners = {} /\ mishaps = {}
      /\ \A c \in Conns : /\ op[c].kind = "idle" /\ op[c].step = "idle"
                           /\ owed[c] = {}
  BY IdleRequest DEF Init, Members, Owners
<1>3. \A c \in Conns : Flow(c)
  BY <1>2 DEF Flow
<1>4. Room
  <2>1. Inserting = {}
    BY <1>2 DEF Inserting
  <2>2. Cardinality(Conns) \in Nat /\ MaxMembers \in Nat \ {0}
    BY ConnectionsCounted, GroupConstants
  <2>3. QED
    BY <1>2, <2>1, <2>2, FS_EmptySet DEF Room
<1>5. Debts
  BY <1>2 DEF Debts, Owed
<1>6. Succession
  BY <1>2, <1>3, NothingKnown DEF Succession, Changing
<1>7. OneOwner
  BY <1>2 DEF OneOwner, OwnersLeft, AtMostOne
<1>8. QED
  BY <1>1, <1>3, <1>4, <1>5, <1>6, <1>7 DEF GroupInv, Flows

LEMMA StepGroupInv == GroupInv /\ [Next]_vars => GroupInv'
BY StepTyped, StepFlows, StepRoom, StepDebts, StepSuccession, StepOneOwner DEF GroupInv

LEMMA AlwaysGroupInv == Spec => []GroupInv
BY InitGroupInv, StepGroupInv, PTL DEF Spec

\* The state of the group and of the requests stays well-formed, and a group
\* that does not exist has no members.
THEOREM GroupTypeCorrect == Spec => []TypeOK
<1>1. GroupInv => TypeOK
  BY DEF GroupInv
<1>2. QED
  BY AlwaysGroupInv, <1>1, PTL

\* MaxGroupMembers is passed by less than the number of connections, however
\* many handler threads insert at the same time (addGroupMembers).
THEOREM GroupKeepsLimit == Spec => []MemberLimit
<1>1. GroupInv => MemberLimit
  <2>1. Cardinality(Inserting) \in Nat /\ Cardinality(Conns) \in Nat
    BY ConnectionsCounted DEF Inserting
  <2>2. QED
    BY <2>1, MembersCounted, GroupConstants DEF GroupInv, Room, MemberLimit
<1>2. QED
  BY AlwaysGroupInv, <1>1, PTL

\* Whoever is a member from a change to the end of the request that made it has
\* been sent both notices, unless the server died, an insertion failed, or the
\* system message could not be stored (postGroupSystemMessage and
\* notifyGroupChanged).
THEOREM GroupChangesAnnounced == Spec => []Announced
<1>1. GroupInv => Announced
  <2>1. ASSUME Debts, TypeOK, NEW c \in Conns, op[c] = Idle, owed[c] # {}, ~Lost
        PROVE  "message" \in mishaps /\ owed[c] \subseteq {"system"} \X Users
    <3>1. op[c].step = "idle"
      BY <2>1, IdleRequest
    <3>2. /\ owed[c] \subseteq {"system"} \X Users
          /\ (\E u \in Users : <<"system", u>> \in owed[c]) => "message" \in mishaps
      BY <2>1, <3>1 DEF Debts, Owed, OpenSteps
    <3>3. QED
      BY <2>1, <3>2
  <2>2. QED
    BY <2>1 DEF GroupInv, Announced, Lost
<1>2. QED
  BY AlwaysGroupInv, <1>1, PTL

\* A group with members has an owner, at every statement of every interleaving,
\* unless a leave overlapped another change or the update of the successor's
\* role failed (processLeaveGroupRequest).
THEOREM GroupStaysOwned == Spec => []OwnedUnlessRaced
<1>1. GroupInv => OwnedUnlessRaced
  BY DEF GroupInv, Succession, OwnedUnlessRaced, Calm
<1>2. QED
  BY AlwaysGroupInv, <1>1, PTL

\* There is one owner at most outside a leave, unless the server died in the
\* middle of one, a statement failed or changes overlapped.
THEOREM GroupHasOneOwner == Spec => []SingleOwner
<1>1. GroupInv => SingleOwner
  <2>1. ASSUME TypeOK, OneOwner, Calm, "crash" \notin mishaps,
               \A c \in Conns : op[c].kind # "leave"
        PROVE  Cardinality(Owners) <= 1
    <3>1. AtMostOne(Owners)
      BY <2>1 DEF OneOwner
    <3>2. CASE Owners = {}
      BY <3>2, FS_EmptySet
    <3>3. CASE Owners # {}
      <4>1. PICK u : Owners = {u}
        BY <3>1, <3>3 DEF AtMostOne
      <4>2. QED
        BY <4>1, FS_Singleton
    <3>4. QED
      BY <3>2, <3>3
  <2>2. QED
    BY <2>1 DEF GroupInv, SingleOwner, Calm
<1>2. QED
  BY AlwaysGroupInv, <1>1, PTL
=============================================================================
