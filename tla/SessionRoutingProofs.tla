------------------------ MODULE SessionRoutingProofs ------------------------
(***************************************************************************)
(* Machine-checked proofs about SessionRouting, for any number of          *)
(* accounts, devices, connections and session ids.                         *)
(*                                                                         *)
(* The safety properties are not inductive: that a route belongs to its    *)
(* owner rests on what the queued events say, that on what the running     *)
(* requests remember, and that on what the connections hold.  IInv says    *)
(* all of it at once.                                                      *)
(***************************************************************************)
EXTENDS SessionRouting, TLAPS

USE SessionConstants

(***************************************************************************)
(* The inductive invariant.                                                *)
(***************************************************************************)

\* Rows in use name an account and a connection that was accepted.
RowInv ==
    \A s \in Sids : s < nextSid =>
        /\ row[s].user \in Users
        /\ row[s].conn \in Conns
        /\ phase[row[s].conn] \in {"open", "closed"}

\* Every row that can be read has been inserted.
LiveInv == \A s \in Sids : row[s].live => s < nextSid

\* Both session ids of a connection are its own and of its account.
ConnInv ==
    \A h \in Conns :
        /\ cur[h] # 0 => /\ cur[h] < nextSid
                         /\ row[cur[h]].conn = h
                         /\ row[cur[h]].user = auth[h]
                         /\ phase[h] = "open" => key[h] # 0
        /\ key[h] # 0 => /\ key[h] < nextSid
                         /\ row[key[h]].conn = h
                         /\ row[key[h]].user = auth[h]
                         /\ phase[h] = "open"

Terminating == {"termDelete", "termLogout", "termKick"}
Renewing == {"renewDelete", "renewCreate"}

\* What a running request knows of the session it works on.
OpInv ==
    \A h \in Conns :
        /\ op[h].step # "idle" => /\ phase[h] = "open"
                                  /\ op[h].sid # 0
                                  /\ op[h].sid < nextSid
        /\ op[h].step = "login" => /\ row[op[h].sid].conn = h
                                   /\ key[h] # op[h].sid
        /\ op[h].step \in Renewing => cur[h] # 0
        /\ op[h].step \in Terminating => row[op[h].sid].user = auth[h]
        /\ op[h].step \in {"termLogout", "termKick"} => op[h].sid \in terminated

\* Session s was terminated, or its connection has moved on from the login
\* that created it.
Over(s) ==
    \/ s \in terminated
    \/ /\ key[row[s].conn] # s
       /\ op[row[s].conn] # [step |-> "login", sid |-> s]

EventOK(e) ==
    /\ e.type \in {"in", "out", "terminated"} => /\ e.sid # 0
                                                /\ e.sid < nextSid
                                                /\ e.user = row[e.sid].user
    /\ e.type = "in" => e.conn = row[e.sid].conn
    /\ e.type = "out" => Over(e.sid)
    /\ e.type = "finished" => phase[e.conn] = "failed"

QueueInv == \A i \in 1 .. Len(inbox) : EventOK(inbox[i])

RouteInv ==
    \A s \in Sids :
        /\ \A u \in Users : s \in online[u] => s < nextSid /\ row[s].user = u
        /\ handlerOf[s] # NoConn => s < nextSid /\ handlerOf[s] = row[s].conn

\* The login session of a connection is routed, or about to be.
KeyInv ==
    \A h \in Conns :
        key[h] # 0 /\ key[h] \notin terminated =>
            Queued("in", key[h]) \/ Routed(h, key[h])

IInv ==
    /\ TypeOK /\ RowInv /\ LiveInv /\ ConnInv /\ OpInv
    /\ QueueInv /\ RouteInv /\ KeyInv

LEMMA InitInv == Init => IInv
  BY DEF Init, IInv, TypeOK, RowInv, LiveInv, ConnInv, OpInv, QueueInv, RouteInv, KeyInv,
         Sids, Idle, Unissued, Rows, Ops, Events, Renewing, Terminating

-----------------------------------------------------------------------------
(***************************************************************************)
(* The event queue.                                                        *)
(***************************************************************************)

LEMMA EmitQueue ==
  ASSUME TypeOK, NEW e \in Events, Emit(e)
  PROVE  /\ inbox' \in Seq(Events)
         /\ Len(inbox') = Len(inbox) + 1
         /\ \A i \in 1 .. Len(inbox) : inbox'[i] = inbox[i]
         /\ inbox'[Len(inbox) + 1] = e
  BY DEF TypeOK, Emit

LEMMA TakeQueue ==
  ASSUME TypeOK, NEW type, Take(type)
  PROVE  /\ inbox' \in Seq(Events)
         /\ Len(inbox) \in Nat /\ Len(inbox) > 0
         /\ Len(inbox') = Len(inbox) - 1
         /\ \A i \in 1 .. Len(inbox') : inbox'[i] = inbox[i + 1]
         /\ Head(inbox) = inbox[1]
         /\ Head(inbox) \in Events
         /\ Head(inbox).type = type
  BY DEF TypeOK, Take

-----------------------------------------------------------------------------
(***************************************************************************)
(* Type correctness.                                                       *)
(***************************************************************************)

LEMMA CreateType ==
  ASSUME TypeOK, NEW h \in Conns, NEW u \in Users, NEW d \in Devices \cup {NoDevice},
         CreateSession(h, u, d)
  PROVE  /\ nextSid \in Sids
         /\ nextSid' \in 1 .. MaxSession + 1
         /\ row' \in [Sids -> Rows]
  BY DEF TypeOK, CreateSession, Sids, Rows

LEMMA FlagType ==
  ASSUME NEW r \in Rows
  PROVE  [r EXCEPT !.live = FALSE] \in Rows /\ [r EXCEPT !.expired = TRUE] \in Rows
  BY DEF Rows

LEMMA FlagOwner ==
  ASSUME NEW r \in Rows, NEW q, \/ q = r
                               \/ q = [r EXCEPT !.live = FALSE]
                               \/ q = [r EXCEPT !.expired = TRUE]
  PROVE  q.user = r.user /\ q.conn = r.conn /\ (q.live => r.live)
  BY DEF Rows

LEMMA DeleteType ==
  ASSUME TypeOK, NEW s \in 0 .. MaxSession, DeleteSession(s)
  PROVE  /\ nextSid' \in 1 .. MaxSession + 1
         /\ row' \in [Sids -> Rows]
<1>1. row' = [row EXCEPT ![s] = [row[s] EXCEPT !.live = FALSE]]
  BY DEF DeleteSession
<1>2. row' \in [Sids -> Rows]
  BY <1>1, FlagType DEF TypeOK
<1> QED
  BY <1>2 DEF TypeOK, DeleteSession

LEMMA AdvanceType ==
  ASSUME TypeOK, NEW h \in Conns, NEW s \in 0 .. MaxSession,
         NEW step \in {"login", "renewDelete", "renewCreate", "termDelete",
                       "termLogout", "termKick"},
         Advance(h, step, s)
  PROVE  op' \in [Conns -> Ops]
  BY DEF TypeOK, Advance, Ops

LEMMA FinishType ==
  ASSUME TypeOK, NEW h \in Conns, Finish(h)
  PROVE  op' \in [Conns -> Ops]
  BY DEF TypeOK, Finish, Ops, Idle

\* The session a running request works on is a row of the table.
LEMMA OpSid ==
  ASSUME IInv, NEW h \in Conns, op[h].step # "idle"
  PROVE  /\ op[h].sid \in Sids
         /\ row[op[h].sid] \in Rows
         /\ row[op[h].sid].user \in Users
         /\ row[op[h].sid].device \in Devices \cup {NoDevice}
  BY DEF IInv, TypeOK, OpInv, RowInv, Ops, Rows, Sids

\* A connection that holds a session is logged in as an account.
LEMMA CurUser ==
  ASSUME IInv, NEW h \in Conns, cur[h] # 0
  PROVE  cur[h] \in Sids /\ auth[h] \in Users
<1>1. cur[h] \in Sids /\ cur[h] < nextSid /\ row[cur[h]].user = auth[h]
  BY DEF IInv, TypeOK, ConnInv, Sids
<1> QED
  BY <1>1 DEF IInv, RowInv

LEMMA LeaveType ==
  ASSUME IInv, NEW h \in Conns, Leave(h)
  PROVE  TypeOK'
<1>1. Event("out", h, auth[h], cur[h]) \in Events
  BY DEF Event, Events, IInv, TypeOK
<1>2. inbox' \in Seq(Events)
  BY <1>1, EmitQueue DEF Leave, IInv, TypeOK
<1> QED
  BY <1>2 DEF IInv, TypeOK, Leave, tableVars, serverVars

LEMMA RequestType ==
  ASSUME IInv, NEW h \in Conns, Request(h)
  PROVE  TypeOK'
<1> USE DEF IInv
<1>1. CASE Accept(h)
  BY <1>1 DEF TypeOK, Accept, tableVars, serverVars
<1>2. CASE InitFails(h)
  <2>1. Event("finished", h, NoUser, 0) \in Events
    BY DEF Event, Events
  <2> QED
    BY <1>2, <2>1, EmitQueue DEF TypeOK, InitFails, tableVars, serverVars
<1>3. CASE PeerLeaves(h)
  BY <1>3, LeaveType DEF PeerLeaves
<1>4. ASSUME NEW u \in Users, NEW d \in Devices, LoginCreate(h, u, d)
      PROVE  TypeOK'
  <2>1. /\ nextSid \in Sids
        /\ nextSid' \in 1 .. MaxSession + 1
        /\ row' \in [Sids -> Rows]
    BY <1>4, CreateType DEF LoginCreate
  <2>2. op' \in [Conns -> Ops]
    BY <1>4, <2>1, AdvanceType DEF LoginCreate, Sids
  <2> QED
    BY <1>4, <2>1, <2>2 DEF TypeOK, LoginCreate, serverVars
<1>5. CASE Logout(h)
  <2>1. cur[h] \in 0 .. MaxSession
    BY DEF TypeOK
  <2>2. /\ nextSid' \in 1 .. MaxSession + 1
        /\ row' \in [Sids -> Rows]
    BY <1>5, <2>1, DeleteType DEF Logout
  <2>3. Event("out", h, auth[h], cur[h]) \in Events
    BY DEF Event, Events, TypeOK
  <2>4. inbox' \in Seq(Events)
    BY <1>5, <2>3, EmitQueue DEF Logout
  <2> QED
    BY <1>5, <2>2, <2>4 DEF TypeOK, Logout, serverVars
<1>6. CASE RenewCheck(h)
  <2>1. op' \in [Conns -> Ops]
    BY <1>6, AdvanceType DEF RenewCheck, TypeOK
  <2> QED
    BY <1>6, <2>1 DEF TypeOK, RenewCheck, tableVars, serverVars
<1>7. ASSUME NEW s \in 0 .. MaxSession, NEW d \in Devices \cup {NoDevice},
             TerminateResolve(h, s, d)
      PROVE  TypeOK'
  <2>1. op' \in [Conns -> Ops]
    BY <1>7, AdvanceType DEF TerminateResolve, Sids
  <2> QED
    BY <1>7, <2>1 DEF TypeOK, TerminateResolve, tableVars, serverVars
<1>8. ASSUME NEW u \in Users, Push(h, u) PROVE TypeOK'
  <2>1. Event("message", h, u, 0) \in Events
    BY DEF Event, Events
  <2> QED
    BY <1>8, <2>1, EmitQueue DEF TypeOK, Push, tableVars, handlerVars, serverVars
<1> QED
  BY <1>1, <1>2, <1>3, <1>4, <1>5, <1>6, <1>7, <1>8 DEF Request

LEMMA HandlerStepType ==
  ASSUME IInv, NEW h \in Conns, HandlerStep(h)
  PROVE  TypeOK'
<1> USE DEF IInv
<1>1. CASE LoginFinish(h)
  <2>1. /\ op[h].sid \in Sids
        /\ row[op[h].sid].user \in Users
        /\ row[op[h].sid].device \in Devices \cup {NoDevice}
    BY <1>1, OpSid DEF LoginFinish
  <2>2. Event("in", h, row[op[h].sid].user, op[h].sid) \in Events
    BY <2>1 DEF Event, Events, Sids
  <2>3. inbox' \in Seq(Events)
    BY <1>1, <2>2, EmitQueue DEF LoginFinish
  <2>4. op' \in [Conns -> Ops]
    BY <1>1, FinishType DEF LoginFinish
  <2>5. /\ auth' \in [Conns -> Users \cup {NoUser}]
        /\ cur' \in [Conns -> 0 .. MaxSession]
        /\ dev' \in [Conns -> Devices \cup {NoDevice}]
        /\ key' \in [Conns -> 0 .. MaxSession]
    BY <1>1, <2>1 DEF LoginFinish, TypeOK, Sids
  <2> QED
    BY <1>1, <2>3, <2>4, <2>5 DEF TypeOK, LoginFinish, tableVars, serverVars
<1>2. CASE RenewDelete(h)
  <2>1. op[h].sid \in 0 .. MaxSession
    BY DEF TypeOK, Ops
  <2>2. op' \in [Conns -> Ops]
    BY <1>2, <2>1, AdvanceType DEF RenewDelete
  <2>3. /\ nextSid' \in 1 .. MaxSession + 1
        /\ row' \in [Sids -> Rows]
    BY <1>2, <2>1, DeleteType DEF RenewDelete
  <2> QED
    BY <1>2, <2>2, <2>3 DEF TypeOK, RenewDelete, serverVars
<1>3. CASE RenewCreate(h)
  <2>1. cur[h] # 0
    BY <1>3 DEF RenewCreate, OpInv, Renewing
  <2>5. auth[h] \in Users /\ dev[h] \in Devices \cup {NoDevice}
    BY <2>1, CurUser DEF TypeOK
  <2>2. /\ nextSid \in Sids
        /\ nextSid' \in 1 .. MaxSession + 1
        /\ row' \in [Sids -> Rows]
    BY <1>3, <2>5, CreateType DEF RenewCreate
  <2>3. op' \in [Conns -> Ops]
    BY <1>3, FinishType DEF RenewCreate
  <2>4. cur' \in [Conns -> 0 .. MaxSession]
    BY <1>3, <2>2 DEF RenewCreate, TypeOK, Sids
  <2> QED
    BY <1>3, <2>2, <2>3, <2>4 DEF TypeOK, RenewCreate, serverVars
<1>4. CASE RenewFails(h)
  <2>1. op' \in [Conns -> Ops]
    BY <1>4, FinishType DEF RenewFails
  <2> QED
    BY <1>4, <2>1 DEF TypeOK, RenewFails, tableVars, serverVars
<1>5. CASE TerminateDelete(h)
  <2>1. op[h].sid \in Sids
    BY <1>5, OpSid DEF TerminateDelete
  <2>2. op' \in [Conns -> Ops]
    BY <1>5, <2>1, AdvanceType DEF TerminateDelete, Sids
  <2>3. /\ nextSid' \in 1 .. MaxSession + 1
        /\ row' \in [Sids -> Rows]
    BY <1>5, <2>1, DeleteType DEF TerminateDelete, Sids
  <2> QED
    BY <1>5, <2>1, <2>2, <2>3 DEF TypeOK, TerminateDelete, serverVars
<1>6. CASE TerminateLogout(h)
  <2>1. op[h].sid \in 0 .. MaxSession
    BY DEF TypeOK, Ops
  <2>2. op' \in [Conns -> Ops]
    BY <1>6, <2>1, AdvanceType DEF TerminateLogout
  <2>3. Event("out", h, auth[h], op[h].sid) \in Events
    BY <2>1 DEF Event, Events, TypeOK
  <2>4. inbox' \in Seq(Events)
    BY <1>6, <2>3, EmitQueue DEF TerminateLogout
  <2> QED
    BY <1>6, <2>2, <2>4 DEF TypeOK, TerminateLogout, tableVars, serverVars
<1>7. CASE TerminateKick(h)
  <2>1. Event("terminated", h, auth[h], op[h].sid) \in Events
    BY DEF Event, Events, TypeOK, Ops
  <2>2. inbox' \in Seq(Events)
    BY <1>7, <2>1, EmitQueue DEF TerminateKick
  <2>3. op' \in [Conns -> Ops]
    BY <1>7, FinishType DEF TerminateKick
  <2> QED
    BY <1>7, <2>2, <2>3 DEF TypeOK, TerminateKick, tableVars, serverVars
<1>8. CASE Kicked(h)
  BY <1>8, LeaveType DEF Kicked
<1> QED
  BY <1>1, <1>2, <1>3, <1>4, <1>5, <1>6, <1>7, <1>8 DEF HandlerStep

LEMMA ServerStepType ==
  ASSUME IInv, ServerStep
  PROVE  TypeOK'
<1> USE DEF IInv
<1> DEFINE e == Head(inbox)
<1>1. CASE OnUserLoggedIn
  <2>1. inbox' \in Seq(Events) /\ e \in Events /\ e = inbox[1] /\ e.type = "in"
        /\ Len(inbox) \in Nat /\ Len(inbox) > 0
    BY <1>1, TakeQueue DEF OnUserLoggedIn
  <2>2. e.sid \in Sids
    BY <2>1 DEF QueueInv, EventOK, Events, Sids
  <2> QED
    BY <1>1, <2>1, <2>2 DEF TypeOK, OnUserLoggedIn, tableVars, handlerVars, Events
<1>2. CASE OnUserLoggedOut
  <2>1. inbox' \in Seq(Events) /\ e \in Events
    BY <1>2, TakeQueue DEF OnUserLoggedOut
  <2> QED
    BY <1>2, <2>1 DEF TypeOK, OnUserLoggedOut, tableVars, handlerVars, Events
<1>3. CASE OnSessionTerminated
  <2>1. inbox' \in Seq(Events)
    BY <1>3, TakeQueue DEF OnSessionTerminated
  <2> QED
    BY <1>3, <2>1 DEF TypeOK, OnSessionTerminated, tableVars, serverVars
<1>4. CASE OnMessageForUser
  BY <1>4, TakeQueue DEF TypeOK, OnMessageForUser, tableVars, handlerVars, serverVars
<1>5. CASE OnHandlerFinished
  <2>1. inbox' \in Seq(Events) /\ e \in Events
    BY <1>5, TakeQueue DEF OnHandlerFinished
  <2>2. userOf' \in [Conns -> Users \cup {NoUser}]
    BY <1>5 DEF OnHandlerFinished, TypeOK
  <2>3. /\ online' \in [Users -> SUBSET Sids]
        /\ handlerOf' \in [Sids -> Conns \cup {NoConn}]
    <3>1. CASE UNCHANGED <<online, handlerOf>>
      BY <3>1 DEF TypeOK
    <3>2. CASE ~UNCHANGED <<online, handlerOf>>
      <4> DEFINE gone == {s \in Sids : handlerOf[s] = e.conn}
      <4>1. /\ online' = [online EXCEPT ![userOf[e.conn]] = @ \ gone]
            /\ handlerOf' = [s \in Sids |-> IF s \in gone THEN NoConn
                                                          ELSE handlerOf[s]]
        BY <1>5, <3>2 DEF OnHandlerFinished
      <4> HIDE DEF gone
      <4> QED
        BY <4>1 DEF TypeOK
    <3> QED
      BY <3>1, <3>2
  <2> QED
    BY <1>5, <2>1, <2>2, <2>3 DEF TypeOK, OnHandlerFinished, tableVars, handlerVars
<1> QED
  BY <1>1, <1>2, <1>3, <1>4, <1>5 DEF ServerStep

LEMMA NextType ==
  ASSUME IInv, [Next]_vars
  PROVE  TypeOK'
<1>1. CASE UNCHANGED vars
  BY <1>1 DEF IInv, TypeOK, vars, tableVars, handlerVars, serverVars
<1>2. ASSUME NEW s \in Sids, Expire(s) PROVE TypeOK'
  <2>1. row' = [row EXCEPT ![s] = [row[s] EXCEPT !.expired = TRUE]]
    BY <1>2 DEF Expire
  <2>2. row' \in [Sids -> Rows]
    BY <2>1, FlagType DEF IInv, TypeOK
  <2> QED
    BY <1>2, <2>2 DEF IInv, TypeOK, Expire, handlerVars, serverVars
<1> QED
  BY <1>1, <1>2, RequestType, HandlerStepType, ServerStepType DEF Next

-----------------------------------------------------------------------------
(***************************************************************************)
(* What no step undoes: rows keep their owner, a failed connection stays   *)
(* failed, and a session id becomes a connection's login session only      *)
(* through a login that was running for it.                                *)
(***************************************************************************)

RowsKept ==
    /\ nextSid <= nextSid'
    /\ \A s \in Sids : s < nextSid => /\ row'[s].user = row[s].user
                                      /\ row'[s].conn = row[s].conn
    /\ \A s \in Sids : row'[s].live => row[s].live \/ s < nextSid'

PhasesKept ==
    \A h \in Conns :
        /\ phase[h] = "failed" => phase'[h] = "failed"
        /\ phase[h] \in {"open", "closed"} => phase'[h] \in {"open", "closed"}

LoginsKept ==
    \A h \in Conns :
        /\ key'[h] \in {key[h], 0} \/ op[h] = [step |-> "login", sid |-> key'[h]]
        /\ op'[h].step = "login" =>
              op'[h] = op[h] \/ (op'[h].sid = nextSid /\ nextSid < nextSid')

Mono == RowsKept /\ terminated \subseteq terminated' /\ PhasesKept /\ LoginsKept

LEMMA CreateRows ==
  ASSUME TypeOK, NEW h, NEW u, NEW d, CreateSession(h, u, d)
  PROVE  /\ RowsKept
         /\ nextSid \in Sids /\ nextSid' = nextSid + 1
         /\ row'[nextSid].user = u /\ row'[nextSid].conn = h
         /\ nextSid < nextSid'
  BY DEF RowsKept, TypeOK, CreateSession, Sids

LEMMA DeleteRows ==
  ASSUME TypeOK, NEW s \in 0 .. MaxSession, DeleteSession(s)
  PROVE  /\ RowsKept
         /\ nextSid' = nextSid
         /\ \A r \in Sids : /\ row'[r].user = row[r].user
                            /\ row'[r].conn = row[r].conn
<1>1. \A r \in Sids : row'[r] = row[r] \/ row'[r] = [row[r] EXCEPT !.live = FALSE]
  BY DEF TypeOK, DeleteSession
<1>2. \A r \in Sids : /\ row'[r].user = row[r].user /\ row'[r].conn = row[r].conn
                     /\ row'[r].live => row[r].live
  BY <1>1, FlagOwner DEF TypeOK
<1> QED
  BY <1>2 DEF RowsKept, DeleteSession, TypeOK

LEMMA SameRows ==
  ASSUME TypeOK, UNCHANGED tableVars
  PROVE  RowsKept
  BY DEF RowsKept, TypeOK, tableVars

LEMMA ExpireRows ==
  ASSUME TypeOK, NEW s \in Sids, Expire(s)
  PROVE  RowsKept
<1>1. \A r \in Sids : row'[r] = row[r] \/ row'[r] = [row[r] EXCEPT !.expired = TRUE]
  BY DEF TypeOK, Expire
<1>2. \A r \in Sids : /\ row'[r].user = row[r].user /\ row'[r].conn = row[r].conn
                     /\ row'[r].live => row[r].live
  BY <1>1, FlagOwner DEF TypeOK
<1> QED
  BY <1>2 DEF RowsKept, Expire, TypeOK

\* Steps that leave the requests and the login sessions alone.
LEMMA SameLogins ==
  ASSUME UNCHANGED <<op, key>>
  PROVE  LoginsKept
  BY DEF LoginsKept

LEMMA NextMono ==
  ASSUME IInv, [Next]_vars
  PROVE  Mono
<1>0. TypeOK
  BY DEF IInv
<1>1. CASE UNCHANGED vars
  BY <1>0, <1>1, SameRows, SameLogins
     DEF Mono, PhasesKept, vars, tableVars, handlerVars, serverVars
<1>2. ASSUME NEW s \in Sids, Expire(s) PROVE Mono
  <2>1. RowsKept
    BY <1>0, <1>2, ExpireRows
  <2> QED
    BY <1>2, <2>1, SameLogins DEF Mono, PhasesKept, Expire, handlerVars
<1>3. CASE ServerStep
  <2>1. UNCHANGED <<row, nextSid, phase, op, key, terminated>>
    BY <1>3 DEF ServerStep, OnUserLoggedIn, OnUserLoggedOut, OnSessionTerminated,
       OnMessageForUser, OnHandlerFinished, tableVars, handlerVars
  <2> QED
    BY <1>0, <2>1, SameRows, SameLogins DEF Mono, PhasesKept, tableVars
<1>4. ASSUME NEW h \in Conns, Leave(h) PROVE Mono
  <2>1. RowsKept
    BY <1>0, <1>4, SameRows DEF Leave
  <2> QED
    BY <1>0, <1>4, <2>1 DEF Mono, PhasesKept, LoginsKept, Leave, Ready, TypeOK
<1>5. ASSUME NEW h \in Conns, Request(h) PROVE Mono
  <2>1. CASE Accept(h)
    <3>1. RowsKept
      BY <1>0, <2>1, SameRows DEF Accept
    <3> QED
      BY <1>0, <2>1, <3>1 DEF Mono, PhasesKept, LoginsKept, Accept, TypeOK
  <2>2. CASE InitFails(h)
    <3>1. RowsKept
      BY <1>0, <2>2, SameRows DEF InitFails
    <3> QED
      BY <1>0, <2>2, <3>1 DEF Mono, PhasesKept, LoginsKept, InitFails, TypeOK
  <2>3. CASE PeerLeaves(h)
    BY <1>4, <2>3 DEF PeerLeaves
  <2>4. ASSUME NEW u \in Users, NEW d \in Devices, LoginCreate(h, u, d)
        PROVE  Mono
    <3>1. RowsKept /\ nextSid < nextSid'
      BY <1>0, <2>4, CreateRows DEF LoginCreate
    <3> QED
      BY <1>0, <2>4, <3>1
         DEF Mono, PhasesKept, LoginsKept, LoginCreate, Advance, TypeOK
  <2>5. CASE Logout(h)
    <3>1. RowsKept
      BY <1>0, <2>5, DeleteRows DEF Logout, TypeOK
    <3> QED
      BY <1>0, <2>5, <3>1 DEF Mono, PhasesKept, LoginsKept, Logout, TypeOK
  <2>6. CASE RenewCheck(h)
    <3>1. RowsKept
      BY <1>0, <2>6, SameRows DEF RenewCheck
    <3> QED
      BY <1>0, <2>6, <3>1
         DEF Mono, PhasesKept, LoginsKept, RenewCheck, Advance, TypeOK
  <2>7. ASSUME NEW s, NEW d, TerminateResolve(h, s, d) PROVE Mono
    <3>1. RowsKept
      BY <1>0, <2>7, SameRows DEF TerminateResolve
    <3>2. /\ UNCHANGED <<phase, key, terminated>>
          /\ \A g \in Conns : op'[g] = op[g] \/ op'[g].step = "termDelete"
      BY <1>0, <2>7 DEF TerminateResolve, Advance, TypeOK
    <3> QED
      BY <3>1, <3>2 DEF Mono, PhasesKept, LoginsKept
  <2>8. ASSUME NEW u \in Users, Push(h, u) PROVE Mono
    <3>1. RowsKept
      BY <1>0, <2>8, SameRows DEF Push
    <3> QED
      BY <2>8, <3>1, SameLogins DEF Mono, PhasesKept, Push, handlerVars
  <2> QED
    BY <1>5, <2>1, <2>2, <2>3, <2>4, <2>5, <2>6, <2>7, <2>8 DEF Request
<1>6. ASSUME NEW h \in Conns, HandlerStep(h) PROVE Mono
  <2>1. CASE LoginFinish(h)
    <3>1. RowsKept
      BY <1>0, <2>1, SameRows DEF LoginFinish
    <3>2. op[h] = [step |-> "login", sid |-> op[h].sid]
      BY <1>0, <2>1 DEF LoginFinish, TypeOK, Ops
    <3> QED
      BY <1>0, <2>1, <3>1, <3>2
         DEF Mono, PhasesKept, LoginsKept, LoginFinish, Finish, Idle, TypeOK
  <2>2. CASE RenewDelete(h)
    <3>1. RowsKept
      BY <1>0, <2>2, DeleteRows DEF RenewDelete, TypeOK, Ops
    <3> QED
      BY <1>0, <2>2, <3>1
         DEF Mono, PhasesKept, LoginsKept, RenewDelete, Advance, TypeOK
  <2>3. CASE RenewCreate(h)
    <3>1. RowsKept
      BY <1>0, <2>3, CreateRows DEF RenewCreate
    <3> QED
      BY <1>0, <2>3, <3>1
         DEF Mono, PhasesKept, LoginsKept, RenewCreate, Finish, Idle, TypeOK
  <2>4. CASE RenewFails(h)
    <3>1. RowsKept
      BY <1>0, <2>4, SameRows DEF RenewFails
    <3> QED
      BY <1>0, <2>4, <3>1
         DEF Mono, PhasesKept, LoginsKept, RenewFails, Finish, Idle, TypeOK
  <2>5. CASE TerminateDelete(h)
    <3>1. RowsKept
      BY <1>0, <2>5, DeleteRows DEF TerminateDelete, TypeOK, Ops
    <3> QED
      BY <1>0, <2>5, <3>1
         DEF Mono, PhasesKept, LoginsKept, TerminateDelete, Advance, TypeOK
  <2>6. CASE TerminateLogout(h)
    <3>1. RowsKept
      BY <1>0, <2>6, SameRows DEF TerminateLogout
    <3> QED
      BY <1>0, <2>6, <3>1
         DEF Mono, PhasesKept, LoginsKept, TerminateLogout, Advance, TypeOK
  <2>7. CASE TerminateKick(h)
    <3>1. RowsKept
      BY <1>0, <2>7, SameRows DEF TerminateKick
    <3> QED
      BY <1>0, <2>7, <3>1
         DEF Mono, PhasesKept, LoginsKept, TerminateKick, Finish, Idle, TypeOK
  <2>8. CASE Kicked(h)
    BY <1>4, <2>8 DEF Kicked
  <2> QED
    BY <1>6, <2>1, <2>2, <2>3, <2>4, <2>5, <2>6, <2>7, <2>8 DEF HandlerStep
<1> QED
  BY <1>1, <1>2, <1>3, <1>5, <1>6 DEF Next

-----------------------------------------------------------------------------
(***************************************************************************)
(* Queued events stay true, and so do the rows and the routes.             *)
(***************************************************************************)

\* What an event says stays true however long it waits.
LEMMA EventStays ==
  ASSUME IInv, Mono, TypeOK', NEW e \in Events, EventOK(e)
  PROVE  EventOK(e)'
<1>1. ASSUME e.type \in {"in", "out", "terminated"}
      PROVE  /\ e.sid \in Sids /\ e.sid < nextSid /\ e.sid < nextSid'
             /\ row'[e.sid].user = row[e.sid].user
             /\ row'[e.sid].conn = row[e.sid].conn
             /\ row[e.sid].conn \in Conns
  <2>1. e.sid \in Sids /\ e.sid < nextSid
    BY <1>1 DEF EventOK, Events, Sids
  <2> QED
    BY <2>1 DEF IInv, RowInv, TypeOK, Mono, RowsKept, Sids
<1>2. ASSUME e.type = "out" PROVE Over(e.sid)'
  <2> DEFINE h == row[e.sid].conn
  <2>1. /\ e.sid \in Sids /\ e.sid < nextSid /\ h \in Conns
        /\ row'[e.sid].conn = h
    BY <1>1, <1>2
  <2>2. CASE e.sid \in terminated
    BY <2>2 DEF Over, Mono
  <2>3. CASE key[h] # e.sid /\ op[h] # [step |-> "login", sid |-> e.sid]
    <3>1. key'[h] # e.sid
      BY <2>1, <2>3 DEF Mono, LoginsKept, Sids
    <3>2. ASSUME op'[h] = [step |-> "login", sid |-> e.sid] PROVE FALSE
      <4>1. op'[h].step = "login" /\ op'[h].sid = e.sid
        BY <3>2
      <4>2. op'[h] = op[h] \/ op'[h].sid = nextSid
        BY <2>1, <4>1 DEF Mono, LoginsKept
      <4> QED
        BY <2>1, <2>3, <3>2, <4>1, <4>2 DEF IInv, TypeOK, Sids
    <3> QED
      BY <2>1, <3>1, <3>2 DEF Over
  <2> QED
    BY <1>2, <2>2, <2>3 DEF EventOK, Over
<1>3. e.type = "finished" => phase'[e.conn] = "failed"
  BY DEF EventOK, Mono, PhasesKept, Events
<1> QED
  BY <1>1, <1>2, <1>3 DEF EventOK

LEMMA QueueStep ==
  ASSUME IInv, Mono, TypeOK',
         \/ UNCHANGED inbox
         \/ \E type : Take(type)
         \/ \E e \in Events : Emit(e) /\ EventOK(e)'
  PROVE  QueueInv'
<1>0. TypeOK /\ QueueInv /\ Len(inbox) \in Nat
      /\ \A i \in 1 .. Len(inbox) : inbox[i] \in Events
  BY DEF IInv, TypeOK
<1>1. \A e \in Events : EventOK(e) => EventOK(e)'
  BY EventStays
<1>2. ASSUME NEW i \in 1 .. Len(inbox')
      PROVE  \E e \in Events : e = inbox'[i] /\ EventOK(e)'
  <2>1. CASE UNCHANGED inbox
    BY <1>0, <1>1, <1>2, <2>1 DEF QueueInv
  <2>2. CASE \E type : Take(type)
    <3>1. i + 1 \in 1 .. Len(inbox) /\ inbox'[i] = inbox[i + 1]
      BY <1>0, <1>2, <2>2, TakeQueue
    <3> QED
      BY <1>0, <1>1, <3>1 DEF QueueInv
  <2>3. ASSUME NEW e \in Events, Emit(e), EventOK(e)'
        PROVE  \E f \in Events : f = inbox'[i] /\ EventOK(f)'
    <3>1. \/ i \in 1 .. Len(inbox) /\ inbox'[i] = inbox[i]
          \/ inbox'[i] = e
      BY <1>0, <1>2, <2>3, EmitQueue
    <3> QED
      BY <1>0, <1>1, <2>3, <3>1 DEF QueueInv
  <2> QED
    BY <2>1, <2>2, <2>3
<1>3. ASSUME NEW i \in 1 .. Len(inbox') PROVE EventOK(inbox[i])'
  <2>1. PICK e \in Events : e = inbox'[i] /\ EventOK(e)'
    BY <1>2, <1>3
  <2> QED
    BY <2>1 DEF EventOK, Over
<1> QED
  BY <1>3 DEF QueueInv

\* The logout of a closing connection: its login session id is forgotten in
\* the same step.
LEMMA LeaveQueue ==
  ASSUME IInv, Mono, TypeOK', NEW h \in Conns, Leave(h)
  PROVE  QueueInv'
<1>1. CASE cur[h] = 0
  BY <1>1, QueueStep DEF Leave
<1>2. CASE cur[h] # 0
  <2>1. PICK e \in Events : e = Event("out", h, auth[h], cur[h])
    BY DEF Event, Events, IInv, TypeOK
  <2>2. Emit(e)
    BY <1>2, <2>1 DEF Leave
  <2>3. /\ cur[h] \in Sids /\ cur[h] < nextSid
        /\ row[cur[h]].conn = h /\ row[cur[h]].user = auth[h]
    BY <1>2 DEF IInv, TypeOK, ConnInv, Sids
  <2>4. /\ e.type = "out" /\ e.user = auth[h] /\ e.sid = cur[h]
        /\ UNCHANGED <<row, nextSid>>
        /\ key'[h] = 0 /\ op'[h] = Idle
    BY <2>1 DEF Leave, tableVars, IInv, TypeOK, Event, Ready
  <2>5. EventOK(e)'
    BY <2>3, <2>4 DEF EventOK, Over, Sids, Idle
  <2> QED
    BY <2>2, <2>5, QueueStep
<1> QED
  BY <1>1, <1>2

LEMMA LogoutQueue ==
  ASSUME IInv, Mono, TypeOK', NEW h \in Conns, Logout(h)
  PROVE  QueueInv'
<1>1. PICK e \in Events : e = Event("out", h, auth[h], cur[h])
  BY DEF Event, Events, IInv, TypeOK
<1>2. Emit(e)
  BY <1>1 DEF Logout
<1>3. /\ cur[h] \in Sids /\ cur[h] < nextSid
      /\ row[cur[h]].conn = h /\ row[cur[h]].user = auth[h]
  BY DEF IInv, TypeOK, ConnInv, Sids, Logout, Validated, SessionValid
<1>4. /\ cur[h] < nextSid'
      /\ row'[cur[h]].conn = h /\ row'[cur[h]].user = auth[h]
  <2>1. DeleteSession(cur[h]) /\ cur[h] \in 0 .. MaxSession
    BY DEF Logout, IInv, TypeOK
  <2> QED
    BY <1>3, <2>1, DeleteRows DEF IInv
<1>5. /\ e.type = "out" /\ e.user = auth[h] /\ e.sid = cur[h]
      /\ key'[h] = 0 /\ op'[h] = Idle
  BY <1>1 DEF Logout, Event, IInv, TypeOK, Ready
<1>6. EventOK(e)'
  BY <1>3, <1>4, <1>5 DEF EventOK, Over, Sids, Idle
<1> QED
  BY <1>2, <1>6, QueueStep

LEMMA NextQueue ==
  ASSUME IInv, [Next]_vars, Mono, TypeOK'
  PROVE  QueueInv'
<1>0. TypeOK
  BY DEF IInv
<1>1. CASE UNCHANGED inbox
  BY <1>1, QueueStep
<1>2. CASE ServerStep
  <2>1. \E type : Take(type)
    BY <1>2 DEF ServerStep, OnUserLoggedIn, OnUserLoggedOut, OnSessionTerminated,
       OnMessageForUser, OnHandlerFinished
  <2> QED
    BY <2>1, QueueStep
<1>3. ASSUME NEW h \in Conns, InitFails(h) PROVE QueueInv'
  <2>0. Event("finished", h, NoUser, 0) \in Events
    BY DEF Event, Events
  <2>1. PICK e \in Events : e = Event("finished", h, NoUser, 0)
    BY <2>0
  <2>2. EventOK(e)'
    BY <1>0, <1>3, <2>1 DEF EventOK, Event, InitFails, TypeOK
  <2> QED
    BY <1>3, <2>1, <2>2, QueueStep DEF InitFails
<1>4. ASSUME NEW h \in Conns, NEW u \in Users, Push(h, u) PROVE QueueInv'
  <2>0. Event("message", h, u, 0) \in Events
    BY DEF Event, Events
  <2>1. PICK e \in Events : e = Event("message", h, u, 0)
    BY <2>0
  <2>2. EventOK(e)'
    BY <2>1 DEF EventOK, Event
  <2> QED
    BY <1>4, <2>1, <2>2, QueueStep DEF Push
<1>5. ASSUME NEW h \in Conns, LoginFinish(h) PROVE QueueInv'
  <2> DEFINE s == op[h].sid
  <2>1. s \in Sids /\ s < nextSid /\ row[s].conn = h /\ row[s].user \in Users
    BY <1>5, OpSid DEF LoginFinish, IInv, OpInv
  <2>0. Event("in", h, row[s].user, s) \in Events
    BY <2>1 DEF Event, Events, Sids
  <2>2. PICK e \in Events : e = Event("in", h, row[s].user, s)
    BY <2>0
  <2>3. /\ e.type = "in" /\ e.user = row[s].user /\ e.sid = s /\ e.conn = h
        /\ UNCHANGED <<row, nextSid>>
    BY <1>5, <2>2 DEF LoginFinish, tableVars, Event
  <2>4. EventOK(e)'
    BY <2>1, <2>3 DEF EventOK, Sids
  <2> QED
    BY <1>5, <2>2, <2>4, QueueStep DEF LoginFinish
<1>6. ASSUME NEW h \in Conns, TerminateLogout(h) PROVE QueueInv'
  <2> DEFINE s == op[h].sid
  <2>1. s \in Sids /\ s < nextSid /\ row[s].user = auth[h] /\ s \in terminated
    BY <1>6, OpSid DEF TerminateLogout, IInv, OpInv, Terminating
  <2>0. Event("out", h, auth[h], s) \in Events
    BY <1>0, <2>1 DEF Event, Events, Sids, TypeOK
  <2>2. PICK e \in Events : e = Event("out", h, auth[h], s)
    BY <2>0
  <2>3. /\ e.type = "out" /\ e.user = auth[h] /\ e.sid = s
        /\ UNCHANGED <<row, nextSid, terminated>>
    BY <1>6, <2>2 DEF TerminateLogout, tableVars, Event
  <2>4. EventOK(e)'
    BY <2>1, <2>3 DEF EventOK, Over, Sids
  <2> QED
    BY <1>6, <2>2, <2>4, QueueStep DEF TerminateLogout
<1>7. ASSUME NEW h \in Conns, TerminateKick(h) PROVE QueueInv'
  <2> DEFINE s == op[h].sid
  <2>1. s \in Sids /\ s < nextSid /\ row[s].user = auth[h]
    BY <1>7, OpSid DEF TerminateKick, IInv, OpInv, Terminating
  <2>0. Event("terminated", h, auth[h], s) \in Events
    BY <1>0, <2>1 DEF Event, Events, Sids, TypeOK
  <2>2. PICK e \in Events : e = Event("terminated", h, auth[h], s)
    BY <2>0
  <2>3. /\ e.type = "terminated" /\ e.user = auth[h] /\ e.sid = s
        /\ UNCHANGED <<row, nextSid>>
    BY <1>7, <2>2 DEF TerminateKick, tableVars, Event
  <2>4. EventOK(e)'
    BY <2>1, <2>3 DEF EventOK, Sids
  <2> QED
    BY <1>7, <2>2, <2>4, QueueStep DEF TerminateKick
<1>8. CASE \E h \in Conns : Request(h)
  BY <1>1, <1>3, <1>4, <1>8, LogoutQueue, LeaveQueue
     DEF Request, Accept, PeerLeaves, LoginCreate, RenewCheck, TerminateResolve
<1>9. CASE \E h \in Conns : HandlerStep(h)
  BY <1>1, <1>5, <1>6, <1>7, <1>9, LeaveQueue
     DEF HandlerStep, RenewDelete, RenewCreate, RenewFails, TerminateDelete, Kicked
<1> QED
  BY <1>1, <1>2, <1>8, <1>9 DEF Next, Expire, vars

LEMMA NextLive ==
  ASSUME IInv, Mono, TypeOK'
  PROVE  LiveInv'
<1>1. \A s \in Sids : s < nextSid => s < nextSid'
  BY DEF IInv, TypeOK, Mono, RowsKept, Sids
<1> QED
  BY <1>1 DEF IInv, LiveInv, Mono, RowsKept

LEMMA NextRows ==
  ASSUME IInv, [Next]_vars, Mono, TypeOK'
  PROVE  RowInv'
<1>0. TypeOK /\ RowInv
  BY DEF IInv
<1>1. CASE nextSid' = nextSid
  BY <1>0, <1>1 DEF RowInv, Mono, RowsKept, PhasesKept
<1>2. ASSUME NEW h \in Conns, NEW u \in Users, NEW d,
             CreateSession(h, u, d), phase[h] = "open"
      PROVE  RowInv'
  <2>1. /\ nextSid \in Sids /\ nextSid' = nextSid + 1
        /\ row'[nextSid].user = u /\ row'[nextSid].conn = h
    BY <1>0, <1>2, CreateRows
  <2>2. ASSUME NEW s \in Sids, s < nextSid'
        PROVE  \/ s < nextSid
               \/ s = nextSid
    BY <1>0, <2>1, <2>2 DEF TypeOK, Sids
  <2> QED
    BY <1>0, <1>2, <2>1, <2>2 DEF RowInv, Mono, RowsKept, PhasesKept
<1>3. ASSUME NEW h \in Conns, RenewCreate(h) PROVE RowInv'
  <2>1. cur[h] # 0 /\ phase[h] = "open"
    BY <1>3 DEF RenewCreate, IInv, OpInv, Renewing
  <2> QED
    BY <1>2, <1>3, <2>1, CurUser DEF RenewCreate
<1>4. CASE \E h \in Conns : Request(h)
  BY <1>1, <1>2, <1>4
     DEF Request, Accept, InitFails, PeerLeaves, Leave, LoginCreate, Logout, Ready,
         RenewCheck, TerminateResolve, Push, DeleteSession, tableVars
<1>5. CASE \E h \in Conns : HandlerStep(h)
  BY <1>1, <1>3, <1>5
     DEF HandlerStep, LoginFinish, RenewDelete, RenewFails, TerminateDelete,
         TerminateLogout, TerminateKick, Kicked, Leave, DeleteSession, tableVars
<1> QED
  BY <1>1, <1>4, <1>5
     DEF Next, Expire, ServerStep, OnUserLoggedIn, OnUserLoggedOut, tableVars, vars,
         OnSessionTerminated, OnMessageForUser, OnHandlerFinished

\* Only the main thread writes the routing maps, and it writes what the
\* event at the head of the queue says.
LEMMA NextRoutes ==
  ASSUME IInv, [Next]_vars, Mono, TypeOK'
  PROVE  RouteInv'
<1>0. TypeOK /\ RouteInv
  BY DEF IInv
<1>1. CASE UNCHANGED <<online, handlerOf>>
  <2>1. ASSUME NEW s \in Sids, s < nextSid
        PROVE  s < nextSid' /\ row'[s].user = row[s].user /\ row'[s].conn = row[s].conn
    BY <1>0, <2>1 DEF Mono, RowsKept, TypeOK, Sids
  <2> QED
    BY <1>0, <1>1, <2>1 DEF RouteInv
<1>2. CASE OnUserLoggedIn
  <2> DEFINE e == Head(inbox)
  <2>1. e \in Events /\ e.type = "in" /\ EventOK(e)
    BY <1>0, <1>2, TakeQueue DEF OnUserLoggedIn, IInv, QueueInv
  <2>2. /\ e.sid \in Sids /\ e.sid < nextSid
        /\ e.user = row[e.sid].user /\ e.conn = row[e.sid].conn
    BY <2>1 DEF EventOK, Events, Sids
  <2>3. UNCHANGED <<row, nextSid>>
    BY <1>2 DEF OnUserLoggedIn, tableVars
  <2> QED
    BY <1>0, <1>2, <2>2, <2>3 DEF RouteInv, OnUserLoggedIn, TypeOK
<1>3. CASE OnUserLoggedOut
  <2>1. /\ \A s \in Sids : handlerOf'[s] \in {handlerOf[s], NoConn}
        /\ \A u \in Users : online'[u] \subseteq online[u]
        /\ UNCHANGED <<row, nextSid>>
    BY <1>0, <1>3 DEF OnUserLoggedOut, TypeOK, tableVars
  <2> QED
    BY <1>0, <2>1 DEF RouteInv
<1>4. CASE OnHandlerFinished
  <2>1. /\ \A s \in Sids : handlerOf'[s] \in {handlerOf[s], NoConn}
        /\ \A u \in Users : online'[u] \subseteq online[u]
        /\ UNCHANGED <<row, nextSid>>
    <3>1. CASE UNCHANGED <<online, handlerOf>>
      BY <1>4, <3>1 DEF OnHandlerFinished, tableVars
    <3>2. CASE ~UNCHANGED <<online, handlerOf>>
      <4> DEFINE h == Head(inbox).conn
                 gone == {s \in Sids : handlerOf[s] = h}
      <4>1. /\ online' = [online EXCEPT ![userOf[h]] = @ \ gone]
            /\ handlerOf' = [s \in Sids |-> IF s \in gone THEN NoConn
                                                          ELSE handlerOf[s]]
            /\ UNCHANGED <<row, nextSid>>
        BY <1>4, <3>2 DEF OnHandlerFinished, tableVars
      <4> HIDE DEF gone
      <4> QED
        BY <1>0, <4>1 DEF TypeOK
    <3> QED
      BY <3>1, <3>2
  <2> QED
    BY <1>0, <2>1 DEF RouteInv
<1>5. CASE \E h \in Conns : Request(h)
  BY <1>1, <1>5
     DEF Request, Accept, InitFails, PeerLeaves, Leave, LoginCreate, Logout,
         RenewCheck, TerminateResolve, Push, serverVars
<1>6. CASE \E h \in Conns : HandlerStep(h)
  BY <1>1, <1>6
     DEF HandlerStep, LoginFinish, RenewDelete, RenewCreate, RenewFails,
         TerminateDelete, TerminateLogout, TerminateKick, Kicked, Leave, serverVars
<1> QED
  BY <1>1, <1>2, <1>3, <1>4, <1>5, <1>6
     DEF Next, Expire, ServerStep, OnSessionTerminated, OnMessageForUser,
         serverVars, vars

-----------------------------------------------------------------------------
(***************************************************************************)
(* The connections and the requests that run on them.                      *)
(***************************************************************************)

\* A connection's session ids, and what holds of them, survive every step
\* that leaves its own variables alone.
LEMMA ConnFrame ==
  ASSUME IInv, Mono, TypeOK', NEW h \in Conns,
         cur'[h] \in {cur[h], 0}, key'[h] \in {key[h], 0},
         cur'[h] # 0 => cur'[h] = cur[h] /\ auth'[h] = auth[h]
                        /\ (phase'[h] = "open" => phase[h] = "open" /\ key'[h] = key[h]),
         key'[h] # 0 => auth'[h] = auth[h] /\ phase'[h] = phase[h]
  PROVE  /\ cur'[h] # 0 => /\ cur'[h] < nextSid'
                           /\ row'[cur'[h]].conn = h
                           /\ row'[cur'[h]].user = auth'[h]
                           /\ phase'[h] = "open" => key'[h] # 0
         /\ key'[h] # 0 => /\ key'[h] < nextSid'
                           /\ row'[key'[h]].conn = h
                           /\ row'[key'[h]].user = auth'[h]
                           /\ phase'[h] = "open"
<1>1. cur[h] # 0 => cur[h] \in Sids
  BY DEF IInv, TypeOK, Sids
<1>2. key[h] # 0 => key[h] \in Sids
  BY DEF IInv, TypeOK, Sids
<1>3. nextSid \in Nat /\ nextSid' \in Nat /\ nextSid <= nextSid'
  BY DEF IInv, TypeOK, Mono, RowsKept
<1>4. ASSUME cur'[h] # 0
      PROVE  /\ cur'[h] < nextSid'
             /\ row'[cur'[h]].conn = h
             /\ row'[cur'[h]].user = auth'[h]
             /\ phase'[h] = "open" => key'[h] # 0
  BY <1>1, <1>3, <1>4 DEF IInv, ConnInv, Mono, RowsKept, Sids
<1>5. ASSUME key'[h] # 0
      PROVE  /\ key'[h] < nextSid'
             /\ row'[key'[h]].conn = h
             /\ row'[key'[h]].user = auth'[h]
             /\ phase'[h] = "open"
  BY <1>2, <1>3, <1>5 DEF IInv, ConnInv, Mono, RowsKept, Sids
<1> QED
  BY <1>4, <1>5

LEMMA NextConn ==
  ASSUME IInv, [Next]_vars, Mono, TypeOK'
  PROVE  ConnInv'
<1>0. TypeOK
  BY DEF IInv
<1>1. CASE UNCHANGED <<phase, auth, cur, key>>
  BY <1>1, ConnFrame DEF ConnInv
<1>2. ASSUME NEW h \in Conns, UNCHANGED <<auth, cur, key>>, phase[h] = "new",
             phase' = [phase EXCEPT ![h] = "open"]
                \/ phase' = [phase EXCEPT ![h] = "failed"]
      PROVE  ConnInv'
  <2>1. ASSUME NEW g \in Conns, g # h PROVE phase'[g] = phase[g]
    BY <1>0, <1>2, <2>1 DEF TypeOK
  <2> QED
    <3>1. ASSUME cur[h] # 0 PROVE FALSE
      <4>1. cur[h] \in Sids /\ cur[h] < nextSid /\ row[cur[h]].conn = h
        BY <1>0, <3>1 DEF IInv, ConnInv, TypeOK, Sids
      <4>2. phase[h] \in {"open", "closed"}
        BY <4>1 DEF IInv, RowInv
      <4> QED
        BY <1>2, <4>2
    <3>2. key[h] = 0
      BY <1>2 DEF IInv, ConnInv
    <3>3. ASSUME NEW g \in Conns, g # h
          PROVE  /\ cur'[g] # 0 => /\ cur'[g] < nextSid'
                                   /\ row'[cur'[g]].conn = g
                                   /\ row'[cur'[g]].user = auth'[g]
                                   /\ phase'[g] = "open" => key'[g] # 0
                 /\ key'[g] # 0 => /\ key'[g] < nextSid'
                                   /\ row'[key'[g]].conn = g
                                   /\ row'[key'[g]].user = auth'[g]
                                   /\ phase'[g] = "open"
      BY <1>2, <2>1, <3>3, ConnFrame
    <3> QED
      BY <1>2, <3>1, <3>2, <3>3 DEF ConnInv
<1>3. ASSUME NEW h \in Conns, Leave(h) PROVE ConnInv'
  <2>1. /\ UNCHANGED <<auth, cur>>
        /\ phase[h] = "open" /\ phase'[h] = "closed" /\ key'[h] = 0
        /\ \A g \in Conns \ {h} : phase'[g] = phase[g] /\ key'[g] = key[g]
    BY <1>0, <1>3 DEF Leave, Ready, TypeOK
  <2> QED
    BY <2>1, ConnFrame DEF ConnInv
<1>4. ASSUME NEW h \in Conns, Logout(h) PROVE ConnInv'
  <2>1. /\ UNCHANGED phase /\ cur'[h] = 0 /\ key'[h] = 0
        /\ \A g \in Conns \ {h} : /\ auth'[g] = auth[g]
                                  /\ cur'[g] = cur[g]
                                  /\ key'[g] = key[g]
    BY <1>0, <1>4 DEF Logout, TypeOK
  <2> QED
    BY <2>1, ConnFrame DEF ConnInv
<1>5. ASSUME NEW h \in Conns, LoginFinish(h) PROVE ConnInv'
  <2>1. /\ UNCHANGED <<phase, row, nextSid>>
        /\ auth'[h] = row[op[h].sid].user
        /\ cur'[h] = op[h].sid /\ key'[h] = op[h].sid
        /\ \A g \in Conns \ {h} : /\ auth'[g] = auth[g]
                                  /\ cur'[g] = cur[g]
                                  /\ key'[g] = key[g]
    BY <1>0, <1>5 DEF LoginFinish, TypeOK, tableVars
  <2>2. /\ op[h].sid < nextSid /\ row[op[h].sid].conn = h
        /\ op[h].sid # 0 /\ phase[h] = "open"
    BY <1>5 DEF LoginFinish, IInv, OpInv
  <2> QED
    BY <2>1, <2>2, ConnFrame DEF ConnInv
<1>6. ASSUME NEW h \in Conns, RenewCreate(h) PROVE ConnInv'
  <2>1. /\ UNCHANGED <<phase, auth, key>> /\ cur'[h] = nextSid
        /\ \A g \in Conns \ {h} : cur'[g] = cur[g]
    BY <1>0, <1>6 DEF RenewCreate, TypeOK
  <2>2. /\ nextSid \in Nat /\ nextSid' = nextSid + 1
        /\ row'[nextSid].conn = h /\ row'[nextSid].user = auth[h]
    BY <1>0, <1>6, CreateRows DEF RenewCreate, Sids
  <2>3. /\ phase[h] = "open" /\ key[h] # 0 /\ key[h] \in Sids /\ key[h] < nextSid
        /\ row[key[h]].conn = h /\ row[key[h]].user = auth[h]
    <3>1. phase[h] = "open" /\ cur[h] # 0
      BY <1>6 DEF RenewCreate, IInv, OpInv, Renewing
    <3> QED
      BY <1>0, <3>1 DEF IInv, ConnInv, TypeOK, Sids
  <2>4. row'[key[h]].conn = h /\ row'[key[h]].user = auth[h] /\ key[h] < nextSid'
    BY <2>2, <2>3 DEF Mono, RowsKept, Sids
  <2>5. ASSUME NEW g \in Conns \ {h}
        PROVE  /\ cur'[g] # 0 => /\ cur'[g] < nextSid'
                                 /\ row'[cur'[g]].conn = g
                                 /\ row'[cur'[g]].user = auth'[g]
                                 /\ phase'[g] = "open" => key'[g] # 0
               /\ key'[g] # 0 => /\ key'[g] < nextSid'
                                 /\ row'[key'[g]].conn = g
                                 /\ row'[key'[g]].user = auth'[g]
                                 /\ phase'[g] = "open"
    BY <2>1, ConnFrame
  <2>6. nextSid < nextSid' /\ nextSid # 0
    BY <1>0, <2>2 DEF TypeOK
  <2> QED
    BY <2>1, <2>2, <2>3, <2>4, <2>5, <2>6 DEF ConnInv
<1>7. CASE \E h \in Conns : Request(h)
  BY <1>1, <1>2, <1>3, <1>4, <1>7
     DEF Request, Accept, InitFails, PeerLeaves, LoginCreate, RenewCheck,
         TerminateResolve, Push, handlerVars
<1>8. CASE \E h \in Conns : HandlerStep(h)
  BY <1>1, <1>3, <1>5, <1>6, <1>8
     DEF HandlerStep, RenewDelete, RenewFails, TerminateDelete, TerminateLogout,
         TerminateKick, Kicked
<1> QED
  BY <1>1, <1>7, <1>8
     DEF Next, Expire, ServerStep, OnUserLoggedIn, OnUserLoggedOut, handlerVars, vars,
         OnSessionTerminated, OnMessageForUser, OnHandlerFinished

OpOK(h) ==
    /\ op[h].step # "idle" => /\ phase[h] = "open"
                              /\ op[h].sid # 0
                              /\ op[h].sid < nextSid
    /\ op[h].step = "login" => /\ row[op[h].sid].conn = h
                               /\ key[h] # op[h].sid
    /\ op[h].step \in Renewing => cur[h] # 0
    /\ op[h].step \in Terminating => row[op[h].sid].user = auth[h]
    /\ op[h].step \in {"termLogout", "termKick"} => op[h].sid \in terminated

\* A request in progress is disturbed by no step of another thread.
LEMMA OpFrame ==
  ASSUME IInv, Mono, TypeOK', NEW h \in Conns,
         op'[h] = op[h], key'[h] = key[h], cur'[h] = cur[h], auth'[h] = auth[h],
         op[h].step # "idle" => phase'[h] = phase[h]
  PROVE  OpOK(h)'
<1>1. op[h].step # "idle" => op[h].sid \in Sids /\ op[h].sid < nextSid
  BY DEF IInv, TypeOK, OpInv, Ops, Sids
<1>2. nextSid \in Nat /\ nextSid' \in Nat /\ nextSid <= nextSid'
  BY DEF IInv, TypeOK, Mono, RowsKept
<1>3. op[h].step # "idle" =>
        /\ op[h].sid < nextSid'
        /\ row'[op[h].sid].conn = row[op[h].sid].conn
        /\ row'[op[h].sid].user = row[op[h].sid].user
  BY <1>1, <1>2 DEF Mono, RowsKept, Sids
<1> QED
  BY <1>1, <1>3 DEF IInv, OpInv, OpOK, Mono, Renewing, Terminating

\* Idle connections have nothing to say.
LEMMA OpIdle ==
  ASSUME NEW h \in Conns, op'[h].step = "idle"
  PROVE  OpOK(h)'
  BY DEF OpOK, Renewing, Terminating

LEMMA NextOp ==
  ASSUME IInv, [Next]_vars, Mono, TypeOK'
  PROVE  OpInv'
<1>0. TypeOK
  BY DEF IInv
<1> SUFFICES ASSUME NEW g \in Conns PROVE OpOK(g)'
  BY DEF OpInv, OpOK
<1>1. CASE UNCHANGED <<phase, auth, cur, key, op>>
  BY <1>1, OpFrame
<1> DEFINE Aside(h) == /\ op'[g] = op[g] /\ key'[g] = key[g] /\ cur'[g] = cur[g]
                       /\ auth'[g] = auth[g] /\ phase'[g] = phase[g]
<1>2. ASSUME NEW h \in Conns, Request(h), h # g PROVE OpOK(g)'
  <2>1. Aside(h)
    BY <1>0, <1>2 DEF Request, Accept, InitFails, PeerLeaves, Leave, LoginCreate,
       Logout, RenewCheck, TerminateResolve, Push, Advance, TypeOK, handlerVars
  <2> QED
    BY <2>1, OpFrame
<1>3. ASSUME NEW h \in Conns, HandlerStep(h), h # g PROVE OpOK(g)'
  <2>1. Aside(h)
    BY <1>0, <1>3 DEF HandlerStep, LoginFinish, RenewDelete, RenewCreate, RenewFails,
       TerminateDelete, TerminateLogout, TerminateKick, Kicked, Leave, Advance,
       Finish, TypeOK
  <2> QED
    BY <2>1, OpFrame
<1>4. CASE Leave(g) \/ Logout(g) \/ (\E u \in Users : Push(g, u))
  <2>1. op'[g].step = "idle"
    BY <1>4 DEF Leave, Logout, Push, Ready, Idle, handlerVars
  <2> QED
    BY <2>1, OpIdle
<1>5. CASE LoginFinish(g) \/ RenewCreate(g) \/ RenewFails(g) \/ TerminateKick(g)
  <2>1. op'[g].step = "idle"
    BY <1>0, <1>5 DEF LoginFinish, RenewCreate, RenewFails, TerminateKick, Finish,
       Idle, TypeOK
  <2> QED
    BY <2>1, OpIdle
<1>6. CASE Accept(g) \/ InitFails(g)
  <2>1. op[g].step = "idle"
    BY <1>0, <1>6 DEF Accept, InitFails, IInv, OpInv
  <2> QED
    BY <1>6, <2>1, OpFrame DEF Accept, InitFails
<1>7. ASSUME NEW u \in Users, NEW d \in Devices, LoginCreate(g, u, d)
      PROVE  OpOK(g)'
  <2>1. /\ nextSid \in Sids /\ nextSid' = nextSid + 1 /\ row'[nextSid].conn = g
    BY <1>0, <1>7, CreateRows DEF LoginCreate
  <2>2. op'[g] = [step |-> "login", sid |-> nextSid]
    BY <1>0, <1>7 DEF LoginCreate, Advance, TypeOK
  <2>3. phase'[g] = "open" /\ key'[g] # nextSid
    <3>1. key[g] # 0 => key[g] < nextSid
      BY DEF IInv, ConnInv
    <3> QED
      BY <1>0, <1>7, <2>1, <3>1 DEF LoginCreate, Ready, TypeOK, Sids
  <2> QED
    BY <2>1, <2>2, <2>3 DEF OpOK, Renewing, Terminating, Sids
<1>8. CASE RenewCheck(g)
  <2>1. op'[g] = [step |-> "renewDelete", sid |-> cur[g]]
    BY <1>0, <1>8 DEF RenewCheck, Advance, TypeOK
  <2>2. cur[g] # 0 /\ cur[g] < nextSid /\ phase[g] = "open"
    BY <1>8 DEF RenewCheck, Ready, SessionValid, IInv, ConnInv
  <2> QED
    BY <1>8, <2>1, <2>2 DEF RenewCheck, OpOK, Renewing, Terminating, tableVars
<1>9. ASSUME NEW s, NEW d, TerminateResolve(g, s, d) PROVE OpOK(g)'
  <2>1. PICK r \in Sids : /\ row[r].live /\ row[r].user = auth[g]
                          /\ Advance(g, "termDelete", r)
    BY <1>9 DEF TerminateResolve
  <2>2. op'[g] = [step |-> "termDelete", sid |-> r]
    BY <1>0, <2>1 DEF Advance, TypeOK
  <2>3. auth[g] \in Users /\ phase[g] = "open"
    BY <1>9, CurUser DEF TerminateResolve, Ready, Validated, SessionValid
  <2>4. r < nextSid
    BY <2>1 DEF IInv, LiveInv
  <2> QED
    BY <1>9, <2>1, <2>2, <2>3, <2>4
       DEF TerminateResolve, OpOK, Renewing, Terminating, tableVars, Sids
<1>10. CASE RenewDelete(g)
  <2>1. op'[g] = [step |-> "renewCreate", sid |-> op[g].sid]
    BY <1>0, <1>10 DEF RenewDelete, Advance, TypeOK
  <2>2. cur[g] # 0 /\ op[g].sid # 0 /\ op[g].sid < nextSid /\ phase[g] = "open"
    BY <1>10 DEF RenewDelete, IInv, OpInv, Renewing
  <2>3. nextSid' = nextSid
    BY <1>10 DEF RenewDelete, DeleteSession
  <2> QED
    BY <1>10, <2>1, <2>2, <2>3 DEF RenewDelete, OpOK, Renewing, Terminating
<1>11. CASE TerminateDelete(g)
  <2> DEFINE s == op[g].sid
  <2>1. op'[g] = [step |-> "termLogout", sid |-> s] /\ s \in terminated'
    BY <1>0, <1>11 DEF TerminateDelete, Advance, TypeOK
  <2>2. s # 0 /\ s < nextSid /\ phase[g] = "open" /\ row[s].user = auth[g]
        /\ s \in Sids
    BY <1>11, OpSid DEF TerminateDelete, IInv, OpInv, Terminating
  <2>3. nextSid' = nextSid /\ row'[s].user = auth[g]
    BY <1>0, <1>11, <2>2, DeleteRows DEF TerminateDelete, Sids
  <2> QED
    BY <1>11, <2>1, <2>2, <2>3 DEF TerminateDelete, OpOK, Renewing, Terminating
<1>12. CASE TerminateLogout(g)
  <2> DEFINE s == op[g].sid
  <2>1. op'[g] = [step |-> "termKick", sid |-> s]
    BY <1>0, <1>12 DEF TerminateLogout, Advance, TypeOK
  <2>2. /\ s # 0 /\ s < nextSid /\ phase[g] = "open" /\ row[s].user = auth[g]
        /\ s \in terminated
    BY <1>12 DEF TerminateLogout, IInv, OpInv, Terminating
  <2> QED
    BY <1>12, <2>1, <2>2 DEF TerminateLogout, OpOK, Renewing, Terminating, tableVars
<1>13. CASE Request(g)
  BY <1>4, <1>6, <1>7, <1>8, <1>9, <1>13 DEF Request, PeerLeaves
<1>14. CASE HandlerStep(g)
  BY <1>4, <1>5, <1>10, <1>11, <1>12, <1>14 DEF HandlerStep, Kicked
<1>15. CASE ServerStep \/ (\E s \in Sids : Expire(s)) \/ UNCHANGED vars
  BY <1>1, <1>15
     DEF ServerStep, OnUserLoggedIn, OnUserLoggedOut, OnSessionTerminated,
         OnMessageForUser, OnHandlerFinished, Expire, handlerVars, vars
<1> QED
  BY <1>2, <1>3, <1>13, <1>14, <1>15 DEF Next

-----------------------------------------------------------------------------
(***************************************************************************)
(* Reachability of the connections.                                        *)
(***************************************************************************)

RouteOK(h, s) == Queued("in", s) \/ Routed(h, s)

\* A route, or a queued login, is lost only to an event that names it.
LEMMA RouteStays ==
  ASSUME IInv, Mono, TypeOK', NEW h \in Conns, NEW s \in Sids, s < nextSid,
         row[s].conn = h, RouteOK(h, s),
         UNCHANGED serverVars,
         UNCHANGED inbox \/ \E e \in Events : Emit(e)
  PROVE  RouteOK(h, s)'
<1>1. row'[s].user = row[s].user
  BY DEF Mono, RowsKept
<1>2. CASE Routed(h, s)
  BY <1>1, <1>2 DEF RouteOK, Routed, serverVars
<1>3. CASE Queued("in", s)
  <2>1. CASE UNCHANGED inbox
    BY <1>3, <2>1 DEF RouteOK, Queued
  <2>2. ASSUME NEW e \in Events, Emit(e) PROVE Queued("in", s)'
    BY <1>3, <2>2, EmitQueue DEF Queued, IInv, TypeOK
  <2> QED
    BY <2>1, <2>2 DEF RouteOK
<1> QED
  BY <1>2, <1>3 DEF RouteOK

LEMMA NextKey ==
  ASSUME IInv, [Next]_vars, Mono, TypeOK'
  PROVE  KeyInv'
<1>0. TypeOK /\ TypeOK'
  BY DEF IInv
<1> SUFFICES ASSUME NEW h \in Conns, NEW s \in Sids, key'[h] = s, s \notin terminated'
             PROVE  RouteOK(h, s)'
  <2>1. ASSUME NEW h \in Conns, key'[h] # 0, key'[h] \notin terminated'
        PROVE  \E s \in Sids : s = key'[h] /\ RouteOK(h, s)'
    BY <1>0, <2>1 DEF TypeOK, Sids
  <2>2. ASSUME NEW h \in Conns, key'[h] # 0, key'[h] \notin terminated'
        PROVE  Queued("in", key[h])' \/ Routed(h, key[h])'
    <3>1. PICK s \in Sids : s = key'[h] /\ RouteOK(h, s)'
      BY <2>1, <2>2
    <3> QED
      BY <3>1 DEF RouteOK, Queued, Routed
  <2> QED
    BY <2>2 DEF KeyInv
\* The login session was the connection's before the step, too.
<1>1. ASSUME key[h] = s
      PROVE  /\ s < nextSid /\ s \notin terminated
             /\ row[s].conn = h /\ row[s].user \in Users
             /\ phase[h] = "open" /\ RouteOK(h, s)
  <2>1. s # 0 /\ s \notin terminated
    BY DEF Mono, Sids
  <2>2. /\ s < nextSid /\ row[s].conn = h /\ phase[h] = "open"
        /\ Queued("in", s) \/ Routed(h, s)
    BY <1>1, <2>1 DEF IInv, ConnInv, KeyInv
  <2> QED
    BY <2>1, <2>2 DEF RouteOK, IInv, RowInv
<1>2. ASSUME key[h] = s, UNCHANGED serverVars,
             UNCHANGED inbox \/ \E e \in Events : Emit(e)
      PROVE  RouteOK(h, s)'
  BY <1>1, <1>2, RouteStays
<1>3. ASSUME NEW g \in Conns, LoginFinish(g) PROVE RouteOK(h, s)'
  <2>1. op[g].sid \in Sids /\ row[op[g].sid].user \in Users
    BY <1>3, OpSid DEF LoginFinish
  <2>2. Event("in", g, row[op[g].sid].user, op[g].sid) \in Events
    BY <2>1 DEF Event, Events, Sids
  <2>3. CASE g = h
    <3>1. s = op[h].sid
      BY <1>0, <1>3, <2>3 DEF LoginFinish, TypeOK
    <3>2. PICK e \in Events : e = Event("in", g, row[op[g].sid].user, op[g].sid)
      BY <2>2
    <3>3. Emit(e) /\ e.type = "in" /\ e.sid = s
      BY <1>3, <2>3, <3>1, <3>2 DEF LoginFinish, Event
    <3>4. Queued("in", s)'
      <4>1. Len(inbox) + 1 \in 1 .. Len(inbox') /\ inbox'[Len(inbox) + 1] = e
        BY <1>0, <3>3, EmitQueue DEF TypeOK
      <4> QED
        BY <3>3, <4>1 DEF Queued
    <3> QED
      BY <3>4 DEF RouteOK
  <2>4. CASE g # h
    <3>1. key[h] = s /\ UNCHANGED serverVars
      BY <1>0, <1>3, <2>4 DEF LoginFinish, TypeOK
    <3>2. \E e \in Events : Emit(e)
      BY <1>3, <2>2 DEF LoginFinish
    <3> QED
      BY <1>2, <3>1, <3>2
  <2> QED
    BY <2>3, <2>4
<1>4. ASSUME NEW g \in Conns, Leave(g) PROVE RouteOK(h, s)'
  <2>1. key[h] = s /\ UNCHANGED serverVars
    BY <1>0, <1>4 DEF Leave, TypeOK, Sids
  <2>2. Event("out", g, auth[g], cur[g]) \in Events
    BY <1>0 DEF Event, Events, TypeOK
  <2> QED
    BY <1>2, <1>4, <2>1, <2>2 DEF Leave
<1>5. ASSUME NEW g \in Conns, Request(g) PROVE RouteOK(h, s)'
  <2>1. CASE InitFails(g)
    <3>1. Event("finished", g, NoUser, 0) \in Events
      BY DEF Event, Events
    <3> QED
      BY <1>2, <2>1, <3>1 DEF InitFails
  <2>2. CASE Logout(g)
    <3>1. key[h] = s /\ UNCHANGED serverVars
      BY <1>0, <2>2 DEF Logout, TypeOK, Sids
    <3>2. Event("out", g, auth[g], cur[g]) \in Events
      BY <1>0 DEF Event, Events, TypeOK
    <3> QED
      BY <1>2, <2>2, <3>1, <3>2 DEF Logout
  <2>3. ASSUME NEW u \in Users, Push(g, u) PROVE RouteOK(h, s)'
    <3>1. Event("message", g, u, 0) \in Events
      BY DEF Event, Events
    <3> QED
      BY <1>2, <2>3, <3>1 DEF Push, handlerVars
  <2>4. CASE Accept(g) \/ RenewCheck(g)
    BY <1>2, <2>4 DEF Accept, RenewCheck
  <2>5. ASSUME NEW u, NEW d, LoginCreate(g, u, d) \/ TerminateResolve(g, u, d)
        PROVE  RouteOK(h, s)'
    BY <1>2, <2>5 DEF LoginCreate, TerminateResolve
  <2> QED
    BY <1>4, <1>5, <2>1, <2>2, <2>3, <2>4, <2>5 DEF Request, PeerLeaves
<1>6. ASSUME NEW g \in Conns, HandlerStep(g) PROVE RouteOK(h, s)'
  <2>1. CASE RenewDelete(g) \/ RenewCreate(g) \/ RenewFails(g) \/ TerminateDelete(g)
    BY <1>2, <2>1 DEF RenewDelete, RenewCreate, RenewFails, TerminateDelete
  <2>2. CASE TerminateLogout(g)
    <3>1. Event("out", g, auth[g], op[g].sid) \in Events
      BY <1>0 DEF Event, Events, TypeOK, Ops
    <3> QED
      BY <1>2, <2>2, <3>1 DEF TerminateLogout
  <2>3. CASE TerminateKick(g)
    <3>1. Event("terminated", g, auth[g], op[g].sid) \in Events
      BY <1>0 DEF Event, Events, TypeOK, Ops
    <3> QED
      BY <1>2, <2>3, <3>1 DEF TerminateKick
  <2> QED
    BY <1>3, <1>4, <1>6, <2>1, <2>2, <2>3 DEF HandlerStep, Kicked
<1>7. CASE ServerStep
  <2> DEFINE e == Head(inbox)
  <2>1. UNCHANGED <<row, nextSid, phase, key, terminated>>
    BY <1>7 DEF ServerStep, OnUserLoggedIn, OnUserLoggedOut, OnSessionTerminated,
       OnMessageForUser, OnHandlerFinished, tableVars, handlerVars
  <2>2. /\ s < nextSid /\ s \notin terminated
        /\ row[s].conn = h /\ row[s].user \in Users
        /\ phase[h] = "open" /\ RouteOK(h, s) /\ key[h] = s
    BY <1>1, <2>1
  <2>3. \E type : Take(type)
    BY <1>7 DEF ServerStep, OnUserLoggedIn, OnUserLoggedOut, OnSessionTerminated,
       OnMessageForUser, OnHandlerFinished
  <2>4. /\ e \in Events /\ e = inbox[1] /\ EventOK(e)
    BY <1>0, <2>3, TakeQueue DEF IInv, QueueInv
  \* Whatever is taken, a login queued behind it is still queued.
  <2>5. ASSUME Queued("in", s), ~(e.type = "in" /\ e.sid = s)
        PROVE  Queued("in", s)'
    <3>1. PICK i \in 1 .. Len(inbox) : inbox[i].type = "in" /\ inbox[i].sid = s
      BY <2>5 DEF Queued
    <3>2. i # 1
      BY <2>4, <2>5, <3>1
    <3>3. i - 1 \in 1 .. Len(inbox') /\ inbox'[i - 1] = inbox[i]
      BY <1>0, <2>3, <3>2, TakeQueue
    <3> QED
      BY <3>1, <3>3 DEF Queued
  <2>6. CASE UNCHANGED <<online, handlerOf>> /\ e.type # "in"
    BY <2>1, <2>2, <2>5, <2>6 DEF RouteOK, Routed
  <2>7. CASE OnUserLoggedIn
    <3>1. CASE e.sid = s
      <4>1. e.type = "in" /\ e.user = row[s].user /\ e.conn = h
        BY <2>2, <2>4, <2>7, <3>1 DEF OnUserLoggedIn, Take, EventOK
      <4> QED
        BY <1>0, <2>1, <2>2, <2>7, <3>1, <4>1
           DEF OnUserLoggedIn, RouteOK, Routed, TypeOK
    <3>2. CASE e.sid # s
      BY <1>0, <2>1, <2>2, <2>5, <2>7, <3>2
         DEF OnUserLoggedIn, RouteOK, Routed, TypeOK
    <3> QED
      BY <3>1, <3>2
  <2>8. CASE OnUserLoggedOut
    <3>1. e.sid # s /\ e.type # "in"
      BY <2>2, <2>4, <2>8 DEF OnUserLoggedOut, Take, EventOK, Over
    <3> QED
      BY <1>0, <2>1, <2>2, <2>5, <2>8, <3>1
         DEF OnUserLoggedOut, RouteOK, Routed, TypeOK
  <2>9. CASE OnHandlerFinished
    <3>1. e.type = "finished" /\ phase[e.conn] = "failed" /\ e.conn # h
      BY <2>2, <2>4, <2>9 DEF OnHandlerFinished, Take, EventOK
    <3>2. CASE UNCHANGED <<online, handlerOf>>
      BY <2>6, <3>1, <3>2
    <3>3. CASE ~UNCHANGED <<online, handlerOf>>
      <4> DEFINE gone == {r \in Sids : handlerOf[r] = e.conn}
      <4>1. /\ online' = [online EXCEPT ![userOf[e.conn]] = @ \ gone]
            /\ handlerOf' = [r \in Sids |-> IF r \in gone THEN NoConn
                                                          ELSE handlerOf[r]]
        BY <2>9, <3>3 DEF OnHandlerFinished
      <4>2. Routed(h, s) => s \notin gone
        BY <3>1 DEF Routed
      <4> HIDE DEF gone
      <4>3. Routed(h, s) => Routed(h, s)'
        BY <1>0, <2>1, <2>2, <4>1, <4>2 DEF Routed, TypeOK
      <4> QED
        BY <2>2, <2>5, <3>1, <4>3 DEF RouteOK
    <3> QED
      BY <3>2, <3>3
  <2> QED
    BY <1>7, <2>6, <2>7, <2>8, <2>9
       DEF ServerStep, OnSessionTerminated, OnMessageForUser, Take, serverVars
<1>8. ASSUME NEW r \in Sids, Expire(r) PROVE RouteOK(h, s)'
  BY <1>2, <1>8 DEF Expire, handlerVars
<1> QED
  BY <1>2, <1>5, <1>6, <1>7, <1>8 DEF Next, vars, handlerVars

-----------------------------------------------------------------------------
(***************************************************************************)
(* The theorems.                                                           *)
(***************************************************************************)

LEMMA NextInv == IInv /\ [Next]_vars => IInv'
<1> SUFFICES ASSUME IInv, [Next]_vars PROVE IInv'
  OBVIOUS
<1>1. TypeOK' /\ Mono
  BY NextType, NextMono
<1> QED
  BY <1>1, NextRows, NextLive, NextConn, NextOp, NextQueue, NextRoutes, NextKey
     DEF IInv

LEMMA Invariance == Spec => []IInv
  BY InitInv, NextInv, PTL DEF Spec

\* Every variable of the session table, the handlers and the routing maps
\* keeps its type.
THEOREM TypeCorrect == Spec => []TypeOK
<1>1. IInv => TypeOK
  BY DEF IInv
<1> QED
  BY <1>1, Invariance, PTL

\* Server::onMessageForUser never pushes over a session of another account,
\* nor to a connection that did not log the session in.
THEOREM RouteOwnership == Spec => []RoutesBelongToOwner
<1>1. IInv => RoutesBelongToOwner
  BY DEF IInv, RouteInv, RoutesBelongToOwner
<1> QED
  BY <1>1, Invariance, PTL

\* Server::onUserLoggedOut and onUserLoggedIn are only ever told of a real
\* session and of the account that owns it.
THEOREM EventOwnership == Spec => []EventsNameOwner
<1>1. IInv => EventsNameOwner
  BY DEF IInv, QueueInv, EventOK, EventsNameOwner
<1> QED
  BY <1>1, Invariance, PTL

\* m_currentSessionId is never the same on two connections.
THEOREM SessionsNotShared == Spec => []NoSharedSession
<1>1. IInv => NoSharedSession
  BY DEF IInv, ConnInv, NoSharedSession
<1> QED
  BY <1>1, Invariance, PTL

\* A connection with a valid session stays reachable for pushes, however often
\* its session is renewed, unless its login session was terminated.
THEOREM Reachability == Spec => []LiveReachable
<1>1. IInv => LiveReachable
  <2> SUFFICES ASSUME IInv, NEW h \in Conns, phase[h] = "open", SessionValid(h),
                      key[h] \notin terminated
               PROVE  key[h] # 0 /\ (Queued("in", key[h]) \/ Routed(h, key[h]))
    BY DEF LiveReachable
  <2>1. key[h] # 0
    BY DEF IInv, ConnInv, SessionValid
  <2> QED
    BY <2>1 DEF IInv, KeyInv
<1> QED
  BY <1>1, Invariance, PTL
=============================================================================
