------------------------- MODULE ClientSessionProofs -------------------------
(***************************************************************************)
(* ClientSession, for any number of packets on the way: types, the token   *)
(* an authenticated client holds is that of its session, its renewal is    *)
(* always scheduled, and a session that was declared over stays over.      *)
(*                                                                         *)
(* The connection is one line of packets: the replies, and behind them the *)
(* requests that the server has yet to answer.  The server turns packets   *)
(* into replies in their order, the client takes them off the front and    *)
(* adds to the end.  The invariant says in which order logins and renewals *)
(* stand in this line, and what the answers to them say.                   *)
(***************************************************************************)
EXTENDS ClientSession, FiniteSetTheorems, TLAPS

-----------------------------------------------------------------------------
(***************************************************************************)
(* The inductive invariant.                                                *)
(***************************************************************************)
Line == replies \o requests

Open == sock \in {"handshake", "up"}
Serving == state = "Authenticated" /\ sock = "up"

\* What the state of the socket says about the client; there is always a number
\* that is not in use.
Wired ==
    /\ sock = "none" => state = "Disconnected"
    /\ sock = "connecting" => state = "Connecting"
    /\ sock = "handshake" => state \in {"Connected", "LoggingIn"}
    /\ sock = "up" => state \in {"Connected", "LoggingIn", "Authenticated"}
    /\ sock \in {"none", "connecting"} => requests = <<>>
    /\ sock \in {"none", "connecting", "handshake"} => replies = <<>> /\ session = NoSession
    /\ Len(requests) + Len(replies) <= MaxInFlight

\* What an authenticated client, and one that was told that it is none, holds.
Holds ==
    /\ state = "Authenticated" => token # 0 /\ renewTimer /\ ~notified /\ pendingLogin = 0
    /\ notified => token = 0 /\ pendingRenew = 0
    /\ \A p \in InFlight(replies) : p.kind \in {"login", "renew"} /\ p.code = "ok" => p.token # 0

\* No two packets have one id.  The login whose answer is awaited comes last, and
\* what needs a session comes before the logins.
Distinct == \A i, j \in DOMAIN Line : Line[i].id = Line[j].id => i = j

LoginLast == \A i \in DOMAIN Line : Line[i].kind = "login" =>
    \E j \in DOMAIN Line : i <= j /\ Line[j].id = pendingLogin

LoginsBehind == \A i, j \in DOMAIN Line : i < j /\ Line[i].kind = "login" =>
    Line[j].kind \in {"login", "error"}

Ordered == Open => Distinct /\ LoginLast /\ LoginsBehind

\* The awaited login, if it has succeeded, has given the connection its session.
LoginMeans == sock = "up" =>
    \A p \in InFlight(replies) :
        p.kind = "login" /\ p.code = "ok" /\ p.id = pendingLogin => p.token = session.token

\* The renewal whose answer is awaited comes last.  All of them show the token
\* the client holds; when one has succeeded, no request can succeed any more,
\* and when one has failed the session is gone.
RenewLast == Serving =>
    \A i \in DOMAIN Line : Line[i].kind = "renew" =>
        \E j \in DOMAIN Line : i <= j /\ Line[j].id = pendingRenew

RenewMeans == Serving =>
    /\ \A q \in InFlight(requests) : q.kind = "renew" => q.token = token
    /\ \A p \in InFlight(replies) : p.kind = "renew" /\ p.code = "ok" =>
          /\ p.token = session.token /\ token # session.token
          /\ \A q \in InFlight(requests) : q.token # session.token
    /\ \A p \in InFlight(replies) : p.kind = "renew" /\ p.code # "ok" =>
          token = session.token /\ ~session.live

\* TokenAgreement, also while a logout waits to be processed.
Agreed == Serving /\ pendingRenew = 0 /\ ~Answered("logout") => token = session.token

ClientTyped ==
    /\ state \in States /\ token \in {0} \cup Numbers
    /\ known \in BOOLEAN /\ notified \in BOOLEAN /\ loginQueued \in BOOLEAN
    /\ reconnectEnabled \in BOOLEAN /\ reconnectTimer \in BOOLEAN /\ renewTimer \in BOOLEAN
    /\ pendingLogin \in {0} \cup Numbers /\ pendingRenew \in {0} \cup Numbers

NetTyped ==
    /\ sock \in {"none", "connecting", "handshake", "up", "closing"}
    /\ requests \in Seq(Requests) /\ replies \in Seq(Replies)
    /\ session \in [token : {0} \cup Numbers, live : BOOLEAN, expired : BOOLEAN]

ClientInv ==
    /\ ClientTyped /\ NetTyped /\ Wired /\ Holds
    /\ Ordered /\ LoginMeans /\ RenewLast /\ RenewMeans /\ Agreed

LEMMA TypeParts == TypeOK <=> ClientTyped /\ NetTyped
<1>1. {known, notified, loginQueued, reconnectEnabled, reconnectTimer, renewTimer}
          \subseteq BOOLEAN
        <=> /\ known \in BOOLEAN /\ notified \in BOOLEAN /\ loginQueued \in BOOLEAN
            /\ reconnectEnabled \in BOOLEAN /\ reconnectTimer \in BOOLEAN
            /\ renewTimer \in BOOLEAN
  OBVIOUS
<1>2. {pendingLogin, pendingRenew} \subseteq {0} \cup Numbers
        <=> pendingLogin \in {0} \cup Numbers /\ pendingRenew \in {0} \cup Numbers
  OBVIOUS
<1>3. QED
  BY <1>1, <1>2, Zenon DEF TypeOK, ClientTyped, NetTyped

-----------------------------------------------------------------------------
(***************************************************************************)
(* Numbers that are not in use.                                            *)
(***************************************************************************)
LEMMA SessionNumbers ==
    /\ MaxInFlight \in Nat /\ Numbers \subseteq Nat /\ 0 \notin Numbers
    /\ IsFiniteSet(Numbers) /\ Cardinality(Numbers) = MaxInFlight + 3
<1>1. MaxInFlight \in Nat
  BY InFlightAssumption
<1>2. IsFiniteSet(1 .. MaxInFlight + 3) /\ Cardinality(1 .. MaxInFlight + 3) = MaxInFlight + 3
  BY <1>1, FS_Interval
<1>3. QED
  BY <1>1, <1>2 DEF Numbers

LEMMA LeastIsIn ==
    ASSUME NEW S \in SUBSET Nat, S # {}
    PROVE  Least(S) \in S
<1> DEFINE R == {ss \in Nat \X Nat : ss[1] < ss[2]}
<1>1. IsWellFoundedOn(R, Nat)
  <2>1. OpToRel(<, Nat) = R
    BY DEF OpToRel
  <2>2. QED
    BY <2>1, NatLessThanWellFounded
<1>2. PICK x \in S : \A y \in S : ~ (<<y, x>> \in R)
  <2> HIDE DEF R
  <2>1. QED
    BY <1>1, WFMin
<1>3. \A y \in S : x <= y
  <2> TAKE y \in S
  <2>1. x \in Nat /\ y \in Nat /\ ~(<<y, x>> \in R)
    BY <1>2
  <2>2. ~(y < x)
    BY <2>1
  <2>3. QED
    BY <2>1, <2>2
<1>4. QED
  BY <1>3 DEF Least

\* A sequence mentions at most as many things as it is long.
LEMMA Mentioned ==
    ASSUME NEW n \in Nat, NEW f \in [1 .. n -> Nat]
    PROVE  LET S == {f[i] : i \in 1 .. n} IN IsFiniteSet(S) /\ Cardinality(S) <= n
<1> DEFINE S == {f[i] : i \in 1 .. n}
<1>1. IsFiniteSet(1 .. n) /\ Cardinality(1 .. n) = n
  BY FS_Interval
<1>2. f \in Surjection(1 .. n, S)
  BY DEF Surjection
<1>3. IsFiniteSet(S) /\ Cardinality(S) <= Cardinality(1 .. n)
  BY <1>1, <1>2, FS_Surjection
<1>4. QED
  BY <1>1, <1>3

LEMMA OneMore ==
    ASSUME NEW S, IsFiniteSet(S), NEW k \in Nat, Cardinality(S) <= k, NEW a
    PROVE  IsFiniteSet(S \cup {a}) /\ Cardinality(S \cup {a}) <= k + 1
<1>1. Cardinality(S) \in Nat
  BY FS_CardinalityType
<1>2. IsFiniteSet(S \cup {a})
      /\ Cardinality(S \cup {a}) \in {Cardinality(S), Cardinality(S) + 1}
  BY FS_AddElement
<1>3. QED
  BY <1>1, <1>2

\* So two fields and MaxInFlight packets leave a number.
InUse(U, a, b, n, f, m, g) ==
    \A x \in U : \/ x = a \/ x = b
                 \/ \E i \in 1 .. n : x = f[i]
                 \/ \E i \in 1 .. m : x = g[i]

LEMMA NumberLeft ==
    ASSUME NEW a, NEW b,
           NEW n \in Nat, NEW f \in [1 .. n -> Nat], NEW m \in Nat, NEW g \in [1 .. m -> Nat],
           n + m <= MaxInFlight,
           NEW U, InUse(U, a, b, n, f, m, g)
    PROVE  Least(Numbers \ U) \in Numbers \ U
<1> DEFINE F == {f[i] : i \in 1 .. n}
           G == {g[i] : i \in 1 .. m}
<1>1. /\ IsFiniteSet(F) /\ Cardinality(F) <= n
      /\ IsFiniteSet(G) /\ Cardinality(G) <= m
  BY Mentioned
<1> HIDE DEF F, G
<1>2. /\ IsFiniteSet(F \cup G) /\ Cardinality(F \cup G) <= n + m
      /\ Cardinality(F \cup G) \in Nat
  <2>1. F \cap G \subseteq F
    OBVIOUS
  <2>2. /\ Cardinality(F) \in Nat /\ Cardinality(G) \in Nat
        /\ IsFiniteSet(F \cap G) /\ Cardinality(F \cap G) \in Nat
    BY <1>1, <2>1, FS_Subset, FS_CardinalityType
  <2>3. /\ IsFiniteSet(F \cup G)
        /\ Cardinality(F \cup G) = Cardinality(F) + Cardinality(G) - Cardinality(F \cap G)
    BY <1>1, FS_Union
  <2>4. Cardinality(F \cup G) \in Nat
    BY <2>3, FS_CardinalityType
  <2>5. QED
    BY <1>1, <2>2, <2>3, <2>4
<1>3. PICK V : V = F \cup G /\ IsFiniteSet(V) /\ Cardinality(V) <= n + m
  BY <1>2
<1>4. PICK W : W = V \cup {a} /\ IsFiniteSet(W) /\ Cardinality(W) <= n + m + 1
  <2>1. PICK k \in Nat : k = n + m
    OBVIOUS
  <2>2. Cardinality(V) <= k
    BY <1>3, <2>1
  <2>3. IsFiniteSet(V \cup {a}) /\ Cardinality(V \cup {a}) <= k + 1
    BY <1>3, <2>2, OneMore
  <2>4. QED
    BY <2>1, <2>3
<1>5. IsFiniteSet(U) /\ Cardinality(U) <= n + m + 2
  <2>1. U \subseteq W \cup {b}
    BY <1>3, <1>4 DEF F, G, InUse
  <2>2. PICK k \in Nat : k = n + m + 1
    OBVIOUS
  <2>3. Cardinality(W) <= k
    BY <1>4, <2>2
  <2>4. IsFiniteSet(W \cup {b}) /\ Cardinality(W \cup {b}) <= k + 1
    BY <1>4, <2>3, OneMore
  <2>5. k + 1 = n + m + 2
    BY <2>2
  <2>6. /\ Cardinality(W \cup {b}) \in Nat /\ IsFiniteSet(U) /\ Cardinality(U) \in Nat
        /\ Cardinality(U) <= Cardinality(W \cup {b})
    BY <2>1, <2>4, FS_Subset, FS_CardinalityType
  <2>7. QED
    BY <2>2, <2>4, <2>5, <2>6
<1>6. Numbers \ U # {}
  <2> SUFFICES ASSUME Numbers \subseteq U
               PROVE  FALSE
    OBVIOUS
  <2>1. Cardinality(Numbers) <= Cardinality(U) /\ Cardinality(U) \in Nat
    BY <1>5, FS_Subset, FS_CardinalityType
  <2>2. MaxInFlight \in Nat /\ Cardinality(Numbers) = MaxInFlight + 3
    BY SessionNumbers
  <2>3. QED
    BY <1>5, <2>1, <2>2
<1>7. QED
  BY <1>6, SessionNumbers, LeastIsIn

\* The packets on the way: what their numbers are.
LEMMA InLine ==
    ASSUME NetTyped
    PROVE  /\ Len(requests) \in Nat /\ Len(replies) \in Nat
           /\ DOMAIN requests = 1 .. Len(requests) /\ DOMAIN replies = 1 .. Len(replies)
           /\ InFlight(requests) \subseteq Requests /\ InFlight(replies) \subseteq Replies
           /\ \A i \in 1 .. Len(requests) : requests[i] \in Requests
           /\ \A i \in 1 .. Len(replies) : replies[i] \in Replies
           /\ \A p \in Requests \cup Replies : p.id \in Numbers /\ p.token \in {0} \cup Numbers
<1>1. requests \in Seq(Requests) /\ replies \in Seq(Replies)
  BY DEF NetTyped
<1>2. /\ Len(requests) \in Nat /\ Len(replies) \in Nat
      /\ DOMAIN requests = 1 .. Len(requests) /\ DOMAIN replies = 1 .. Len(replies)
      /\ \A i \in 1 .. Len(requests) : requests[i] \in Requests
      /\ \A i \in 1 .. Len(replies) : replies[i] \in Replies
  BY <1>1
<1>3. \A p \in Requests \cup Replies : p.id \in Numbers /\ p.token \in {0} \cup Numbers
  BY DEF Requests, Replies
<1>4. QED
  BY <1>2, <1>3 DEF InFlight

LEMMA NextIdIsFree ==
    ASSUME ClientTyped, NetTyped, Len(requests) + Len(replies) <= MaxInFlight
    PROVE  /\ NextRequestId \in Numbers
           /\ NextRequestId # pendingLogin /\ NextRequestId # pendingRenew
           /\ \A p \in InFlight(requests) \cup InFlight(replies) : p.id # NextRequestId
<1> DEFINE f == [i \in 1 .. Len(requests) |-> requests[i].id]
           g == [i \in 1 .. Len(replies) |-> replies[i].id]
           U == {pendingLogin, pendingRenew}
                    \cup {p.id : p \in InFlight(requests) \cup InFlight(replies)}
<1>1. f \in [1 .. Len(requests) -> Nat] /\ g \in [1 .. Len(replies) -> Nat]
  BY InLine, SessionNumbers
<1>2. U = {pendingLogin, pendingRenew} \cup {f[i] : i \in 1 .. Len(requests)}
                                       \cup {g[i] : i \in 1 .. Len(replies)}
  BY InLine DEF InFlight
<1> HIDE DEF f, g, U
<1>3. Least(Numbers \ U) \in Numbers \ U
  <2>1. PICK n \in Nat : n = Len(requests)
    BY InLine
  <2>2. PICK m \in Nat : m = Len(replies)
    BY InLine
  <2>3. f \in [1 .. n -> Nat] /\ g \in [1 .. m -> Nat] /\ n + m <= MaxInFlight
    BY <1>1, <2>1, <2>2
  <2>4. InUse(U, pendingLogin, pendingRenew, n, f, m, g)
    BY <1>2, <2>1, <2>2 DEF InUse
  <2>5. QED
    BY <2>3, <2>4, NumberLeft
<1>4. QED
  BY <1>3 DEF NextRequestId, U

LEMMA TokenIsFresh ==
    ASSUME ClientTyped, NetTyped, Len(requests) + Len(replies) <= MaxInFlight
    PROVE  /\ FreshToken \in Numbers
           /\ FreshToken # token /\ FreshToken # session.token
           /\ \A p \in InFlight(requests) \cup InFlight(replies) : p.token # FreshToken
<1> DEFINE f == [i \in 1 .. Len(requests) |-> requests[i].token]
           g == [i \in 1 .. Len(replies) |-> replies[i].token]
           U == {token, session.token}
                    \cup {p.token : p \in InFlight(requests) \cup InFlight(replies)}
<1>1. f \in [1 .. Len(requests) -> Nat] /\ g \in [1 .. Len(replies) -> Nat]
  <2>1. {0} \cup Numbers \subseteq Nat
    BY SessionNumbers
  <2>2. /\ \A i \in 1 .. Len(requests) : requests[i].token \in {0} \cup Numbers
        /\ \A i \in 1 .. Len(replies) : replies[i].token \in {0} \cup Numbers
    BY InLine
  <2>3. QED
    BY <2>1, <2>2
<1>2. U = {token, session.token} \cup {f[i] : i \in 1 .. Len(requests)}
                                 \cup {g[i] : i \in 1 .. Len(replies)}
  BY InLine DEF InFlight
<1> HIDE DEF f, g, U
<1>3. Least(Numbers \ U) \in Numbers \ U
  <2>1. PICK n \in Nat : n = Len(requests)
    BY InLine
  <2>2. PICK m \in Nat : m = Len(replies)
    BY InLine
  <2>3. f \in [1 .. n -> Nat] /\ g \in [1 .. m -> Nat] /\ n + m <= MaxInFlight
    BY <1>1, <2>1, <2>2
  <2>4. InUse(U, token, session.token, n, f, m, g)
    BY <1>2, <2>1, <2>2 DEF InUse
  <2>5. QED
    BY <2>3, <2>4, NumberLeft
<1>4. QED
  BY <1>3 DEF FreshToken, U

-----------------------------------------------------------------------------
(***************************************************************************)
(* How the line moves.                                                     *)
(***************************************************************************)
Packets == Requests \cup Replies

LEMMA Joined ==
    ASSUME NEW s \in Seq(Packets), NEW r \in Seq(Packets), NEW w, w = s \o r
    PROVE  /\ Len(s) \in Nat /\ Len(r) \in Nat
           /\ DOMAIN w = 1 .. Len(s) + Len(r)
           /\ \A i \in 1 .. Len(s) : i \in DOMAIN w /\ w[i] = s[i]
           /\ \A i \in 1 .. Len(r) : Len(s) + i \in DOMAIN w /\ w[Len(s) + i] = r[i]
           /\ \A i \in DOMAIN w : \/ i \in 1 .. Len(s) /\ w[i] = s[i]
                                  \/ i - Len(s) \in 1 .. Len(r) /\ w[i] = r[i - Len(s)]
<1>1. /\ Len(s) \in Nat /\ Len(r) \in Nat
      /\ w \in Seq(Packets) /\ Len(w) = Len(s) + Len(r)
      /\ \A i \in 1 .. Len(s) : w[i] = s[i]
      /\ \A i \in 1 .. Len(r) : w[Len(s) + i] = r[i]
  OBVIOUS
<1>2. DOMAIN w = 1 .. Len(s) + Len(r)
  BY <1>1
<1>3. \A i \in 1 .. Len(s) + Len(r) :
         i \in 1 .. Len(s) \/ (i - Len(s) \in 1 .. Len(r) /\ Len(s) + (i - Len(s)) = i)
  BY <1>1
<1>4. QED
  BY <1>1, <1>2, <1>3

LEMMA LineIs ==
    ASSUME NetTyped
    PROVE  /\ requests \in Seq(Packets) /\ replies \in Seq(Packets)
           /\ Len(replies) \in Nat /\ Len(requests) \in Nat
           /\ DOMAIN Line = 1 .. Len(replies) + Len(requests)
           /\ \A i \in 1 .. Len(replies) : i \in DOMAIN Line /\ Line[i] = replies[i]
           /\ \A i \in 1 .. Len(requests) :
                 Len(replies) + i \in DOMAIN Line /\ Line[Len(replies) + i] = requests[i]
           /\ \A i \in DOMAIN Line :
                 \/ i \in 1 .. Len(replies) /\ Line[i] = replies[i]
                 \/ i - Len(replies) \in 1 .. Len(requests) /\ Line[i] = requests[i - Len(replies)]
           /\ \A i \in DOMAIN Line : Line[i].id \in Numbers /\ Line[i].id # 0
           /\ \A p : p \in InFlight(replies) <=>
                 \E i \in DOMAIN Line : i <= Len(replies) /\ Line[i] = p
           /\ \A p : p \in InFlight(requests) <=>
                 \E i \in DOMAIN Line : i > Len(replies) /\ Line[i] = p
<1>1. requests \in Seq(Packets) /\ replies \in Seq(Packets)
  BY DEF NetTyped, Packets
<1>2. /\ Len(replies) \in Nat /\ Len(requests) \in Nat
      /\ DOMAIN Line = 1 .. Len(replies) + Len(requests)
      /\ \A i \in 1 .. Len(replies) : i \in DOMAIN Line /\ Line[i] = replies[i]
      /\ \A i \in 1 .. Len(requests) :
            Len(replies) + i \in DOMAIN Line /\ Line[Len(replies) + i] = requests[i]
      /\ \A i \in DOMAIN Line :
            \/ i \in 1 .. Len(replies) /\ Line[i] = replies[i]
            \/ i - Len(replies) \in 1 .. Len(requests) /\ Line[i] = requests[i - Len(replies)]
  BY <1>1, Joined DEF Line
<1>3. \A i \in DOMAIN Line : Line[i] \in Packets
  BY <1>2, InLine DEF Packets
<1>4. \A i \in DOMAIN Line : Line[i].id \in Numbers /\ Line[i].id # 0
  BY <1>3, InLine, SessionNumbers DEF Packets
<1>5. \A p : p \in InFlight(replies) <=>
         \E i \in DOMAIN Line : i <= Len(replies) /\ Line[i] = p
  BY <1>2, InLine DEF InFlight
<1>6. \A p : p \in InFlight(requests) <=>
         \E i \in DOMAIN Line : i > Len(replies) /\ Line[i] = p
  <2>1. ASSUME NEW k \in 1 .. Len(requests)
        PROVE  \E i \in DOMAIN Line : i > Len(replies) /\ Line[i] = requests[k]
    <3>1. Len(replies) + k \in DOMAIN Line /\ Line[Len(replies) + k] = requests[k]
      BY <1>2
    <3>2. Len(replies) + k > Len(replies)
      BY <1>2
    <3>3. QED
      BY <3>1, <3>2
  <2>2. ASSUME NEW i \in DOMAIN Line, i > Len(replies)
        PROVE  \E k \in 1 .. Len(requests) : Line[i] = requests[k]
    BY <1>2, <2>2
  <2>3. QED
    BY <2>1, <2>2, InLine DEF InFlight
<1>7. QED
  BY <1>1, <1>2, <1>4, <1>5, <1>6

\* A request joins the line at its end.
LEMMA Joins ==
    ASSUME NetTyped, NEW p \in Requests, requests' = Append(requests, p), replies' = replies
    PROVE  /\ requests' \in Seq(Requests) /\ Len(requests') = Len(requests) + 1
           /\ InFlight(requests') = InFlight(requests) \cup {p}
           /\ \E n \in Nat : /\ DOMAIN Line = 1 .. n /\ DOMAIN Line' = 1 .. n + 1
                             /\ Line'[n + 1] = p
                             /\ \A i \in 1 .. n : Line'[i] = Line[i]
<1>1. requests \in Seq(Requests) /\ replies \in Seq(Packets) /\ requests \in Seq(Packets)
  BY LineIs DEF NetTyped
<1>2. /\ requests' \in Seq(Requests) /\ Len(requests') = Len(requests) + 1
      /\ DOMAIN requests = 1 .. Len(requests) /\ Len(requests) \in Nat
      /\ DOMAIN requests' = 1 .. Len(requests) + 1
      /\ requests'[Len(requests) + 1] = p
      /\ \A i \in 1 .. Len(requests) : requests'[i] = requests[i]
  BY <1>1
<1>3. InFlight(requests') = InFlight(requests) \cup {p}
  BY <1>2 DEF InFlight
<1>4. requests' \in Seq(Packets) /\ Line' = replies \o requests'
  BY <1>2 DEF Packets, Line
<1>5. PICK n \in Nat : n = Len(replies) + Len(requests)
  BY <1>1
<1>6. /\ DOMAIN Line' = 1 .. Len(replies) + Len(requests')
      /\ \A i \in 1 .. Len(replies) : Line'[i] = replies[i]
      /\ \A i \in 1 .. Len(requests') : Line'[Len(replies) + i] = requests'[i]
  BY <1>1, <1>4, Joined
<1>7. /\ DOMAIN Line = 1 .. n /\ Len(replies) \in Nat
      /\ \A i \in DOMAIN Line :
            \/ i \in 1 .. Len(replies) /\ Line[i] = replies[i]
            \/ i - Len(replies) \in 1 .. Len(requests) /\ Line[i] = requests[i - Len(replies)]
  BY <1>5, LineIs
<1>8. DOMAIN Line' = 1 .. n + 1
  BY <1>2, <1>5, <1>6, <1>7
<1>9. Line'[n + 1] = p
  <2>1. Len(requests) + 1 \in 1 .. Len(requests') /\ n + 1 = Len(replies) + (Len(requests) + 1)
    BY <1>2, <1>5, <1>7
  <2>2. QED
    BY <1>2, <1>6, <2>1
<1>10. ASSUME NEW i \in 1 .. n
       PROVE  Line'[i] = Line[i]
  <2>1. CASE i \in 1 .. Len(replies) /\ Line[i] = replies[i]
    BY <1>6, <2>1
  <2>2. CASE i - Len(replies) \in 1 .. Len(requests) /\ Line[i] = requests[i - Len(replies)]
    <3>1. PICK k \in 1 .. Len(requests) : i = Len(replies) + k /\ Line[i] = requests[k]
      BY <1>7, <2>2
    <3>2. k \in 1 .. Len(requests')
      BY <1>2
    <3>3. Line'[Len(replies) + k] = requests'[k]
      BY <1>6, <3>2
    <3>4. requests'[k] = requests[k]
      BY <1>2
    <3>5. QED
      BY <3>1, <3>3, <3>4
  <2>3. QED
    BY <1>7, <2>1, <2>2
<1>11. QED
  BY <1>2, <1>3, <1>7, <1>8, <1>9, <1>10

\* A reply leaves it at the front.
LEMMA Leaves ==
    ASSUME NetTyped, replies # <<>>, replies' = Tail(replies), requests' = requests
    PROVE  /\ replies' \in Seq(Replies) /\ Len(replies') = Len(replies) - 1
           /\ Head(replies) \in Replies /\ Head(replies) \in InFlight(replies)
           /\ InFlight(replies') \subseteq InFlight(replies)
           /\ InFlight(replies) \subseteq InFlight(replies') \cup {Head(replies)}
           /\ 1 \in DOMAIN Line /\ Line[1] = Head(replies)
           /\ \A i \in DOMAIN Line' : i + 1 \in DOMAIN Line /\ Line'[i] = Line[i + 1]
           /\ \A i \in DOMAIN Line : i # 1 => i - 1 \in DOMAIN Line'
           /\ \A i \in DOMAIN Line' : i \in Nat /\ i >= 1
<1>1. replies \in Seq(Replies) /\ replies \in Seq(Packets) /\ requests \in Seq(Packets)
  BY LineIs DEF NetTyped
<1>2. /\ replies' \in Seq(Replies) /\ Len(replies') = Len(replies) - 1
      /\ DOMAIN replies = 1 .. Len(replies) /\ Len(replies) \in Nat /\ Len(replies) # 0
      /\ DOMAIN replies' = 1 .. Len(replies) - 1
      /\ Head(replies) = replies[1] /\ Head(replies) \in Replies
      /\ \A i \in 1 .. Len(replies) - 1 : replies'[i] = replies[i + 1]
  BY <1>1
<1>3. Head(replies) \in InFlight(replies)
  BY <1>2 DEF InFlight
<1>4. InFlight(replies') \subseteq InFlight(replies)
  BY <1>2 DEF InFlight
<1>5. InFlight(replies) \subseteq InFlight(replies') \cup {Head(replies)}
  <2> SUFFICES ASSUME NEW i \in 1 .. Len(replies), i # 1
               PROVE  \E j \in DOMAIN replies' : replies'[j] = replies[i]
    BY <1>2 DEF InFlight
  <2>1. i - 1 \in 1 .. Len(replies) - 1 /\ (i - 1) + 1 = i
    BY <1>2
  <2>2. QED
    BY <1>2, <2>1
<1>6. replies' \in Seq(Packets) /\ Line' = replies' \o requests
  BY <1>2 DEF Packets, Line
<1>7. /\ DOMAIN Line = 1 .. Len(replies) + Len(requests) /\ Len(requests) \in Nat
      /\ \A i \in 1 .. Len(replies) : Line[i] = replies[i]
      /\ \A i \in 1 .. Len(requests) : Line[Len(replies) + i] = requests[i]
  BY LineIs
<1>8. /\ DOMAIN Line' = 1 .. Len(replies') + Len(requests)
      /\ \A i \in DOMAIN Line' :
            \/ i \in 1 .. Len(replies') /\ Line'[i] = replies'[i]
            \/ i - Len(replies') \in 1 .. Len(requests) /\ Line'[i] = requests[i - Len(replies')]
  BY <1>1, <1>6, Joined
<1>9. 1 \in DOMAIN Line /\ Line[1] = Head(replies)
  BY <1>2, <1>7
<1>10. ASSUME NEW i \in DOMAIN Line'
       PROVE  i + 1 \in DOMAIN Line /\ Line'[i] = Line[i + 1]
  <2>1. i + 1 \in DOMAIN Line
    BY <1>2, <1>7, <1>8
  <2>2. CASE i \in 1 .. Len(replies') /\ Line'[i] = replies'[i]
    BY <1>2, <1>7, <2>1, <2>2
  <2>3. CASE i - Len(replies') \in 1 .. Len(requests) /\ Line'[i] = requests[i - Len(replies')]
    <3>1. PICK k \in 1 .. Len(requests) : i + 1 = Len(replies) + k /\ Line'[i] = requests[k]
      BY <1>2, <1>8, <2>3
    <3>2. QED
      BY <1>7, <2>1, <3>1
  <2>4. QED
    BY <1>8, <2>2, <2>3
<1>11. \A i \in DOMAIN Line : i # 1 => i - 1 \in DOMAIN Line'
  BY <1>2, <1>7, <1>8
<1>12. \A i \in DOMAIN Line' : i \in Nat /\ i >= 1
  BY <1>2, <1>7, <1>8
<1>13. QED
  BY <1>2, <1>3, <1>4, <1>5, <1>9, <1>10, <1>11, <1>12

\* The server turns the first request into a reply.
LEMMA Turns ==
    ASSUME NetTyped, requests # <<>>, NEW p \in Replies, requests' = Tail(requests),
           replies' = Append(replies, p)
    PROVE  /\ requests' \in Seq(Requests) /\ replies' \in Seq(Replies)
           /\ Len(requests') + Len(replies') = Len(requests) + Len(replies)
           /\ Head(requests) \in Requests /\ Head(requests) \in InFlight(requests)
           /\ InFlight(requests') \subseteq InFlight(requests)
           /\ InFlight(replies') = InFlight(replies) \cup {p}
           /\ DOMAIN Line' = DOMAIN Line /\ DOMAIN Line \subseteq Nat
           /\ \E k \in DOMAIN Line :
                 /\ Line[k] = Head(requests) /\ Line'[k] = p
                 /\ \A i \in DOMAIN Line : i # k => Line'[i] = Line[i]
                 /\ \A q \in InFlight(replies) : \E i \in DOMAIN Line : i < k /\ Line[i] = q
<1>1. /\ requests \in Seq(Requests) /\ requests \in Seq(Packets)
      /\ replies \in Seq(Replies) /\ replies \in Seq(Packets)
  BY LineIs DEF NetTyped
<1>2. /\ requests' \in Seq(Requests) /\ Len(requests') = Len(requests) - 1
      /\ DOMAIN requests = 1 .. Len(requests) /\ Len(requests) \in Nat /\ Len(requests) # 0
      /\ DOMAIN requests' = 1 .. Len(requests) - 1
      /\ Head(requests) = requests[1] /\ Head(requests) \in Requests
      /\ \A i \in 1 .. Len(requests) - 1 : requests'[i] = requests[i + 1]
  BY <1>1
<1>3. /\ replies' \in Seq(Replies) /\ Len(replies') = Len(replies) + 1 /\ Len(replies) \in Nat
      /\ DOMAIN replies = 1 .. Len(replies) /\ DOMAIN replies' = 1 .. Len(replies) + 1
      /\ replies'[Len(replies) + 1] = p
      /\ \A i \in 1 .. Len(replies) : replies'[i] = replies[i]
  BY <1>1
<1>4. Head(requests) \in InFlight(requests) /\ InFlight(requests') \subseteq InFlight(requests)
  BY <1>2 DEF InFlight
<1>5. InFlight(replies') = InFlight(replies) \cup {p}
  BY <1>3 DEF InFlight
<1>6. requests' \in Seq(Packets) /\ replies' \in Seq(Packets) /\ Line' = replies' \o requests'
  BY <1>2, <1>3 DEF Packets, Line
<1>7. PICK k \in Nat : k = Len(replies) + 1
  BY <1>3
<1>8. /\ DOMAIN Line = 1 .. Len(replies) + Len(requests)
      /\ \A i \in 1 .. Len(requests) : Line[Len(replies) + i] = requests[i]
      /\ \A i \in DOMAIN Line :
            \/ i \in 1 .. Len(replies) /\ Line[i] = replies[i]
            \/ i - Len(replies) \in 1 .. Len(requests) /\ Line[i] = requests[i - Len(replies)]
      /\ \A q : q \in InFlight(replies) => \E i \in DOMAIN Line : i <= Len(replies) /\ Line[i] = q
  BY LineIs
<1>9. /\ DOMAIN Line' = 1 .. Len(replies') + Len(requests')
      /\ \A i \in 1 .. Len(replies') : Line'[i] = replies'[i]
      /\ \A i \in 1 .. Len(requests') : Line'[Len(replies') + i] = requests'[i]
  BY <1>6, Joined
<1>10. DOMAIN Line' = DOMAIN Line /\ DOMAIN Line \subseteq Nat /\ k \in DOMAIN Line
  BY <1>2, <1>3, <1>7, <1>8, <1>9
<1>11. Line[k] = Head(requests) /\ Line'[k] = p
  <2>1. 1 \in 1 .. Len(requests) /\ Len(replies) + 1 \in 1 .. Len(replies')
    BY <1>2, <1>3
  <2>2. Line[Len(replies) + 1] = requests[1]
    BY <1>8, <2>1
  <2>3. Line'[Len(replies) + 1] = p
    BY <1>3, <1>9, <2>1
  <2>4. QED
    BY <1>2, <1>7, <2>2, <2>3
<1>12. ASSUME NEW i \in DOMAIN Line, i # k
       PROVE  Line'[i] = Line[i]
  <2>1. CASE i \in 1 .. Len(replies) /\ Line[i] = replies[i]
    BY <1>3, <1>9, <2>1
  <2>2. CASE i - Len(replies) \in 1 .. Len(requests) /\ Line[i] = requests[i - Len(replies)]
    <3>1. PICK j \in 1 .. Len(requests) - 1 :
             i = Len(replies') + j /\ Line[i] = requests[j + 1]
      <4>1. PICK m \in 1 .. Len(requests) : i = Len(replies) + m /\ Line[i] = requests[m]
        BY <1>3, <1>8, <2>2
      <4>2. m # 1
        BY <1>7, <1>12, <4>1
      <4>3. m - 1 \in 1 .. Len(requests) - 1 /\ (m - 1) + 1 = m
        BY <1>2, <4>2
      <4>4. i = Len(replies') + (m - 1)
        BY <1>3, <4>1
      <4>5. QED
        BY <4>1, <4>3, <4>4
    <3>2. Line'[Len(replies') + j] = requests'[j] /\ requests'[j] = requests[j + 1]
      BY <1>2, <1>9, <3>1
    <3>3. QED
      BY <3>1, <3>2
  <2>3. QED
    BY <1>8, <2>1, <2>2
<1>13. \A q \in InFlight(replies) : \E i \in DOMAIN Line : i < k /\ Line[i] = q
  BY <1>3, <1>7, <1>8
<1>14. Len(requests') + Len(replies') = Len(requests) + Len(replies)
  BY <1>2, <1>3
<1>15. QED
  BY <1>2, <1>3, <1>4, <1>5, <1>10, <1>11, <1>12, <1>13, <1>14

-----------------------------------------------------------------------------
(***************************************************************************)
(* Steps of the client that send nothing or one request.                   *)
(***************************************************************************)

\* A connection that is closing, or that there is not, promises nothing.
LEMMA Shut ==
    ASSUME ClientTyped', NetTyped', Wired', Holds', sock' \notin {"handshake", "up"}
    PROVE  ClientInv'
BY DEF ClientInv, Ordered, Open, LoginMeans, RenewLast, RenewMeans, Agreed, Serving

LEMMA EmptyLine ==
    ASSUME requests = <<>>, replies = <<>>
    PROVE  Distinct /\ LoginLast /\ LoginsBehind /\ DOMAIN Line = {}
<1>1. DOMAIN Line = {}
  BY DEF Line
<1>2. QED
  BY <1>1 DEF Distinct, LoginLast, LoginsBehind

\* Nothing that matters to the invariant changes: the session may end or expire.
LEMMA Idles ==
    ASSUME ClientInv,
           UNCHANGED <<state, token, notified, pendingLogin, pendingRenew, sock, requests,
                       replies>>,
           known' \in BOOLEAN, loginQueued' \in BOOLEAN, reconnectEnabled' \in BOOLEAN,
           reconnectTimer' \in BOOLEAN, renewTimer' \in BOOLEAN,
           state = "Authenticated" => renewTimer',
           session' \in [token : {0} \cup Numbers, live : BOOLEAN, expired : BOOLEAN],
           session'.token = session.token, session'.live => session.live,
           session = NoSession => session' = NoSession
    PROVE  ClientInv'
<1>1. /\ ClientTyped /\ NetTyped /\ Wired /\ Holds
      /\ Ordered /\ LoginMeans /\ RenewLast /\ RenewMeans /\ Agreed
  BY DEF ClientInv
<1>2. ClientTyped' /\ NetTyped'
  BY <1>1 DEF ClientTyped, NetTyped
<1>3. Wired' /\ Holds'
  BY <1>1 DEF Wired, Holds
<1>4. Line' = Line /\ Serving' = Serving /\ Open' = Open
  BY DEF Line, Serving, Open
<1>5. Ordered' /\ RenewLast'
  BY <1>1, <1>4 DEF Ordered, Distinct, LoginLast, LoginsBehind, RenewLast
<1>6. LoginMeans'
  BY <1>1 DEF LoginMeans
<1>7. RenewMeans'
  BY <1>1, <1>4 DEF RenewMeans
<1>8. Agreed'
  BY <1>1, <1>4 DEF Agreed, Answered
<1>9. QED
  BY <1>2, <1>3, <1>5, <1>6, <1>7, <1>8 DEF ClientInv

\* connectToServer()
LEMMA Connects ==
    ASSUME ClientInv, ConnectToServer,
           UNCHANGED <<token, notified, pendingLogin, pendingRenew, renewTimer, requests,
                       replies, session>>,
           known' \in BOOLEAN, loginQueued' \in BOOLEAN, reconnectEnabled' \in BOOLEAN,
           reconnectTimer' \in BOOLEAN
    PROVE  ClientInv'
<1>1. ClientTyped /\ NetTyped /\ Wired /\ Holds
  BY DEF ClientInv
<1>2. CASE state = "Disconnected"
  <2>1. /\ state' = "Connecting" /\ sock \in {"none", "closing"}
        /\ sock' = IF sock = "none" THEN "connecting" ELSE sock
    BY <1>1, <1>2 DEF ConnectToServer, Wired, NetTyped
  <2>2. ClientTyped' /\ NetTyped' /\ Wired' /\ Holds'
    <3>1. ClientTyped'
      BY <1>1, <2>1 DEF ClientTyped, States
    <3>2. NetTyped'
      BY <1>1, <2>1 DEF NetTyped
    <3>3. Wired' /\ Holds'
      BY <1>1, <2>1 DEF Wired, Holds
    <3>4. QED
      BY <3>1, <3>2, <3>3
  <2>3. QED
    BY <2>1, <2>2, Shut
<1>3. CASE state # "Disconnected"
  <2>1. UNCHANGED <<state, sock>>
    BY <1>3 DEF ConnectToServer
  <2>2. renewTimer' \in BOOLEAN /\ (state = "Authenticated" => renewTimer')
    BY <1>1 DEF ClientTyped, Holds
  <2>3. session' \in [token : {0} \cup Numbers, live : BOOLEAN, expired : BOOLEAN]
    BY <1>1 DEF NetTyped
  <2>4. QED
    BY <2>1, <2>2, <2>3, Idles
<1>4. QED
  BY <1>2, <1>3

\* The packet that is written.
LEMMA Written ==
    ASSUME ClientTyped, NetTyped, Len(requests) + Len(replies) <= MaxInFlight,
           NEW kind \in {"login", "logout", "renew", "business"}, Send(kind)
    PROVE  \E p \in Requests :
              /\ p.kind = kind /\ p.id = NextRequestId
              /\ state = "Authenticated" => p.token = token
              /\ requests' = IF sock = "closing" THEN requests ELSE Append(requests, p)
<1>1. PICK p : p = [kind |-> kind, id |-> NextRequestId,
                    token |-> IF state = "Authenticated" THEN token ELSE 0]
  OBVIOUS
<1>2. NextRequestId \in Numbers /\ token \in {0} \cup Numbers
  BY NextIdIsFree DEF ClientTyped
<1>3. p \in Requests
  BY <1>1, <1>2 DEF Requests
<1>4. requests' = IF sock = "closing" THEN requests ELSE Append(requests, p)
  BY <1>1 DEF Send
<1>5. QED
  BY <1>1, <1>3, <1>4

\* A request that joins the line keeps its order if it has an id of its own.
LEMMA JoinsInOrder ==
    ASSUME NetTyped, Distinct, LoginLast, LoginsBehind,
           NEW p \in Requests, requests' = Append(requests, p), replies' = replies,
           \A q \in InFlight(requests) \cup InFlight(replies) : q.id # p.id,
           \/ p.kind = "login" /\ pendingLogin' = p.id
           \/ p.kind # "login" /\ pendingLogin' = 0 /\ pendingLogin = 0
    PROVE  (Distinct /\ LoginLast /\ LoginsBehind)'
<1>1. PICK n \in Nat : /\ DOMAIN Line = 1 .. n /\ DOMAIN Line' = 1 .. n + 1
                       /\ Line'[n + 1] = p
                       /\ \A i \in 1 .. n : Line'[i] = Line[i]
  BY Joins
<1>2. \A i \in 1 .. n : Line[i].id # p.id /\ Line[i].id # 0
  <2>1. \A i \in DOMAIN Line : Line[i] \in InFlight(requests) \cup InFlight(replies)
    <3>1. \A i \in DOMAIN Line : i <= Len(replies) \/ i > Len(replies)
      BY LineIs
    <3>2. QED
      BY <3>1, LineIs
  <2>2. \A i \in DOMAIN Line : Line[i].id # 0
    BY LineIs
  <2>3. QED
    BY <1>1, <2>1, <2>2
<1>3. Distinct'
  <2> SUFFICES ASSUME NEW i \in 1 .. n + 1, NEW j \in 1 .. n + 1, Line'[i].id = Line'[j].id,
                      i # j
               PROVE  FALSE
    BY <1>1 DEF Distinct
  <2>1. \A m \in 1 .. n + 1 : m = n + 1 \/ m \in 1 .. n
    OBVIOUS
  <2>2. CASE i \in 1 .. n /\ j \in 1 .. n
    BY <1>1, <2>2 DEF Distinct
  <2>3. CASE i = n + 1 \/ j = n + 1
    BY <1>1, <1>2, <2>1, <2>3
  <2>4. QED
    BY <2>1, <2>2, <2>3
<1>4. CASE p.kind = "login" /\ pendingLogin' = p.id
  <2>1. n + 1 \in 1 .. n + 1 /\ \A i \in 1 .. n + 1 : i <= n + 1
    OBVIOUS
  <2>2. LoginLast'
    BY <1>1, <1>4, <2>1 DEF LoginLast
  <2>3. LoginsBehind'
    <3> SUFFICES ASSUME NEW i \in 1 .. n + 1, NEW j \in 1 .. n + 1, i < j,
                        Line'[i].kind = "login"
                 PROVE  Line'[j].kind \in {"login", "error"}
      BY <1>1 DEF LoginsBehind
    <3>1. i \in 1 .. n /\ (j = n + 1 \/ j \in 1 .. n)
      OBVIOUS
    <3>2. QED
      BY <1>1, <1>4, <3>1 DEF LoginsBehind
  <2>4. QED
    BY <1>3, <2>2, <2>3
<1>5. CASE p.kind # "login" /\ pendingLogin' = 0 /\ pendingLogin = 0
  <2>1. \A i \in 1 .. n + 1 : Line'[i].kind # "login"
    <3>1. \A i \in 1 .. n : Line[i].kind # "login"
      BY <1>1, <1>2, <1>5 DEF LoginLast
    <3>2. \A i \in 1 .. n + 1 : i = n + 1 \/ i \in 1 .. n
      OBVIOUS
    <3>3. QED
      BY <1>1, <1>5, <3>1, <3>2
  <2>2. QED
    BY <1>1, <1>3, <2>1 DEF LoginLast, LoginsBehind
<1>6. QED
  BY <1>4, <1>5

\* sendLoginRequest(), on a connection that is there or has just come about.
LEMMA LoginSent ==
    ASSUME ClientInv, SendLoginRequest, Room,
           \/ sock' = sock /\ sock \in {"handshake", "up", "closing"}
           \/ sock = "connecting" /\ sock' = "handshake",
           UNCHANGED <<token, notified, pendingRenew, renewTimer, replies, session>>,
           known' \in BOOLEAN, loginQueued' \in BOOLEAN, reconnectEnabled' \in BOOLEAN,
           reconnectTimer' \in BOOLEAN
    PROVE  ClientInv'
<1>1. /\ ClientTyped /\ NetTyped /\ Wired /\ Holds /\ Ordered
      /\ Len(requests) + Len(replies) <= MaxInFlight
      /\ Len(requests) + 1 + Len(replies) <= MaxInFlight
  <2>1. ClientTyped /\ NetTyped /\ Wired /\ Holds /\ Ordered
    BY DEF ClientInv
  <2>2. Len(requests) \in Nat /\ Len(replies) \in Nat
    BY <2>1, InLine
  <2>3. QED
    BY <2>1, <2>2, SessionNumbers DEF Room
<1>2. /\ pendingLogin' = NextRequestId /\ NextRequestId \in Numbers /\ state' = "LoggingIn"
      /\ Send("login")
  BY <1>1, NextIdIsFree DEF SendLoginRequest
<1>3. PICK p \in Requests : /\ p.kind = "login" /\ p.id = NextRequestId
                            /\ requests' = IF sock = "closing" THEN requests ELSE Append(requests, p)
  BY <1>1, <1>2, Written
<1>4. ClientTyped'
  BY <1>1, <1>2 DEF ClientTyped, States
<1>5. Holds'
  BY <1>1, <1>2 DEF Holds
<1>6. CASE sock = "closing"
  <2>1. requests' = requests /\ sock' = "closing"
    BY <1>3, <1>6
  <2>2. NetTyped' /\ Wired'
    BY <1>1, <1>2, <2>1 DEF NetTyped, Wired
  <2>3. QED
    BY <1>4, <1>5, <2>1, <2>2, Shut
<1>7. CASE sock # "closing"
  <2>1. requests' = Append(requests, p) /\ sock' \in {"handshake", "up"}
    BY <1>3, <1>7
  <2>2. requests' \in Seq(Requests) /\ Len(requests') = Len(requests) + 1
    BY <1>1, <2>1, Joins
  <2>3. NetTyped'
    BY <1>1, <2>1, <2>2 DEF NetTyped
  <2>4. Wired'
    BY <1>1, <1>2, <2>1, <2>2 DEF Wired
  <2>5. Distinct /\ LoginLast /\ LoginsBehind
    <3>1. CASE sock = "connecting"
      BY <1>1, <3>1, EmptyLine DEF Wired
    <3>2. CASE sock \in {"handshake", "up"}
      BY <1>1, <3>2 DEF Ordered, Open
    <3>3. QED
      BY <1>7, <3>1, <3>2
  <2>6. \A q \in InFlight(requests) \cup InFlight(replies) : q.id # p.id
    BY <1>1, <1>3, NextIdIsFree
  <2>7. Ordered'
    BY <1>1, <1>2, <1>3, <2>1, <2>5, <2>6, JoinsInOrder DEF Ordered
  <2>8. LoginMeans'
    BY <1>2, <1>3, <2>6 DEF LoginMeans
  <2>9. ~Serving'
    BY <1>2 DEF Serving
  <2>10. QED
    BY <1>4, <1>5, <2>3, <2>4, <2>7, <2>8, <2>9 DEF ClientInv, RenewLast, RenewMeans, Agreed
<1>8. QED
  BY <1>6, <1>7

\* Any other request: of an authenticated client.
LEMMA OtherSent ==
    ASSUME ClientInv, Room, state = "Authenticated",
           NEW kind \in {"logout", "renew", "business"}, Send(kind),
           UNCHANGED <<state, authVars, intentVars, pendingLogin, renewTimer, sock, replies,
                       session>>,
           \/ kind = "renew" /\ pendingRenew' = NextRequestId
           \/ kind # "renew" /\ pendingRenew' = pendingRenew
    PROVE  ClientInv'
<1>1. /\ ClientTyped /\ NetTyped /\ Wired /\ Holds /\ Ordered /\ LoginMeans /\ RenewLast
      /\ RenewMeans /\ Agreed
      /\ Len(requests) + Len(replies) <= MaxInFlight
      /\ Len(requests) + 1 + Len(replies) <= MaxInFlight
  <2>1. /\ ClientTyped /\ NetTyped /\ Wired /\ Holds /\ Ordered /\ LoginMeans /\ RenewLast
        /\ RenewMeans /\ Agreed
    BY DEF ClientInv
  <2>2. Len(requests) \in Nat /\ Len(replies) \in Nat
    BY <2>1, InLine
  <2>3. QED
    BY <2>1, <2>2, SessionNumbers DEF Room
<1>2. /\ state' = state /\ token' = token /\ known' = known /\ notified' = notified
      /\ loginQueued' = loginQueued /\ reconnectEnabled' = reconnectEnabled
      /\ reconnectTimer' = reconnectTimer /\ pendingLogin' = pendingLogin
      /\ renewTimer' = renewTimer /\ sock' = sock /\ replies' = replies /\ session' = session
  BY DEF authVars, intentVars
<1>3. /\ NextRequestId \in Numbers
      /\ \A q \in InFlight(requests) \cup InFlight(replies) : q.id # NextRequestId
  BY <1>1, NextIdIsFree
<1>4. PICK p \in Requests : /\ p.kind = kind /\ p.id = NextRequestId /\ p.token = token
                            /\ requests' = IF sock = "closing" THEN requests ELSE Append(requests, p)
  BY <1>1, Written
<1>5. ClientTyped'
  BY <1>1, <1>2, <1>3 DEF ClientTyped
<1>6. Holds'
  BY <1>1, <1>2 DEF Holds
<1>7. CASE sock = "closing"
  <2>1. requests' = requests
    BY <1>4, <1>7
  <2>2. NetTyped' /\ Wired'
    BY <1>1, <1>2, <2>1 DEF NetTyped, Wired
  <2>3. QED
    BY <1>2, <1>5, <1>6, <1>7, <2>2, Shut
<1>8. CASE sock # "closing"
  <2>1. requests' = Append(requests, p) /\ sock = "up" /\ Serving /\ Serving' /\ Open
    BY <1>1, <1>2, <1>4, <1>8 DEF Wired, NetTyped, Serving, Open
  <2>2. /\ requests' \in Seq(Requests) /\ Len(requests') = Len(requests) + 1
        /\ InFlight(requests') = InFlight(requests) \cup {p}
    BY <1>1, <1>2, <2>1, Joins
  <2>3. NetTyped'
    BY <1>1, <1>2, <2>2 DEF NetTyped
  <2>4. Wired'
    BY <1>1, <1>2, <2>1, <2>2 DEF Wired
  <2>5. Distinct /\ LoginLast /\ LoginsBehind /\ pendingLogin = 0
    BY <1>1, <2>1 DEF Ordered, Holds
  <2>6. Ordered'
    BY <1>1, <1>2, <1>3, <1>4, <2>1, <2>5, JoinsInOrder DEF Ordered
  <2>7. LoginMeans'
    BY <1>1, <1>2 DEF LoginMeans
  <2>8. RenewLast'
    <3>1. PICK n \in Nat : /\ DOMAIN Line = 1 .. n /\ DOMAIN Line' = 1 .. n + 1
                           /\ Line'[n + 1] = p
                           /\ \A i \in 1 .. n : Line'[i] = Line[i]
      BY <1>1, <1>2, <2>1, Joins
    <3> SUFFICES ASSUME NEW i \in 1 .. n + 1, Line'[i].kind = "renew"
                 PROVE  \E j \in 1 .. n + 1 : i <= j /\ Line'[j].id = pendingRenew'
      BY <3>1 DEF RenewLast
    <3>2. CASE kind = "renew"
      <4>1. n + 1 \in 1 .. n + 1 /\ i <= n + 1
        OBVIOUS
      <4>2. QED
        BY <1>4, <3>1, <3>2, <4>1
    <3>3. CASE kind # "renew"
      <4>1. i \in 1 .. n /\ Line[i].kind = "renew"
        <5>1. i = n + 1 \/ i \in 1 .. n
          OBVIOUS
        <5>2. QED
          BY <1>4, <3>1, <3>3, <5>1
      <4>2. PICK j \in 1 .. n : i <= j /\ Line[j].id = pendingRenew
        BY <1>1, <2>1, <3>1, <4>1 DEF RenewLast
      <4>3. j \in 1 .. n + 1
        OBVIOUS
      <4>4. QED
        BY <3>1, <3>3, <4>2, <4>3
    <3>4. QED
      BY <3>2, <3>3
  <2>9. RenewMeans'
    BY <1>1, <1>2, <1>4, <2>1, <2>2 DEF RenewMeans
  <2>10. Agreed'
    <3>1. Answered("logout")' = Answered("logout")
      BY <1>2 DEF Answered
    <3>2. pendingRenew' = 0 => pendingRenew = 0
      BY <1>3, SessionNumbers
    <3>3. QED
      BY <1>1, <1>2, <2>1, <3>1, <3>2 DEF Agreed
  <2>11. QED
    BY <1>5, <1>6, <2>3, <2>4, <2>6, <2>7, <2>8, <2>9, <2>10 DEF ClientInv
<1>9. QED
  BY <1>7, <1>8
LEMMA CallsAndTimers ==
    ASSUME ClientInv,
           \/ Login \/ Business \/ Logout \/ RenewToken \/ RenewTimerIgnored \/ Reconnect
    PROVE  ClientInv'
<1>1. ClientTyped /\ NetTyped /\ Wired /\ Holds
  BY DEF ClientInv
<1>2. CASE Login
  <2>1. /\ Room /\ known' = TRUE /\ loginQueued' = TRUE /\ reconnectEnabled' = TRUE
        /\ IF state \in {"Connected", "Authenticated"}
           THEN SendLoginRequest /\ UNCHANGED sock
           ELSE ConnectToServer /\ UNCHANGED <<pendingLogin, requests>>
        /\ UNCHANGED <<token, notified, pendingRenew, renewTimer, replies, session>>
        /\ reconnectTimer' \in BOOLEAN
    BY <1>1, <1>2 DEF Login, renewVars, ClientTyped
  <2>2. CASE state \in {"Connected", "Authenticated"}
    <3>1. sock \in {"handshake", "up", "closing"}
      BY <1>1, <2>2 DEF Wired, NetTyped
    <3>2. QED
      BY <2>1, <2>2, <3>1, LoginSent
  <2>3. CASE state \notin {"Connected", "Authenticated"}
    BY <2>1, <2>3, Connects
  <2>4. QED
    BY <2>2, <2>3
<1>3. CASE Business
  <2>1. /\ Room /\ state = "Authenticated" /\ Send("business")
        /\ UNCHANGED <<state, authVars, intentVars, pendingLogin, renewTimer, sock, replies, session>>
        /\ pendingRenew' = pendingRenew
    BY <1>3 DEF Business, clientVars, renewVars
  <2>2. QED
    BY <2>1, OtherSent
<1>4. CASE Logout
  <2>1. /\ Room /\ state = "Authenticated" /\ Send("logout")
        /\ UNCHANGED <<state, authVars, intentVars, pendingLogin, renewTimer, sock, replies, session>>
        /\ pendingRenew' = pendingRenew
    BY <1>4 DEF Logout, clientVars, renewVars
  <2>2. QED
    BY <2>1, OtherSent
<1>5. CASE RenewToken
  <2>1. /\ Room /\ state = "Authenticated" /\ Send("renew")
        /\ UNCHANGED <<state, authVars, intentVars, pendingLogin, renewTimer, sock, replies, session>>
        /\ pendingRenew' = NextRequestId
    BY <1>5 DEF RenewToken
  <2>2. QED
    BY <2>1, OtherSent
<1>6. CASE RenewTimerIgnored
  <2>1. /\ state # "Authenticated" /\ renewTimer' = FALSE
        /\ UNCHANGED <<state, token, notified, known, loginQueued, reconnectEnabled,
                       reconnectTimer, pendingLogin, pendingRenew, sock, requests, replies,
                       session>>
    BY <1>1, <1>6 DEF RenewTimerIgnored, Holds, authVars, intentVars, netVars
  <2>2. /\ known' \in BOOLEAN /\ loginQueued' \in BOOLEAN /\ reconnectEnabled' \in BOOLEAN
        /\ reconnectTimer' \in BOOLEAN /\ renewTimer' \in BOOLEAN
        /\ session' \in [token : {0} \cup Numbers, live : BOOLEAN, expired : BOOLEAN]
    BY <1>1, <2>1 DEF ClientTyped, NetTyped
  <2>3. QED
    BY <2>1, <2>2, Idles
<1>7. CASE Reconnect
  <2>1. /\ ConnectToServer /\ reconnectTimer' = FALSE
        /\ UNCHANGED <<token, notified, known, loginQueued, reconnectEnabled, pendingLogin,
                       pendingRenew, renewTimer, requests, replies, session>>
    BY <1>7 DEF Reconnect, authVars, renewVars
  <2>2. known' \in BOOLEAN /\ loginQueued' \in BOOLEAN /\ reconnectEnabled' \in BOOLEAN
    BY <1>1, <2>1 DEF ClientTyped
  <2>3. QED
    BY <2>1, <2>2, Connects
<1>8. QED
  BY <1>2, <1>3, <1>4, <1>5, <1>6, <1>7

-----------------------------------------------------------------------------
(***************************************************************************)
(* The socket, and the row of the session.                                 *)
(***************************************************************************)
LEMMA Disconnects ==
    ASSUME ClientInv, NEW q \in BOOLEAN, OnDisconnected(q)
    PROVE  ClientInv'
<1>1. ClientTyped /\ Holds
  BY DEF ClientInv
<1>2. /\ state' = "Disconnected" /\ sock' = "none" /\ pendingLogin' = 0 /\ pendingRenew' = 0
      /\ renewTimer' = FALSE /\ requests' = <<>> /\ replies' = <<>> /\ session' = NoSession
      /\ token' = token /\ known' = known /\ notified' = notified
      /\ reconnectEnabled' = reconnectEnabled
  BY DEF OnDisconnected, authVars
<1>3. loginQueued' \in BOOLEAN /\ reconnectTimer' \in BOOLEAN
  <2>1. loginQueued' \in BOOLEAN
    BY <1>1, Zenon DEF OnDisconnected, ClientTyped
  <2>2. reconnectTimer' \in BOOLEAN
    BY <1>1, Zenon DEF OnDisconnected, ClientTyped
  <2>3. QED
    BY <2>1, <2>2
<1>4. ClientTyped'
  BY <1>1, <1>2, <1>3 DEF ClientTyped, States
<1>5. NetTyped'
  <2>1. <<>> \in Seq(Requests) /\ <<>> \in Seq(Replies)
    OBVIOUS
  <2>2. NoSession \in [token : {0} \cup Numbers, live : BOOLEAN, expired : BOOLEAN]
    BY DEF NoSession
  <2>3. QED
    BY <1>2, <2>1, <2>2 DEF NetTyped
<1>6. Wired' /\ Holds'
  <2>1. Len(requests') + Len(replies') <= MaxInFlight
    BY <1>2, SessionNumbers
  <2>2. Wired'
    BY <1>2, <2>1 DEF Wired
  <2>3. Holds'
    BY <1>1, <1>2 DEF Holds, InFlight
  <2>4. QED
    BY <2>2, <2>3
<1>7. QED
  BY <1>2, <1>4, <1>5, <1>6, Shut

LEMMA SocketSteps ==
    ASSUME ClientInv, SocketStep \/ Drop \/ Terminated \/ Expires
    PROVE  ClientInv'
<1>1. /\ ClientTyped /\ NetTyped /\ Wired /\ Holds /\ Ordered /\ MaxInFlight \in Nat \ {0}
  BY InFlightAssumption DEF ClientInv
<1>2. CASE OnConnected
  <2>1. /\ sock = "connecting" /\ sock' = "handshake"
        /\ IF loginQueued THEN SendLoginRequest
           ELSE state' = "Connected" /\ UNCHANGED <<pendingLogin, requests>>
        /\ UNCHANGED <<token, notified, known, loginQueued, reconnectEnabled, reconnectTimer,
                       pendingRenew, renewTimer, replies, session>>
    BY <1>2 DEF OnConnected, authVars, intentVars, renewVars
  <2>2. requests = <<>> /\ replies = <<>> /\ session = NoSession
    BY <1>1, <2>1 DEF Wired
  <2>3. /\ known' \in BOOLEAN /\ loginQueued' \in BOOLEAN /\ reconnectEnabled' \in BOOLEAN
        /\ reconnectTimer' \in BOOLEAN
    BY <1>1, <2>1 DEF ClientTyped
  <2>4. CASE loginQueued
    <3>1. SendLoginRequest
      BY <2>1, <2>4
    <3>2. Room
      BY <1>1, <2>2 DEF Room
    <3>3. QED
      BY <2>1, <2>3, <3>1, <3>2, LoginSent
  <2>5. CASE ~loginQueued
    <3>1. state' = "Connected" /\ pendingLogin' = pendingLogin /\ requests' = requests
      BY <2>1, <2>5
    <3>2. ClientTyped'
      BY <1>1, <2>1, <3>1 DEF ClientTyped, States
    <3>3. NetTyped'
      BY <1>1, <2>1, <3>1 DEF NetTyped
    <3>4. Wired' /\ Holds'
      BY <1>1, <2>1, <2>2, <3>1 DEF Wired, Holds
    <3>5. (Distinct /\ LoginLast /\ LoginsBehind)' /\ ~Serving'
      BY <2>1, <2>2, <3>1, EmptyLine DEF Distinct, LoginLast, LoginsBehind, Line, Serving
    <3>6. QED
      BY <2>1, <3>2, <3>3, <3>4, <3>5
         DEF ClientInv, Ordered, LoginMeans, RenewLast, RenewMeans, Agreed
  <2>6. QED
    BY <2>4, <2>5
<1>3. CASE Encrypted
  <2>1. /\ sock = "handshake" /\ sock' = "up"
        /\ UNCHANGED <<state, token, notified, known, loginQueued, reconnectEnabled,
                       reconnectTimer, pendingLogin, pendingRenew, renewTimer, requests, replies,
                       session>>
    BY <1>3 DEF Encrypted, clientVars, authVars, intentVars, renewVars
  <2>2. state \in {"Connected", "LoggingIn"} /\ replies = <<>> /\ Distinct /\ LoginLast /\ LoginsBehind
    BY <1>1, <2>1 DEF Wired, Ordered, Open
  <2>3. ClientTyped'
    BY <1>1, <2>1 DEF ClientTyped
  <2>4. NetTyped'
    BY <1>1, <2>1 DEF NetTyped
  <2>5. Wired' /\ Holds'
    BY <1>1, <2>1, <2>2 DEF Wired, Holds
  <2>6. Ordered' /\ ~Serving'
    BY <2>1, <2>2 DEF Ordered, Distinct, LoginLast, LoginsBehind, Line, Serving
  <2>7. LoginMeans'
    BY <2>1, <2>2 DEF LoginMeans, InFlight
  <2>8. QED
    BY <2>3, <2>4, <2>5, <2>6, <2>7 DEF ClientInv, RenewLast, RenewMeans, Agreed
<1>4. CASE ConnectFails \/ OnSslErrors
  <2>1. /\ \/ sock = "connecting" /\ sock' = "none"
           \/ sock = "handshake" /\ sock' = "closing"
        /\ loginQueued' = FALSE /\ state' = "Disconnected"
        /\ UNCHANGED <<token, notified, known, reconnectEnabled, reconnectTimer, pendingLogin,
                       pendingRenew, renewTimer, requests, replies, session>>
    BY <1>4 DEF ConnectFails, OnSslErrors, authVars, renewVars
  <2>2. ClientTyped'
    BY <1>1, <2>1 DEF ClientTyped, States
  <2>3. NetTyped'
    BY <1>1, <2>1 DEF NetTyped
  <2>4. Wired' /\ Holds'
    BY <1>1, <2>1 DEF Wired, Holds
  <2>5. QED
    BY <2>1, <2>2, <2>3, <2>4, Shut
<1>5. CASE Closed
  <2>1. OnDisconnected(loginQueued) /\ loginQueued \in BOOLEAN
    BY <1>1, <1>5 DEF Closed, ClientTyped
  <2>2. QED
    BY <2>1, Disconnects
<1>6. CASE Drop
  <2>1. PICK q \in BOOLEAN : q = (loginQueued /\ state # "LoggingIn")
    BY Zenon
  <2>2. OnDisconnected(q)
    BY <1>6, <2>1 DEF Drop
  <2>3. QED
    BY <2>2, Disconnects
<1>7. CASE Terminated \/ Expires
  <2>1. UNCHANGED <<state, token, notified, known, loginQueued, reconnectEnabled,
                    reconnectTimer, pendingLogin, pendingRenew, renewTimer, sock, requests,
                    replies>>
    BY <1>7 DEF Terminated, Expires, clientVars, authVars, intentVars, renewVars, netVars
  <2>2. /\ session' \in [token : {0} \cup Numbers, live : BOOLEAN, expired : BOOLEAN]
        /\ session'.token = session.token /\ (session'.live => session.live)
        /\ session # NoSession
    <3>1. /\ session \in [token : {0} \cup Numbers, live : BOOLEAN, expired : BOOLEAN]
          /\ session.live
          /\ \/ session' = [session EXCEPT !.live = FALSE]
             \/ session' = [session EXCEPT !.expired = TRUE]
      BY <1>1, <1>7, Zenon DEF Terminated, Expires, NetTyped
    <3>2. session # NoSession
      BY <3>1 DEF NoSession
    <3>3. /\ session' \in [token : {0} \cup Numbers, live : BOOLEAN, expired : BOOLEAN]
          /\ session'.token = session.token
      BY <3>1
    <3>4. QED
      BY <3>1, <3>2, <3>3
  <2>3. /\ known' \in BOOLEAN /\ loginQueued' \in BOOLEAN /\ reconnectEnabled' \in BOOLEAN
        /\ reconnectTimer' \in BOOLEAN /\ renewTimer' \in BOOLEAN
        /\ (state = "Authenticated" => renewTimer')
    BY <1>1, <2>1 DEF ClientTyped, Holds
  <2>4. QED
    BY <2>1, <2>2, <2>3, Idles
<1>8. QED
  BY <1>2, <1>3, <1>4, <1>5, <1>6, <1>7 DEF SocketStep

-----------------------------------------------------------------------------
(***************************************************************************)
(* The server answers the first request.                                   *)
(***************************************************************************)

LEMMA HeadOfRequests ==
    ASSUME NetTyped, requests # <<>>
    PROVE  /\ Head(requests) \in Requests
           /\ Head(requests) = requests[1] /\ 1 \in 1 .. Len(requests)
BY DEF NetTyped

\* What stands before it.
LEMMA BeforeIt ==
    ASSUME ClientInv, sock = "up", requests # <<>>
    PROVE  /\ Head(requests).kind # "login" =>
                 \A p \in InFlight(replies) : p.kind # "login"
           /\ Head(requests).kind = "login" =>
                 /\ pendingLogin # 0
                 /\ \A p \in InFlight(replies) : p.id # pendingLogin
           /\ Serving /\ Head(requests).kind = "renew" => pendingRenew # 0
<1>1. NetTyped /\ Distinct /\ LoginLast /\ LoginsBehind /\ RenewLast
  BY DEF ClientInv, Ordered, Open
<1>2. /\ Head(requests) = requests[1] /\ 1 \in 1 .. Len(requests)
      /\ Head(requests).kind # "error"
  <2>1. Head(requests) = requests[1] /\ 1 \in 1 .. Len(requests) /\ Head(requests) \in Requests
    BY <1>1, HeadOfRequests
  <2>2. \A q \in Requests : q.kind # "error"
    BY DEF Requests
  <2>3. QED
    BY <2>1, <2>2
<1>3. PICK k \in DOMAIN Line : /\ k = Len(replies) + 1 /\ Line[k] = Head(requests)
  BY <1>1, <1>2, LineIs
<1>4. ASSUME NEW p \in InFlight(replies)
      PROVE  \E i \in DOMAIN Line : i < k /\ Line[i] = p
  <2>1. PICK i \in DOMAIN Line : i <= Len(replies) /\ Line[i] = p
    BY <1>1, LineIs
  <2>2. i < k
    BY <1>1, <1>3, <2>1, LineIs
  <2>3. QED
    BY <2>1, <2>2
<1>5. ASSUME Head(requests).kind # "login", NEW p \in InFlight(replies)
      PROVE  p.kind # "login"
  BY <1>1, <1>2, <1>3, <1>4, <1>5 DEF LoginsBehind
<1>6. ASSUME Head(requests).kind = "login"
      PROVE  /\ pendingLogin # 0
             /\ \A p \in InFlight(replies) : p.id # pendingLogin
  <2>1. PICK j \in DOMAIN Line : k <= j /\ Line[j].id = pendingLogin
    BY <1>1, <1>3, <1>6 DEF LoginLast
  <2>2. pendingLogin # 0
    BY <1>1, <2>1, LineIs
  <2>3. ASSUME NEW i \in DOMAIN Line, i < k, Line[i].id = pendingLogin
        PROVE  FALSE
    <3>1. i = j
      BY <1>1, <2>1, <2>3 DEF Distinct
    <3>2. i \in Nat /\ k \in Nat
      BY <1>1, LineIs
    <3>3. QED
      BY <2>1, <2>3, <3>1, <3>2
  <2>4. QED
    BY <1>4, <2>2, <2>3
<1>7. ASSUME Serving, Head(requests).kind = "renew"
      PROVE  pendingRenew # 0
  <2>1. PICK j \in DOMAIN Line : k <= j /\ Line[j].id = pendingRenew
    BY <1>1, <1>3, <1>7 DEF RenewLast
  <2>2. QED
    BY <1>1, <2>1, LineIs
<1>8. QED
  BY <1>5, <1>6, <1>7

\* What every reply keeps, whatever becomes of the session.
LEMMA ReplySent ==
    ASSUME ClientInv, NEW kind \in {"login", "logout", "renew", "business", "error"},
           NEW code \in {"ok", "invalid", "failed"}, NEW t \in {0} \cup Numbers,
           Reply(kind, code, t), kind \in {Head(requests).kind, "error"},
           kind \in {"login", "renew"} /\ code = "ok" => t # 0,
           session' \in [token : {0} \cup Numbers, live : BOOLEAN, expired : BOOLEAN]
    PROVE  /\ ClientTyped' /\ NetTyped' /\ Wired' /\ Holds' /\ Ordered' /\ RenewLast'
           /\ UNCHANGED <<state, token, pendingLogin, pendingRenew, sock>>
           /\ Serving' = Serving /\ sock = "up" /\ requests # <<>>
           /\ Head(requests) \in InFlight(requests)
           /\ InFlight(requests') \subseteq InFlight(requests)
           /\ \E p \in Replies : /\ p.kind = kind /\ p.code = code /\ p.token = t
                                 /\ p.id = Head(requests).id
                                 /\ InFlight(replies') = InFlight(replies) \cup {p}
<1>1. /\ ClientTyped /\ NetTyped /\ Wired /\ Holds /\ Ordered /\ RenewLast
  BY DEF ClientInv
<1>2. /\ sock = "up" /\ requests # <<>> /\ requests' = Tail(requests)
      /\ replies' = Append(replies, [kind |-> kind, id |-> Head(requests).id,
                                     code |-> code, token |-> t])
      /\ UNCHANGED <<state, token, known, notified, loginQueued, reconnectEnabled,
                     reconnectTimer, pendingLogin, pendingRenew, renewTimer, sock>>
  BY DEF Reply, clientVars, authVars, intentVars, renewVars
<1>3. PICK p \in Replies : /\ p.kind = kind /\ p.code = code /\ p.token = t
                           /\ p.id = Head(requests).id /\ replies' = Append(replies, p)
  <2>1. Head(requests).id \in Numbers
    BY <1>1, <1>2, HeadOfRequests, InLine
  <2>2. PICK p : p = [kind |-> kind, id |-> Head(requests).id, code |-> code, token |-> t]
    OBVIOUS
  <2>3. p \in Replies
    BY <2>1, <2>2 DEF Replies
  <2>4. QED
    BY <1>2, <2>2, <2>3
<1>4. /\ requests' \in Seq(Requests) /\ replies' \in Seq(Replies)
      /\ Len(requests') + Len(replies') = Len(requests) + Len(replies)
      /\ Head(requests) \in InFlight(requests)
      /\ InFlight(requests') \subseteq InFlight(requests)
      /\ InFlight(replies') = InFlight(replies) \cup {p}
      /\ DOMAIN Line' = DOMAIN Line
  BY <1>1, <1>2, <1>3, Turns
<1>5. \A i \in DOMAIN Line : /\ Line'[i].id = Line[i].id
                             /\ Line'[i].kind \in {Line[i].kind, "error"}
  <2>1. PICK k \in DOMAIN Line : /\ Line[k] = Head(requests) /\ Line'[k] = p
                                 /\ \A i \in DOMAIN Line : i # k => Line'[i] = Line[i]
    BY <1>1, <1>2, <1>3, Turns
  <2>2. QED
    BY <1>3, <2>1
<1>6. ClientTyped'
  BY <1>1, <1>2 DEF ClientTyped
<1>7. NetTyped'
  BY <1>1, <1>2, <1>4 DEF NetTyped
<1>8. Wired'
  BY <1>1, <1>2, <1>4 DEF Wired
<1>9. Holds'
  BY <1>1, <1>2, <1>3, <1>4 DEF Holds
<1>10. Ordered'
  <2>1. Distinct /\ LoginLast /\ LoginsBehind
    BY <1>1, <1>2 DEF Ordered, Open
  <2>2. Distinct'
    BY <1>4, <1>5, <2>1 DEF Distinct
  <2>3. LoginLast'
    BY <1>2, <1>4, <1>5, <2>1 DEF LoginLast
  <2>4. LoginsBehind'
    BY <1>4, <1>5, <2>1 DEF LoginsBehind
  <2>5. QED
    BY <2>2, <2>3, <2>4 DEF Ordered
<1>11. Serving' = Serving
  BY <1>2 DEF Serving
<1>12. RenewLast'
  BY <1>1, <1>2, <1>4, <1>5, <1>11 DEF RenewLast
<1>13. QED
  BY <1>2, <1>3, <1>4, <1>6, <1>7, <1>8, <1>9, <1>10, <1>11, <1>12

\* Errors, refusals and answers that say nothing about the session.
LEMMA ReplySentOnly ==
    ASSUME ClientInv, NEW kind \in {"login", "business", "error"},
           NEW code \in {"ok", "invalid", "failed"}, Reply(kind, code, 0),
           kind \in {Head(requests).kind, "error"}, kind = "login" => code # "ok",
           session' = session
    PROVE  ClientInv'
<1>1. /\ LoginMeans /\ RenewMeans /\ Agreed
      /\ session' \in [token : {0} \cup Numbers, live : BOOLEAN, expired : BOOLEAN]
  BY DEF ClientInv, NetTyped
<1>2. /\ ClientTyped' /\ NetTyped' /\ Wired' /\ Holds' /\ Ordered' /\ RenewLast'
      /\ UNCHANGED <<state, token, pendingLogin, pendingRenew, sock>>
      /\ Serving' = Serving
      /\ InFlight(requests') \subseteq InFlight(requests)
  BY <1>1, ReplySent
<1>3. PICK p \in Replies : /\ p.kind = kind /\ p.code = code
                           /\ InFlight(replies') = InFlight(replies) \cup {p}
  BY <1>1, ReplySent
<1>4. LoginMeans'
  BY <1>1, <1>2, <1>3 DEF LoginMeans
<1>5. RenewMeans'
  BY <1>1, <1>2, <1>3 DEF RenewMeans
<1>6. Agreed'
  BY <1>1, <1>2, <1>3 DEF Agreed, Answered
<1>7. QED
  BY <1>2, <1>4, <1>5, <1>6 DEF ClientInv

LEMMA LoginAnswered ==
    ASSUME ClientInv, Asked("login"), Reply("login", "ok", FreshToken),
           session' = NewSession(FreshToken)
    PROVE  ClientInv'
<1>1. /\ ClientTyped /\ NetTyped /\ Wired /\ Holds /\ LoginMeans /\ Head(requests).kind = "login"
      /\ requests # <<>> /\ sock = "up"
  BY DEF ClientInv, Asked, Reply
<1>2. /\ FreshToken \in {0} \cup Numbers /\ FreshToken # 0
      /\ session'.token = FreshToken
      /\ session' \in [token : {0} \cup Numbers, live : BOOLEAN, expired : BOOLEAN]
  BY <1>1, TokenIsFresh, SessionNumbers DEF Wired, NewSession
<1>3. /\ ClientTyped' /\ NetTyped' /\ Wired' /\ Holds' /\ Ordered' /\ RenewLast'
      /\ UNCHANGED <<pendingLogin, sock>>
      /\ Serving' = Serving
  BY <1>1, <1>2, ReplySent
<1>4. PICK p \in Replies : p.token = FreshToken /\ InFlight(replies') = InFlight(replies) \cup {p}
  BY <1>1, <1>2, ReplySent
<1>5. pendingLogin # 0 /\ \A q \in InFlight(replies) : q.id # pendingLogin
  BY <1>1, BeforeIt
<1>6. ~Serving'
  BY <1>1, <1>3, <1>5 DEF Holds, Serving
<1>7. LoginMeans'
  BY <1>2, <1>3, <1>4, <1>5 DEF LoginMeans
<1>8. QED
  BY <1>3, <1>6, <1>7 DEF ClientInv, RenewMeans, Agreed

\* A logout or a renewal is only processed for a session that is there: no renewal
\* before it has been answered, and no login either.
LEMMA Unanswered ==
    ASSUME ClientInv, sock = "up", requests # <<>>, SessionValid,
           Head(requests).kind # "login"
    PROVE  /\ \A p \in InFlight(replies) : p.kind # "login"
           /\ Serving => \A p \in InFlight(replies) : p.kind # "renew"
           /\ Serving /\ Head(requests).kind = "renew" => token = session.token
<1>1. NetTyped /\ RenewMeans
  BY DEF ClientInv
<1>2. Head(requests) \in InFlight(requests)
  BY <1>1, HeadOfRequests, InLine DEF InFlight
<1>3. session.live /\ Head(requests).token = session.token
  BY DEF SessionValid
<1>4. \A p \in InFlight(replies) : p.kind # "login"
  BY BeforeIt
<1>5. QED
  BY <1>1, <1>2, <1>3, <1>4 DEF RenewMeans

LEMMA LogoutAnswered ==
    ASSUME ClientInv, ProcessLogout
    PROVE  ClientInv'
<1>1. /\ NetTyped /\ RenewMeans /\ requests # <<>> /\ sock = "up"
      /\ Head(requests).kind = "logout" /\ SessionValid /\ Reply("logout", "ok", 0)
      /\ session' = NoSession
  BY DEF ClientInv, ProcessLogout, Asked, Reply
<1>2. session' \in [token : {0} \cup Numbers, live : BOOLEAN, expired : BOOLEAN]
  BY <1>1 DEF NoSession
<1>3. /\ ClientTyped' /\ NetTyped' /\ Wired' /\ Holds' /\ Ordered' /\ RenewLast'
      /\ UNCHANGED <<token, pendingLogin, sock>>
      /\ Serving' = Serving /\ InFlight(requests') \subseteq InFlight(requests)
  BY <1>1, <1>2, ReplySent
<1>4. PICK p \in Replies : p.kind = "logout" /\ InFlight(replies') = InFlight(replies) \cup {p}
  BY <1>1, <1>2, ReplySent
<1>5. /\ \A q \in InFlight(replies) : q.kind # "login"
      /\ Serving => \A q \in InFlight(replies) : q.kind # "renew"
  BY <1>1, Unanswered
<1>6. LoginMeans'
  BY <1>4, <1>5 DEF LoginMeans
<1>7. RenewMeans'
  BY <1>1, <1>3, <1>4, <1>5 DEF RenewMeans
<1>8. Agreed'
  BY <1>4 DEF Agreed, Answered
<1>9. QED
  BY <1>3, <1>6, <1>7, <1>8 DEF ClientInv

LEMMA RenewalAnswered ==
    ASSUME ClientInv, ProcessTokenRenew
    PROVE  ClientInv'
<1>1. /\ ClientTyped /\ NetTyped /\ Wired /\ RenewMeans /\ requests # <<>> /\ sock = "up"
      /\ Head(requests).kind = "renew" /\ SessionValid
      /\ \/ Reply("renew", "ok", FreshToken) /\ session' = NewSession(FreshToken)
         \/ /\ Reply("renew", "failed", 0) \/ Reply("renew", "invalid", 0)
            /\ session' = [session EXCEPT !.live = FALSE]
  BY DEF ClientInv, ProcessTokenRenew, Asked, Reply
<1>2. /\ \A q \in InFlight(replies) : q.kind # "login"
      /\ Serving => /\ \A q \in InFlight(replies) : q.kind # "renew"
                    /\ pendingRenew # 0 /\ token = session.token
  BY <1>1, Unanswered, BeforeIt
<1>3. CASE Reply("renew", "ok", FreshToken) /\ session' = NewSession(FreshToken)
  <2>1. /\ FreshToken \in {0} \cup Numbers /\ FreshToken # 0
        /\ FreshToken # token /\ session'.token = FreshToken
        /\ \A q \in InFlight(requests) : q.token # FreshToken
        /\ session' \in [token : {0} \cup Numbers, live : BOOLEAN, expired : BOOLEAN]
    BY <1>1, <1>3, TokenIsFresh, SessionNumbers DEF Wired, NewSession
  <2>2. /\ ClientTyped' /\ NetTyped' /\ Wired' /\ Holds' /\ Ordered' /\ RenewLast'
        /\ UNCHANGED <<token, pendingLogin, pendingRenew, sock>>
        /\ Serving' = Serving /\ InFlight(requests') \subseteq InFlight(requests)
    BY <1>1, <1>3, <2>1, ReplySent
  <2>3. PICK p \in Replies : /\ p.kind = "renew" /\ p.code = "ok" /\ p.token = FreshToken
                             /\ InFlight(replies') = InFlight(replies) \cup {p}
    BY <1>1, <1>3, <2>1, ReplySent
  <2>4. LoginMeans'
    BY <1>2, <2>3 DEF LoginMeans
  <2>5. RenewMeans'
    BY <1>1, <1>2, <2>1, <2>2, <2>3 DEF RenewMeans
  <2>6. Agreed'
    BY <1>2, <2>2 DEF Agreed
  <2>7. QED
    BY <2>2, <2>4, <2>5, <2>6 DEF ClientInv
<1>4. CASE /\ Reply("renew", "failed", 0) \/ Reply("renew", "invalid", 0)
           /\ session' = [session EXCEPT !.live = FALSE]
  <2>1. PICK code \in {"failed", "invalid"} : Reply("renew", code, 0)
    BY <1>4
  <2>2. /\ session'.token = session.token /\ ~session'.live
        /\ session' \in [token : {0} \cup Numbers, live : BOOLEAN, expired : BOOLEAN]
    <3>1. session \in [token : {0} \cup Numbers, live : BOOLEAN, expired : BOOLEAN]
      BY <1>1 DEF NetTyped
    <3>2. QED
      BY <1>4, <3>1
  <2>3. /\ ClientTyped' /\ NetTyped' /\ Wired' /\ Holds' /\ Ordered' /\ RenewLast'
        /\ UNCHANGED <<token, pendingLogin, pendingRenew, sock>>
        /\ Serving' = Serving /\ InFlight(requests') \subseteq InFlight(requests)
    BY <1>1, <2>1, <2>2, ReplySent
  <2>4. PICK p \in Replies : /\ p.kind = "renew" /\ p.code # "ok"
                             /\ InFlight(replies') = InFlight(replies) \cup {p}
    BY <1>1, <2>1, <2>2, ReplySent
  <2>5. LoginMeans'
    BY <1>2, <2>4 DEF LoginMeans
  <2>6. RenewMeans'
    BY <1>1, <1>2, <2>2, <2>3, <2>4 DEF RenewMeans
  <2>7. Agreed'
    BY <1>2, <2>3 DEF Agreed
  <2>8. QED
    BY <2>3, <2>5, <2>6, <2>7 DEF ClientInv
<1>5. QED
  BY <1>1, <1>3, <1>4

LEMMA ServerSteps ==
    ASSUME ClientInv, ServerStep
    PROVE  ClientInv'
<1>1. CASE ReplayRejected
  BY <1>1, ReplySentOnly DEF ReplayRejected
<1>2. CASE SessionRejected
  BY <1>2, ReplySentOnly DEF SessionRejected
<1>3. CASE ProcessLogin
  <2>1. CASE Asked("login") /\ Reply("login", "ok", FreshToken) /\ session' = NewSession(FreshToken)
    BY <2>1, LoginAnswered
  <2>2. CASE Asked("login") /\ Reply("login", "failed", 0) /\ UNCHANGED session
    BY <2>2, ReplySentOnly DEF Asked
  <2>3. QED
    BY <1>3, <2>1, <2>2 DEF ProcessLogin
<1>4. CASE ProcessLogout
  BY <1>4, LogoutAnswered
<1>5. CASE ProcessTokenRenew
  BY <1>5, RenewalAnswered
<1>6. CASE ProcessBusiness
  BY <1>6, ReplySentOnly DEF ProcessBusiness, Asked
<1>7. QED
  BY <1>1, <1>2, <1>3, <1>4, <1>5, <1>6 DEF ServerStep

-----------------------------------------------------------------------------
(***************************************************************************)
(* The client reads the first reply.                                       *)
(***************************************************************************)

\* What is left of the line keeps its order.  Behind the answer to the awaited
\* login there are only errors, behind that to the awaited renewal no renewals.
LEMMA Taken ==
    ASSUME ClientInv, sock = "up", replies # <<>>, replies' = Tail(replies),
           requests' = requests
    PROVE  /\ Distinct' /\ LoginsBehind'
           /\ pendingLogin' = pendingLogin => LoginLast'
           /\ Head(replies).kind = "login" /\ Head(replies).id = pendingLogin =>
                 \A i \in DOMAIN Line' : Line'[i].kind = "error"
           /\ Serving /\ pendingRenew' = pendingRenew =>
                 \A i \in DOMAIN Line' : Line'[i].kind = "renew" =>
                    \E j \in DOMAIN Line' : i <= j /\ Line'[j].id = pendingRenew'
           /\ Serving /\ Head(replies).id = pendingRenew =>
                 \A i \in DOMAIN Line' : Line'[i].kind # "renew"
<1>1. NetTyped /\ Distinct /\ LoginLast /\ LoginsBehind /\ RenewLast
  BY DEF ClientInv, Ordered, Open
<1>2. /\ 1 \in DOMAIN Line /\ Line[1] = Head(replies)
      /\ \A i \in DOMAIN Line' : i + 1 \in DOMAIN Line /\ Line'[i] = Line[i + 1]
      /\ \A i \in DOMAIN Line : i # 1 => i - 1 \in DOMAIN Line'
  BY <1>1, Leaves
<1>3. /\ DOMAIN Line \subseteq Nat /\ \A i \in DOMAIN Line : i >= 1
  BY <1>1, LineIs
<1>4. \A i \in DOMAIN Line' : i \in Nat /\ i >= 1
  BY <1>1, Leaves
<1>5. Distinct'
  <2> SUFFICES ASSUME NEW i \in DOMAIN Line', NEW j \in DOMAIN Line',
                      Line'[i].id = Line'[j].id
               PROVE  i = j
    BY DEF Distinct
  <2>1. i + 1 = j + 1
    BY <1>1, <1>2 DEF Distinct
  <2>2. QED
    BY <1>4, <2>1
<1>6. LoginsBehind'
  <2> SUFFICES ASSUME NEW i \in DOMAIN Line', NEW j \in DOMAIN Line', i < j,
                      Line'[i].kind = "login"
               PROVE  Line'[j].kind \in {"login", "error"}
    BY DEF LoginsBehind
  <2>1. i + 1 < j + 1
    BY <1>4
  <2>2. QED
    BY <1>1, <1>2, <2>1 DEF LoginsBehind
<1>7. ASSUME NEW x, NEW i \in DOMAIN Line', NEW j \in DOMAIN Line, i + 1 <= j, Line[j].id = x
      PROVE  \E m \in DOMAIN Line' : i <= m /\ Line'[m].id = x
  <2>1. j # 1 /\ j - 1 \in DOMAIN Line' /\ (j - 1) + 1 = j /\ i <= j - 1
    BY <1>2, <1>3, <1>4, <1>7
  <2>2. Line'[j - 1] = Line[(j - 1) + 1]
    BY <1>2, <2>1
  <2>3. QED
    BY <1>7, <2>1, <2>2
<1>8. ASSUME pendingLogin' = pendingLogin
      PROVE  LoginLast'
  <2> SUFFICES ASSUME NEW i \in DOMAIN Line', Line'[i].kind = "login"
               PROVE  \E j \in DOMAIN Line' : i <= j /\ Line'[j].id = pendingLogin
    BY <1>8 DEF LoginLast
  <2>1. PICK j \in DOMAIN Line : i + 1 <= j /\ Line[j].id = pendingLogin
    BY <1>1, <1>2 DEF LoginLast
  <2>2. QED
    BY <1>7, <2>1
<1>9. ASSUME Head(replies).kind = "login", Head(replies).id = pendingLogin,
             NEW i \in DOMAIN Line'
      PROVE  Line'[i].kind = "error"
  <2>1. 1 < i + 1 /\ i + 1 \in DOMAIN Line
    BY <1>2, <1>4
  <2>2. Line[i + 1].kind \in {"login", "error"}
    BY <1>1, <1>2, <1>9, <2>1 DEF LoginsBehind
  <2>3. Line[i + 1].kind # "login"
    <3> SUFFICES ASSUME Line[i + 1].kind = "login"
                 PROVE  FALSE
      OBVIOUS
    <3>1. PICK j \in DOMAIN Line : i + 1 <= j /\ Line[j].id = pendingLogin
      BY <1>1, <2>1 DEF LoginLast
    <3>2. j = 1
      BY <1>1, <1>2, <1>9, <3>1 DEF Distinct
    <3>3. QED
      BY <1>4, <3>1, <3>2
  <2>4. QED
    BY <1>2, <2>2, <2>3
<1>10. ASSUME Serving, pendingRenew' = pendingRenew, NEW i \in DOMAIN Line',
              Line'[i].kind = "renew"
       PROVE  \E j \in DOMAIN Line' : i <= j /\ Line'[j].id = pendingRenew'
  <2>1. PICK j \in DOMAIN Line : i + 1 <= j /\ Line[j].id = pendingRenew
    BY <1>1, <1>2, <1>10 DEF RenewLast
  <2>2. QED
    BY <1>7, <1>10, <2>1
<1>11. ASSUME Serving, Head(replies).id = pendingRenew, NEW i \in DOMAIN Line',
              Line'[i].kind = "renew"
       PROVE  FALSE
  <2>1. PICK j \in DOMAIN Line : i + 1 <= j /\ Line[j].id = pendingRenew
    BY <1>1, <1>2, <1>11 DEF RenewLast
  <2>2. j = 1
    BY <1>1, <1>2, <1>11, <2>1 DEF Distinct
  <2>3. QED
    BY <1>4, <2>1, <2>2
<1>12. QED
  BY <1>5, <1>6, <1>8, <1>9, <1>10, <1>11

\* Nothing is promised of a socket that is not up; one that is up is left with
\* the rest of its line.
LEMMA ReplyTaken ==
    ASSUME ClientInv, NEW kind, Receive(kind), ClientTyped',
           sock' = sock \/ sock' = "closing",
           sock' = "up" => state' \in {"Connected", "LoggingIn", "Authenticated"}
    PROVE  /\ NetTyped' /\ Wired' /\ session' = session
           /\ replies # <<>> /\ Head(replies).kind = kind
           /\ Head(replies) \in Replies /\ Head(replies) \in InFlight(replies)
           /\ replies' = Tail(replies) /\ requests' = requests
           /\ InFlight(replies') \subseteq InFlight(replies)
           /\ InFlight(replies) \subseteq InFlight(replies') \cup {Head(replies)}
           /\ Holds' /\ sock' # "up" => ClientInv'
<1>1. /\ NetTyped /\ Wired /\ sock \in {"up", "closing"} /\ sock' \in {"up", "closing"}
      /\ replies # <<>> /\ Head(replies).kind = kind
      /\ replies' = Tail(replies) /\ requests' = requests /\ session' = session
  BY DEF ClientInv, Receive
<1>2. /\ replies' \in Seq(Replies) /\ Len(replies') = Len(replies) - 1
      /\ Head(replies) \in Replies /\ Head(replies) \in InFlight(replies)
      /\ InFlight(replies') \subseteq InFlight(replies)
      /\ InFlight(replies) \subseteq InFlight(replies') \cup {Head(replies)}
  BY <1>1, Leaves
<1>3. NetTyped'
  BY <1>1, <1>2 DEF NetTyped
<1>4. Len(requests') + Len(replies') <= MaxInFlight
  <2>1. Len(requests) \in Nat /\ Len(replies) \in Nat /\ MaxInFlight \in Nat
        /\ Len(requests) + Len(replies) <= MaxInFlight
    BY <1>1, InLine, SessionNumbers DEF Wired
  <2>2. QED
    BY <1>1, <1>2, <2>1
<1>5. Wired'
  BY <1>1, <1>4 DEF Wired
<1>6. Holds' /\ sock' # "up" => ClientInv'
  BY <1>1, <1>3, <1>5, Shut
<1>7. QED
  BY <1>1, <1>2, <1>3, <1>5, <1>6

\* A reply that is for nobody, or tells the client nothing.
LEMMA Ignored ==
    ASSUME ClientInv, NEW kind, Receive(kind), kind # "logout",
           UNCHANGED <<state, token, known, notified, loginQueued, reconnectEnabled,
                       reconnectTimer, pendingLogin, pendingRenew, renewTimer, sock>>
    PROVE  ClientInv'
<1>1. /\ ClientTyped /\ NetTyped /\ Wired /\ Holds
      /\ LoginMeans /\ RenewMeans /\ Agreed
  BY DEF ClientInv
<1>2. ClientTyped'
  BY <1>1 DEF ClientTyped
<1>3. sock' = "up" => state' \in {"Connected", "LoggingIn", "Authenticated"}
  BY <1>1 DEF Wired
<1>4. /\ NetTyped' /\ Wired' /\ session' = session
      /\ replies # <<>> /\ Head(replies).kind = kind
      /\ replies' = Tail(replies) /\ requests' = requests
      /\ InFlight(replies') \subseteq InFlight(replies)
      /\ InFlight(replies) \subseteq InFlight(replies') \cup {Head(replies)}
      /\ Holds' /\ sock' # "up" => ClientInv'
  BY <1>2, <1>3, ReplyTaken
<1>5. Holds'
  BY <1>1, <1>4 DEF Holds
<1>6. CASE sock = "up"
  <2>1. Ordered'
    BY <1>4, <1>6, Taken DEF Ordered
  <2>2. Serving' = Serving
    BY DEF Serving
  <2>3. RenewLast'
    BY <1>4, <1>6, <2>2, Taken DEF RenewLast
  <2>4. LoginMeans'
    BY <1>1, <1>4 DEF LoginMeans
  <2>5. RenewMeans'
    BY <1>1, <1>4, <2>2 DEF RenewMeans
  <2>6. Answered("logout") => Answered("logout")'
    BY <1>4 DEF Answered
  <2>7. Agreed'
    BY <1>1, <1>4, <2>2, <2>6 DEF Agreed
  <2>8. QED
    BY <1>2, <1>4, <1>5, <2>1, <2>3, <2>4, <2>5, <2>7 DEF ClientInv
<1>7. QED
  BY <1>4, <1>5, <1>6

\* What holds of the line holds of every packet in it.
EachInLine ==
    \A p \in InFlight(requests) \cup InFlight(replies) : \E i \in DOMAIN Line : Line[i] = p

LEMMA LinePackets == NetTyped' => EachInLine'
<1>1. NetTyped => EachInLine
  BY LineIs DEF EachInLine
<1>2. QED
  BY <1>1, PTL

LEMMA LoginHandled ==
    ASSUME ClientInv, HandleLoginResponse
    PROVE  ClientInv'
<1>1. /\ ClientTyped /\ NetTyped /\ Wired /\ Holds /\ LoginMeans
      /\ Receive("login") /\ sock' = sock
  BY DEF ClientInv, HandleLoginResponse
<1>2. CASE Head(replies).id # pendingLogin
  <2>1. UNCHANGED clientVars
    BY <1>2 DEF HandleLoginResponse
  <2>2. QED
    BY <1>1, <2>1, Ignored DEF clientVars, authVars, intentVars, renewVars
<1>3. CASE Head(replies).id = pendingLogin
  <2>1. /\ pendingLogin' = 0
        /\ \/ /\ Head(replies).code = "ok" /\ token' = Head(replies).token
              /\ notified' = FALSE /\ loginQueued' = FALSE
              /\ state' = "Authenticated" /\ renewTimer' = TRUE
           \/ /\ Head(replies).code # "ok" /\ state' = "Connected"
              /\ UNCHANGED <<token, notified, loginQueued, renewTimer>>
        /\ UNCHANGED <<known, reconnectEnabled, reconnectTimer, pendingRenew>>
    BY <1>3 DEF HandleLoginResponse
  <2>2. /\ replies # <<>> /\ Head(replies).kind = "login" /\ replies' = Tail(replies)
        /\ requests' = requests
        /\ Head(replies).token \in {0} \cup Numbers /\ Head(replies) \in InFlight(replies)
    <3>1. /\ replies # <<>> /\ Head(replies).kind = "login" /\ replies' = Tail(replies)
          /\ requests' = requests
      BY <1>1 DEF Receive
    <3>2. QED
      BY <1>1, <3>1, Leaves, InLine
  <2>3. ClientTyped'
    BY <1>1, <2>1, <2>2 DEF ClientTyped, States
  <2>4. state' \in {"Connected", "LoggingIn", "Authenticated"}
    BY <2>1
  <2>5. /\ NetTyped' /\ Wired' /\ session' = session
        /\ InFlight(replies') \subseteq InFlight(replies)
        /\ Holds' /\ sock' # "up" => ClientInv'
    BY <1>1, <2>3, <2>4, ReplyTaken
  <2>6. Holds'
    BY <1>1, <2>1, <2>2, <2>5 DEF Holds
  <2>7. CASE sock = "up"
    <3>1. /\ Distinct' /\ LoginsBehind' /\ \A i \in DOMAIN Line' : Line'[i].kind = "error"
      BY <1>3, <2>2, <2>7, Taken
    <3>2. Ordered' /\ RenewLast'
      BY <3>1 DEF Ordered, LoginLast, RenewLast
    <3>3. /\ \A q \in InFlight(requests') : q.kind = "error"
          /\ \A q \in InFlight(replies') : q.kind = "error"
      BY <2>5, <3>1, LinePackets DEF EachInLine
    <3>4. LoginMeans' /\ RenewMeans'
      BY <3>3 DEF LoginMeans, RenewMeans
    <3>5. Agreed'
      <4>1. Serving' => token' = session'.token
        BY <1>1, <1>3, <2>1, <2>2, <2>5, <2>7 DEF LoginMeans, Serving
      <4>2. QED
        BY <4>1 DEF Agreed
    <3>6. QED
      BY <2>3, <2>5, <2>6, <3>2, <3>4, <3>5 DEF ClientInv
  <2>8. QED
    BY <1>1, <2>5, <2>6, <2>7
<1>4. QED
  BY <1>2, <1>3

LEMMA LogoutHandled ==
    ASSUME ClientInv, HandleLogoutResponse
    PROVE  ClientInv'
<1>1. /\ ClientTyped /\ NetTyped /\ Holds /\ LoginMeans
      /\ Receive("logout") /\ sock' = sock
      /\ state' = "Connected" /\ token' = 0 /\ known' = FALSE /\ renewTimer' = FALSE
      /\ pendingRenew' = 0 /\ reconnectEnabled' = FALSE
      /\ UNCHANGED <<notified, loginQueued, reconnectTimer, pendingLogin>>
  BY DEF ClientInv, HandleLogoutResponse, ResetAuthState
<1>2. ClientTyped'
  BY <1>1 DEF ClientTyped, States
<1>3. /\ NetTyped' /\ Wired' /\ session' = session
      /\ replies # <<>> /\ replies' = Tail(replies) /\ requests' = requests
      /\ InFlight(replies') \subseteq InFlight(replies)
      /\ Holds' /\ sock' # "up" => ClientInv'
  BY <1>1, <1>2, ReplyTaken
<1>4. Holds'
  BY <1>1, <1>3 DEF Holds
<1>5. CASE sock = "up"
  <2>1. Ordered'
    BY <1>1, <1>3, <1>5, Taken DEF Ordered
  <2>2. ~Serving'
    BY <1>1 DEF Serving
  <2>3. LoginMeans'
    BY <1>1, <1>3 DEF LoginMeans
  <2>4. QED
    BY <1>2, <1>3, <1>4, <2>1, <2>2, <2>3 DEF ClientInv, RenewLast, RenewMeans, Agreed
<1>6. QED
  BY <1>1, <1>3, <1>4, <1>5

\* notifySessionExpired(), for a reply to a client that it had not been called for.
LEMMA ExpiryTold ==
    ASSUME ClientInv, NEW kind, Receive(kind), ~notified, NotifySessionExpired
    PROVE  ClientInv'
<1>1. /\ ClientTyped /\ NetTyped /\ Holds /\ sock \in {"up", "closing"}
      /\ notified' = TRUE /\ token' = 0 /\ known' = FALSE /\ renewTimer' = FALSE
      /\ pendingRenew' = 0 /\ loginQueued' = FALSE /\ reconnectEnabled' = FALSE
      /\ state' = "Disconnected" /\ sock' = "closing"
      /\ UNCHANGED <<reconnectTimer, pendingLogin>>
  BY DEF ClientInv, Receive, NotifySessionExpired, ResetAuthState
<1>2. ClientTyped'
  BY <1>1 DEF ClientTyped, States
<1>3. InFlight(replies') \subseteq InFlight(replies) /\ (Holds' /\ sock' # "up" => ClientInv')
  BY <1>1, <1>2, ReplyTaken
<1>4. Holds'
  BY <1>1, <1>3 DEF Holds
<1>5. QED
  BY <1>1, <1>3, <1>4

LEMMA RenewalHandled ==
    ASSUME ClientInv, HandleTokenRenewResponse
    PROVE  ClientInv'
<1>1. /\ ClientTyped /\ NetTyped /\ Wired /\ Holds /\ LoginMeans /\ RenewMeans
      /\ Receive("renew")
  BY DEF ClientInv, HandleTokenRenewResponse
<1>2. CASE Head(replies).id # pendingRenew
  <2>1. UNCHANGED <<clientVars, sock>>
    BY <1>2 DEF HandleTokenRenewResponse
  <2>2. QED
    BY <1>1, <2>1, Ignored DEF clientVars, authVars, intentVars, renewVars
<1>3. CASE Head(replies).id = pendingRenew
  <2>1. /\ replies # <<>> /\ Head(replies).kind = "renew" /\ replies' = Tail(replies)
        /\ requests' = requests
        /\ Head(replies).token \in {0} \cup Numbers /\ Head(replies) \in InFlight(replies)
        /\ Head(replies).id # 0
    <3>1. /\ replies # <<>> /\ Head(replies).kind = "renew" /\ replies' = Tail(replies)
          /\ requests' = requests
      BY <1>1 DEF Receive
    <3>2. QED
      BY <1>1, <3>1, Leaves, InLine, SessionNumbers
  <2>2. ~notified
    BY <1>1, <1>3, <2>1 DEF Holds
  <2>3. CASE /\ \/ Head(replies).code = "ok" /\ token' = Head(replies).token
                \/ Head(replies).code # "ok" /\ token' = token
             /\ pendingRenew' = 0 /\ renewTimer' = TRUE
             /\ UNCHANGED <<state, known, notified, loginQueued, reconnectEnabled,
                            reconnectTimer, pendingLogin, sock>>
    <3>1. ClientTyped'
      BY <1>1, <2>1, <2>3 DEF ClientTyped
    <3>2. sock' = "up" => state' \in {"Connected", "LoggingIn", "Authenticated"}
      BY <1>1, <2>3 DEF Wired
    <3>3. /\ NetTyped' /\ Wired' /\ session' = session
          /\ InFlight(replies') \subseteq InFlight(replies)
          /\ Holds' /\ sock' # "up" => ClientInv'
      BY <1>1, <2>3, <3>1, <3>2, ReplyTaken
    <3>4. Holds'
      BY <1>1, <2>1, <2>2, <2>3, <3>3 DEF Holds
    <3>5. CASE sock = "up"
      <4>1. Ordered'
        BY <2>1, <2>3, <3>5, Taken DEF Ordered
      <4>2. LoginMeans'
        BY <1>1, <2>3, <3>3 DEF LoginMeans
      <4>3. Serving' = Serving
        BY <2>3 DEF Serving
      <4>4. ASSUME Serving
            PROVE  /\ \A i \in DOMAIN Line' : Line'[i].kind # "renew"
                   /\ token' = session'.token
        <5>1. \A i \in DOMAIN Line' : Line'[i].kind # "renew"
          BY <1>3, <2>1, <3>5, <4>4, Taken
        <5>2. token' = session'.token
          BY <1>1, <2>1, <2>3, <3>3, <4>4 DEF RenewMeans
        <5>3. QED
          BY <5>1, <5>2
      <4>5. RenewLast' /\ Agreed'
        BY <4>3, <4>4 DEF RenewLast, Agreed
      <4>6. RenewMeans'
        <5>1. Serving' => /\ \A q \in InFlight(requests') : q.kind # "renew"
                          /\ \A q \in InFlight(replies') : q.kind # "renew"
          BY <3>3, <4>3, <4>4, LinePackets DEF EachInLine
        <5>2. QED
          BY <5>1 DEF RenewMeans
      <4>7. QED
        BY <3>1, <3>3, <3>4, <4>1, <4>2, <4>5, <4>6 DEF ClientInv
    <3>6. QED
      BY <2>3, <3>3, <3>4, <3>5
  <2>4. CASE NotifySessionExpired
    BY <1>1, <2>2, <2>4, ExpiryTold
  <2>5. QED
    BY <1>3, <2>3, <2>4 DEF HandleTokenRenewResponse, authVars, intentVars
<1>4. QED
  BY <1>2, <1>3

LEMMA ReplySteps ==
    ASSUME ClientInv, ClientReceive
    PROVE  ClientInv'
<1>1. CASE HandleLoginResponse
  BY <1>1, LoginHandled
<1>2. CASE HandleLogoutResponse
  BY <1>2, LogoutHandled
<1>3. CASE HandleTokenRenewResponse
  BY <1>3, RenewalHandled
<1>4. CASE HandleBusinessResponse
  BY <1>4, Ignored
     DEF HandleBusinessResponse, clientVars, authVars, intentVars, renewVars
<1>5. CASE HandleErrorResponse
  <2>1. Receive("error") /\ (NotifySessionExpired \/ UNCHANGED <<clientVars, sock>>)
    BY <1>5 DEF HandleErrorResponse
  <2>2. CASE ~notified /\ NotifySessionExpired
    BY <2>1, <2>2, ExpiryTold
  <2>3. CASE UNCHANGED <<clientVars, sock>>
    BY <2>1, <2>3, Ignored DEF clientVars, authVars, intentVars, renewVars
  <2>4. QED
    BY <2>1, <2>2, <2>3 DEF NotifySessionExpired
<1>6. QED
  BY <1>1, <1>2, <1>3, <1>4, <1>5 DEF ClientReceive

-----------------------------------------------------------------------------
LEMMA ClientInit ==
    ASSUME Init
    PROVE  ClientInv
<1>1. /\ state = "Disconnected" /\ sock = "none" /\ token = 0 /\ pendingLogin = 0
      /\ pendingRenew = 0 /\ known = FALSE /\ notified = FALSE /\ loginQueued = FALSE
      /\ reconnectEnabled = FALSE /\ reconnectTimer = FALSE /\ renewTimer = FALSE
      /\ requests = <<>> /\ replies = <<>> /\ session = NoSession
  BY DEF Init
<1>2. ClientTyped
  BY <1>1 DEF ClientTyped, States
<1>3. NetTyped
  <2>1. <<>> \in Seq(Requests) /\ <<>> \in Seq(Replies)
    OBVIOUS
  <2>2. NoSession \in [token : {0} \cup Numbers, live : BOOLEAN, expired : BOOLEAN]
    BY DEF NoSession
  <2>3. QED
    BY <1>1, <2>1, <2>2 DEF NetTyped
<1>4. Wired /\ Holds
  BY <1>1, SessionNumbers DEF Wired, Holds, InFlight
<1>5. QED
  BY <1>1, <1>2, <1>3, <1>4
     DEF ClientInv, Ordered, Open, LoginMeans, RenewLast, RenewMeans, Agreed, Serving

LEMMA ClientStep ==
    ASSUME ClientInv, [Next]_vars
    PROVE  ClientInv'
<1>1. CASE UNCHANGED vars
  <2>1. /\ UNCHANGED <<state, token, known, notified, loginQueued, reconnectEnabled,
                       reconnectTimer, pendingLogin, pendingRenew, renewTimer, sock, requests,
                       replies>>
        /\ session' = session
    BY <1>1 DEF vars, clientVars, authVars, intentVars, renewVars, netVars
  <2>2. ClientTyped /\ NetTyped /\ Holds
    BY DEF ClientInv
  <2>3. /\ known' \in BOOLEAN /\ loginQueued' \in BOOLEAN /\ reconnectEnabled' \in BOOLEAN
        /\ reconnectTimer' \in BOOLEAN /\ renewTimer' \in BOOLEAN
        /\ (state = "Authenticated" => renewTimer')
        /\ session' \in [token : {0} \cup Numbers, live : BOOLEAN, expired : BOOLEAN]
    BY <2>1, <2>2 DEF ClientTyped, NetTyped, Holds
  <2>4. QED
    BY <2>1, <2>3, Idles
<1>2. CASE Next
  BY <1>2, CallsAndTimers, SocketSteps, ServerSteps, ReplySteps DEF Next
<1>3. QED
  BY <1>1, <1>2

LEMMA ClientInvariant == Spec => []ClientInv
BY ClientInit, ClientStep, PTL DEF Spec

\* The types of the fields of NetworkManager, of the packets on the way and of
\* the server's side of the connection.
THEOREM ClientTypeCorrect == Spec => []TypeOK
<1>1. ClientInv => TypeOK
  BY TypeParts DEF ClientInv
<1>2. QED
  BY <1>1, ClientInvariant, PTL

\* handleLoginResponse, handleTokenRenewResponse: an authenticated client holds
\* the token of the session of its connection, however many logins and renewals
\* were given up and answered late.
THEOREM TokenAgrees == Spec => []TokenAgreement
<1>1. ClientInv => TokenAgreement
  BY DEF ClientInv, Agreed, Serving, TokenAgreement
<1>2. QED
  BY <1>1, ClientInvariant, PTL

\* m_tokenRenewTimer: no reply, timer or lost connection leaves an authenticated
\* client without a renewal that is due, being retried or watched.
THEOREM RenewalIsScheduled == Spec => []RenewalScheduled
<1>1. ClientInv => RenewalScheduled
  BY DEF ClientInv, Holds, RenewalScheduled
<1>2. QED
  BY <1>1, ClientInvariant, PTL

\* notifySessionExpired: what was declared over stays over until a login succeeds,
\* whatever is still on its way.
THEOREM ExpiryIsFinal == Spec => []ExpiredIsOver
<1>1. ClientInv => ExpiredIsOver
  BY DEF ClientInv, Holds, ExpiredIsOver
<1>2. QED
  BY <1>1, ClientInvariant, PTL
=============================================================================
