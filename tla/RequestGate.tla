----------------------------- MODULE RequestGate -----------------------------
(***************************************************************************)
(* The gate every request passes: timestamp and nonce.                     *)
(*                                                                         *)
(* A request carries the client's time and a nonce of its own.  Copies of  *)
(* it may reach the server at any time, on any connection.  The handler    *)
(* thread compares the timestamp with its clock, then takes the mutex of   *)
(* the one NonceCache of the server, which reads the clock again.  The     *)
(* cache removes what has expired when it is half full, and more when it   *)
(* is full.  It is empty after a restart.                                  *)
(*                                                                         *)
(* Time is counted in units that need not be seconds; missing fields and   *)
(* malformed ones are refused before all of this.                          *)
(***************************************************************************)
EXTENDS Integers, FiniteSets

CONSTANTS
    Nonces,
    GateHandlers,  \* handler threads
    Tolerance,     \* ReplayTimestampToleranceSecs (300)
    Ttl,           \* NonceCache::m_ttlSeconds (600)
    MaxEntries,    \* NonceCache::m_maxEntries (100000)
    MaxTime        \* bound: the clock

ASSUME GateConstants ==
    /\ IsFiniteSet(Nonces)
    /\ {Tolerance, Ttl, MaxEntries, MaxTime} \subseteq Nat
    /\ Ttl >= 2 * Tolerance

VARIABLES
    clock,      \* the server's clock
    stamp,      \* timestamp of the request with each nonce; NoTime: not sent
    seen,       \* NonceCache::m_nonces
    gate,       \* request whose timestamp a handler has compared, and when
    passed,     \* how often the request with each nonce has passed; 2: or more
    forgotten,  \* history: nonces dropped before their time
    late        \* history: nonces that passed when the clock had gone on

gateHistory == <<forgotten, late>>
gateVars == <<clock, stamp, seen, gate, passed, gateHistory>>

Times == 0 .. MaxTime
NoTime == -1

\* The nonces in the cache.
Known == {n \in Nonces : seen[n] # NoTime}

GateTypeOK ==
    /\ clock \in Times
    /\ stamp \in [Nonces -> Times \cup {NoTime}]
    /\ seen \in [Nonces -> Times \cup {NoTime}]
    /\ gate \in [GateHandlers -> SUBSET [nonce : Nonces, at : Times]]
    /\ passed \in [Nonces -> 0 .. 2]
    /\ forgotten \subseteq Nonces /\ late \subseteq Nonces

GateInit ==
    /\ clock = 0
    /\ stamp = [n \in Nonces |-> NoTime] /\ seen = [n \in Nonces |-> NoTime]
    /\ gate = [h \in GateHandlers |-> {}]
    /\ passed = [n \in Nonces |-> 0] /\ forgotten = {} /\ late = {}

-----------------------------------------------------------------------------
\* A client makes a request; its clock may be ahead or behind.
MakeRequest(n, t) ==
    /\ stamp[n] = NoTime
    /\ stamp' = [stamp EXCEPT ![n] = t]
    /\ UNCHANGED <<clock, seen, gate, passed, gateHistory>>

GateTick ==
    /\ clock < MaxTime /\ clock' = clock + 1
    /\ UNCHANGED <<stamp, seen, gate, passed, gateHistory>>

\* checkReplayProtection() of a copy of the request: the timestamp.
CheckTimestamp(h, n) ==
    /\ gate[h] = {} /\ stamp[n] # NoTime
    /\ clock - stamp[n] \in -Tolerance .. Tolerance
    /\ gate' = [gate EXCEPT ![h] = {[nonce |-> n, at |-> clock]}]
    /\ UNCHANGED <<clock, stamp, seen, passed, gateHistory>>

\* Faulty variant: an entry is let go at the end of its time, not after it.
ExpiredEarly(n) == seen[n] # NoTime /\ clock - seen[n] >= Ttl

Expired(n) == seen[n] # NoTime /\ clock - seen[n] > Ttl

\* Expired entries are removed when the cache is more than half full ...
Purged ==
    IF Cardinality(Known) > MaxEntries \div 2
    THEN [n \in Nonces |-> IF Expired(n) THEN NoTime ELSE seen[n]]
    ELSE seen

\* ... and, to take in another one when it is still full, those past half their
\* time.  It may stay full: then it grows.
Evicted ==
    IF Cardinality({n \in Nonces : Purged[n] # NoTime}) >= MaxEntries
    THEN [n \in Nonces |-> IF Purged[n] < clock - Ttl \div 2 THEN NoTime ELSE Purged[n]]
    ELSE Purged

\* checkAndInsert() under the mutex.
CheckAndInsert(h) ==
    \E g \in gate[h] :
        /\ gate' = [gate EXCEPT ![h] = {}]
        /\ IF seen[g.nonce] # NoTime /\ ~Expired(g.nonce)
           THEN seen' = Purged /\ UNCHANGED <<passed, forgotten, late>>
           ELSE /\ seen' = [Evicted EXCEPT ![g.nonce] = clock]
                /\ passed' = [passed EXCEPT ![g.nonce] = IF @ = 2 THEN 2 ELSE @ + 1]
                /\ forgotten' = forgotten \cup {n \in Known : /\ ~Expired(n)
                                                              /\ seen'[n] = NoTime}
                /\ late' = IF g.at = clock THEN late ELSE late \cup {g.nonce}
        /\ UNCHANGED <<clock, stamp>>

\* The server process ends and starts again.
GateRestart ==
    /\ forgotten' = forgotten \cup Known
    /\ seen' = [n \in Nonces |-> NoTime]
    /\ gate' = [h \in GateHandlers |-> {}]
    /\ UNCHANGED <<clock, stamp, passed, late>>

-----------------------------------------------------------------------------
GateNext ==
    \/ \E n \in Nonces :
          \/ \E t \in Times : MakeRequest(n, t)
          \/ \E h \in GateHandlers : CheckTimestamp(h, n)
    \/ \E h \in GateHandlers : CheckAndInsert(h)
    \/ GateTick \/ GateRestart

GateSpec == GateInit /\ [][GateNext]_gateVars

-----------------------------------------------------------------------------
\* A request passes once, whatever copies of it arrive and when, and whatever
\* the client's clock: an entry lives as long as the tolerance is wide, so when
\* it may go the timestamp is out of the tolerance.  The exceptions are entries
\* dropped before their time, by a restart or by a full cache, and a handler
\* whose two readings of the clock differ: at the end of the tolerance one unit
\* between them is enough.
PassesOnce == \A n \in Nonces \ (forgotten \cup late) : passed[n] <= 1
=============================================================================
