---------------------------- MODULE ServerProofs ----------------------------
(***************************************************************************)
(* Theorems about the parts of the server that one run explores, for every *)
(* value of the constants: Prekeys, RequestGate, and their composition     *)
(* with SessionRouting and Receipts in MCServer.                           *)
(***************************************************************************)
EXTENDS MCServer, SessionRoutingProofs, ReceiptsProofs

-----------------------------------------------------------------------------
(***************************************************************************)
(* Prekeys, for any number of senders, prekeys, identities and bundles.    *)
(*                                                                         *)
(* Both properties rest on what a prekey that can still be handed out or   *)
(* used, a live one, says about the device (LiveRowsInv), on what a bundle *)
(* on its way remembers of its prekey (BundleInv), and on who may still    *)
(* store a content with which prekey (HolderInv).  They need no type of    *)
(* conversations and fetches, so PrekeyTyped leaves these out; ClaimsInv   *)
(* adds them.                                                              *)
(***************************************************************************)
PrekeyRows == [state : {"none", "unused", "claimed", "used"}, of : Identities,
               old : BOOLEAN, claims : Nat]
Bundles == [step : BundleSteps, id : 0 .. MaxPrekey, of : Identities,
            identity : Identities, registered : Identities]
StoredContents == [kind : ContentKinds, id : PrekeyIds, of : Identities,
                   identity : Identities, registered : Identities]

PrekeyTyped ==
    /\ identityRow \in Identities /\ ownIdentity \in 1 .. MaxIdentity
    /\ prekey \in [PrekeyIds -> PrekeyRows]
    /\ uploaded \in Nat
    /\ register \in [step : {"idle", "purge", "upsert", "upload"}, prekeys : Nat]
    /\ bundle \in [KeyUsers -> Bundles]
    /\ \A k \in KeyUsers : bundle[k].step # "none" => bundle[k].id \in PrekeyIds
    /\ contents \in Seq(StoredContents)
    /\ kept \subseteq PrekeyIds
    /\ raced \subseteq PrekeyIds /\ unconsumed \subseteq PrekeyIds

\* A prekey that can be handed out, or that a message can refer to.
Live(id) == prekey[id].state \in {"unused", "claimed"}

\* A bundle for which no content is stored yet; one whose message has passed
\* the check.
Pending(b) == b.step \notin {"none", "consume"}
Checked(b) == b.step \in {"conversation", "create", "store"}

\* A registration writes the identity key before it uploads prekeys.
RegisterInv == register.step = "upload" => identityRow = ownIdentity

\* A live prekey that no failed purge has left belongs to the identity key in the
\* table, and to that of the device once the registration has purged.
LiveRowsInv ==
    \A id \in PrekeyIds : Live(id) =>
        /\ id <= uploaded
        /\ id \notin kept =>
              /\ prekey[id].of = identityRow
              /\ identityRow # 0
              /\ register.step = "upsert" => identityRow = ownIdentity

\* A bundle remembers the identity its prekey was uploaded with.  If that prekey
\* is still live, and not because a purge has failed, the identity key that was
\* read after the claim is the same.
Remembers(b) ==
    b.step # "none" =>
        /\ b.id <= uploaded
        /\ b.of = prekey[b.id].of
        /\ b.step # "claimed" /\ Live(b.id) /\ b.id \notin kept => b.identity = b.of
        /\ Checked(b) /\ b.id \notin kept =>
              b.identity = b.of /\ b.identity = b.registered

BundleInv == \A k \in KeyUsers : Remembers(bundle[k])

\* A prekey of which two contents may be or come to be stored was claimed twice;
\* if two messages can come of it, one of the races has happened.
Holds(b) == b.step # "none" => prekey[b.id].claims >= 1

Meets(b, c) ==
    b.step # "none" /\ c.step # "none" /\ c.id = b.id =>
        /\ prekey[b.id].claims > 1
        /\ Checked(b) /\ Checked(c) => b.id \in raced

MeetsContent(b, content) ==
    Pending(b) /\ content.id = b.id =>
        /\ prekey[b.id].claims > 1
        /\ Checked(b) /\ content.kind = "message" => b.id \in raced \cup unconsumed

HolderInv ==
    \A k \in KeyUsers :
        /\ Holds(bundle[k])
        /\ \A j \in KeyUsers \ {k} : Meets(bundle[k], bundle[j])
        /\ \A i \in DOMAIN contents : MeetsContent(bundle[k], contents[i])

\* A stored message has used its prekey up, unless it was not consumed.
UsedUp(content) ==
    /\ content.id <= uploaded
    /\ prekey[content.id].claims >= 1
    /\ content.kind = "message" => ~Live(content.id) \/ content.id \in unconsumed

ContentInv == \A i \in DOMAIN contents : UsedUp(contents[i])

PrekeyInv ==
    /\ PrekeyTyped
    /\ RegisterInv /\ LiveRowsInv
    /\ BundleInv /\ HolderInv /\ ContentInv
    /\ NoMixedBundle /\ OneTimeUse

-----------------------------------------------------------------------------
\* The bounds are natural numbers.
LEMMA PrekeyBounds == MaxPrekey \in Nat /\ MaxIdentity \in Nat /\ MaxIdentity # 0
BY PrekeyConstants

\* The parts of the type that arithmetic is about.
LEMMA PrekeyNumbers ==
    ASSUME PrekeyTyped
    PROVE  /\ uploaded \in Nat /\ register.prekeys \in Nat
           /\ ownIdentity \in Identities /\ ownIdentity # 0
           /\ \A id \in PrekeyIds : id \in Nat /\ prekey[id].claims \in Nat
BY PrekeyBounds DEF PrekeyTyped, PrekeyRows, PrekeyIds, Identities

-----------------------------------------------------------------------------
(***************************************************************************)
(* What every step does to the prekeys.                                    *)
(***************************************************************************)

\* A prekey that was uploaded keeps its identity, its claims only grow in
\* number, and once it is not live it stays so.
Ages ==
    /\ uploaded <= uploaded' /\ uploaded' \in Nat
    /\ kept \subseteq kept'
    /\ raced \subseteq raced' /\ unconsumed \subseteq unconsumed'
    /\ \A id \in PrekeyIds :
          /\ prekey[id].claims <= prekey'[id].claims /\ prekey'[id].claims \in Nat
          /\ id <= uploaded => prekey'[id].of = prekey[id].of /\ (Live(id)' => Live(id))

\* The reclaim turns old claims into unused prekeys and nothing else.
LEMMA ReclaimedRows ==
    ASSUME PrekeyTyped
    PROVE  /\ Reclaimed \in [PrekeyIds -> PrekeyRows]
           /\ \A id \in PrekeyIds :
                 /\ Reclaimed[id].of = prekey[id].of
                 /\ Reclaimed[id].claims = prekey[id].claims
                 /\ Reclaimed[id].state \in {"unused", "claimed"} <=> Live(id)
                 /\ Reclaimed[id].state \in {"unused", "claimed"} \/ Reclaimed[id] = prekey[id]
<1> SUFFICES ASSUME NEW id \in PrekeyIds
             PROVE  /\ Reclaimed[id] \in PrekeyRows
                    /\ Reclaimed[id].of = prekey[id].of
                    /\ Reclaimed[id].claims = prekey[id].claims
                    /\ Reclaimed[id].state \in {"unused", "claimed"} <=> Live(id)
                    /\ Reclaimed[id].state \in {"unused", "claimed"} \/ Reclaimed[id] = prekey[id]
  BY DEF Reclaimed
<1>1. prekey[id] \in PrekeyRows
  BY DEF PrekeyTyped
<1>2. CASE prekey[id].state = "claimed" /\ prekey[id].old
  <2>1. Reclaimed[id] = [prekey[id] EXCEPT !.state = "unused", !.old = FALSE]
    BY <1>2 DEF Reclaimed
  <2>2. QED
    BY <1>1, <1>2, <2>1 DEF PrekeyRows, Live
<1>3. CASE ~(prekey[id].state = "claimed" /\ prekey[id].old)
  BY <1>1, <1>3 DEF Reclaimed, Live
<1>4. QED
  BY <1>2, <1>3

\* What a claim does, for the prekey it hands out and for the others.
LEMMA ClaimEffect ==
    ASSUME PrekeyTyped, NEW k \in KeyUsers, Claim(k)
    PROVE  \E id \in PrekeyIds :
              /\ Live(id)
              /\ prekey' \in [PrekeyIds -> PrekeyRows]
              /\ \A j \in PrekeyIds :
                    /\ prekey'[j].of = prekey[j].of
                    /\ prekey'[j].claims = IF j = id THEN prekey[j].claims + 1
                                           ELSE prekey[j].claims
                    /\ Live(j)' <=> Live(j)
              /\ bundle' = [bundle EXCEPT ![k] = [NoBundle EXCEPT
                               !.step = "claimed", !.id = id, !.of = prekey[id].of]]
<1>1. PICK id \in Unused :
        /\ prekey' = [Reclaimed EXCEPT ![id].state = "claimed", ![id].claims = @ + 1]
        /\ bundle' = [bundle EXCEPT ![k] = [NoBundle EXCEPT
                         !.step = "claimed", !.id = id, !.of = prekey[id].of]]
  BY DEF Claim
<1>2. id \in PrekeyIds /\ Reclaimed[id].state = "unused" /\ Reclaimed[id] \in PrekeyRows
  BY ReclaimedRows DEF Unused
<1>3. prekey'[id] = [Reclaimed[id] EXCEPT !.state = "claimed",
                                          !.claims = Reclaimed[id].claims + 1]
  BY <1>1, <1>2, ReclaimedRows
<1>4. /\ prekey'[id] \in PrekeyRows
      /\ prekey'[id].of = prekey[id].of
      /\ prekey'[id].claims = prekey[id].claims + 1
      /\ prekey'[id].state = "claimed"
  <2>1. /\ prekey'[id] \in PrekeyRows
        /\ prekey'[id].of = Reclaimed[id].of
        /\ prekey'[id].claims = Reclaimed[id].claims + 1
        /\ prekey'[id].state = "claimed"
    <3>1. prekey'[id] = [state |-> "claimed", of |-> Reclaimed[id].of,
                         old |-> Reclaimed[id].old, claims |-> Reclaimed[id].claims + 1]
      BY <1>2, <1>3 DEF PrekeyRows
    <3>2. QED
      BY <1>2, <3>1 DEF PrekeyRows
  <2>2. Reclaimed[id].of = prekey[id].of /\ Reclaimed[id].claims = prekey[id].claims
    BY <1>2, ReclaimedRows
  <2>3. QED
    BY <2>1, <2>2
<1>5. \A j \in PrekeyIds \ {id} : prekey'[j] = Reclaimed[j]
  BY <1>1, <1>2, ReclaimedRows
<1>6. prekey' \in [PrekeyIds -> PrekeyRows]
  <2>1. prekey' = [j \in PrekeyIds |-> prekey'[j]]
    BY <1>1, <1>2, ReclaimedRows
  <2>2. \A j \in PrekeyIds : prekey'[j] \in PrekeyRows
    BY <1>4, <1>5, ReclaimedRows
  <2>3. QED
    BY <2>1, <2>2
<1>7. Live(id)
  BY <1>2, ReclaimedRows
<1>8. ASSUME NEW j \in PrekeyIds
      PROVE  /\ prekey'[j].of = prekey[j].of
             /\ prekey'[j].claims = IF j = id THEN prekey[j].claims + 1
                                    ELSE prekey[j].claims
             /\ Live(j)' <=> Live(j)
  <2>1. CASE j = id
    BY <1>4, <1>7, <2>1 DEF Live
  <2>2. CASE j # id
    <3>1. prekey'[j] = Reclaimed[j]
      BY <1>5, <2>2
    <3>2. QED
      BY <2>2, <3>1, ReclaimedRows DEF Live
  <2>3. QED
    BY <2>1, <2>2
<1>9. QED
  BY <1>1, <1>2, <1>6, <1>7, <1>8

\* Consuming ends the claim; a prekey that is unused again stays so.
LEMMA ConsumeEffect ==
    ASSUME PrekeyTyped, NEW id \in PrekeyIds, Consume(id)
    PROVE  /\ prekey' \in [PrekeyIds -> PrekeyRows]
           /\ \A j \in PrekeyIds :
                 /\ prekey'[j].of = prekey[j].of
                 /\ prekey'[j].claims = prekey[j].claims
                 /\ Live(j)' => Live(j)
           /\ Live(id)' => prekey[id].state = "unused"
<1>1. prekey[id] \in PrekeyRows /\ prekey \in [PrekeyIds -> PrekeyRows]
  BY DEF PrekeyTyped
<1>2. prekey'[id] = [state |-> IF prekey[id].state = "claimed" THEN "used"
                               ELSE prekey[id].state,
                     of |-> prekey[id].of, old |-> FALSE, claims |-> prekey[id].claims]
  BY <1>1 DEF Consume, PrekeyRows
<1>3. \A j \in PrekeyIds \ {id} : prekey'[j] = prekey[j]
  BY <1>1 DEF Consume
<1>4. prekey'[id] \in PrekeyRows
  BY <1>1, <1>2 DEF PrekeyRows
<1>5. prekey' = [j \in PrekeyIds |-> prekey'[j]]
  BY <1>1 DEF Consume
<1>6. prekey' \in [PrekeyIds -> PrekeyRows]
  BY <1>1, <1>3, <1>4, <1>5
<1>7. Live(id)' => prekey[id].state = "unused"
  BY <1>2 DEF Live
<1>8. ASSUME NEW j \in PrekeyIds
      PROVE  /\ prekey'[j].of = prekey[j].of
             /\ prekey'[j].claims = prekey[j].claims
             /\ Live(j)' => Live(j)
  BY <1>2, <1>3 DEF Live
<1>9. QED
  BY <1>6, <1>7, <1>8

-----------------------------------------------------------------------------
(***************************************************************************)
(* The device's steps change no bundle and no content.                     *)
(***************************************************************************)

\* A registration, its statements and the passing of time keep the types and
\* the age of the prekeys, and a live prekey belongs to the registered identity.
LEMMA DeviceStep ==
    ASSUME PrekeyInv,
           \/ \E n \in 0 .. MaxPrekey, renewed \in BOOLEAN : RegisterKeys(renewed, n)
           \/ RegisterStep
           \/ \E id \in PrekeyIds : ClaimGetsOld(id)
    PROVE  /\ PrekeyTyped' /\ Ages /\ RegisterInv' /\ LiveRowsInv'
           /\ UNCHANGED senderSide
<1>1. PrekeyTyped /\ RegisterInv /\ LiveRowsInv
  BY DEF PrekeyInv
<1>2. prekey \in [PrekeyIds -> PrekeyRows] /\ \A id \in PrekeyIds : prekey[id] \in PrekeyRows
  BY <1>1 DEF PrekeyTyped
<1>3. /\ uploaded \in Nat /\ register.prekeys \in Nat
      /\ ownIdentity \in Identities /\ ownIdentity # 0
      /\ \A id \in PrekeyIds : id \in Nat /\ prekey[id].claims \in Nat
  BY <1>1, PrekeyNumbers
<1>4. ASSUME NEW n \in 0 .. MaxPrekey, NEW renewed \in BOOLEAN, RegisterKeys(renewed, n)
      PROVE  PrekeyTyped' /\ Ages /\ RegisterInv' /\ LiveRowsInv' /\ UNCHANGED senderSide
  <2>1. PrekeyTyped' /\ UNCHANGED senderSide
    BY <1>1, <1>4 DEF RegisterKeys, PrekeyTyped, senderSide, prekeyHistory, Identities
  <2>2. Ages
    BY <1>1, <1>3, <1>4 DEF RegisterKeys, Ages, senderSide, prekeyHistory, Live
  <2>3. RegisterInv' /\ LiveRowsInv'
    BY <1>1, <1>4 DEF RegisterKeys, RegisterInv, LiveRowsInv, Live
  <2>4. QED
    BY <2>1, <2>2, <2>3
<1>5. CASE RegisterPurge
  <2>1. /\ UNCHANGED <<identityRow, uploaded, ownIdentity, raced, unconsumed, senderSide>>
        /\ register'.step = "upsert"
        /\ register' \in [step : {"idle", "purge", "upsert", "upload"}, prekeys : Nat]
        /\ kept \subseteq kept' /\ kept' \subseteq PrekeyIds
    BY <1>1, <1>5 DEF RegisterPurge, senderSide, prekeyHistory, PrekeyTyped, Worthless
  <2>2. \A id \in PrekeyIds :
           /\ prekey'[id] \in PrekeyRows
           /\ prekey'[id].of = prekey[id].of /\ prekey'[id].claims = prekey[id].claims
           /\ Live(id)' => /\ Live(id)
                           /\ id \notin kept' => identityRow \in {0, ownIdentity}
    <3> SUFFICES ASSUME NEW id \in PrekeyIds
                 PROVE  /\ prekey'[id] \in PrekeyRows
                        /\ prekey'[id].of = prekey[id].of
                        /\ prekey'[id].claims = prekey[id].claims
                        /\ Live(id)' => /\ Live(id)
                                        /\ id \notin kept' =>
                                              identityRow \in {0, ownIdentity}
      OBVIOUS
    <3>1. CASE prekey'[id] = prekey[id] /\ id \notin Worthless
      BY <1>2, <3>1 DEF Live, Worthless
    <3>2. CASE prekey'[id] = prekey[id] /\ id \in kept'
      BY <1>2, <3>2 DEF Live
    <3>3. CASE prekey'[id] = [prekey[id] EXCEPT !.state = "none"]
      <4>1. /\ prekey'[id] \in PrekeyRows /\ prekey'[id].of = prekey[id].of
            /\ prekey'[id].claims = prekey[id].claims /\ prekey'[id].state = "none"
        BY <1>2, <3>3 DEF PrekeyRows
      <4>2. QED
        BY <4>1 DEF Live
    <3>4. QED
      BY <1>5, <3>1, <3>2, <3>3 DEF RegisterPurge, Purge
  <2>3. prekey' \in [PrekeyIds -> PrekeyRows]
    BY <1>2, <1>5, <2>2 DEF RegisterPurge, Purge
  <2>4. PrekeyTyped'
    BY <1>1, <2>1, <2>3 DEF PrekeyTyped, senderSide, prekeyHistory
  <2>5. Ages
    BY <1>3, <2>1, <2>2 DEF Ages
  <2>6. RegisterInv' /\ LiveRowsInv'
    BY <1>1, <2>1, <2>2 DEF RegisterInv, LiveRowsInv
  <2>7. QED
    BY <2>1, <2>4, <2>5, <2>6
<1>6. CASE RegisterUpsert
  <2>1. PrekeyTyped' /\ UNCHANGED senderSide
    BY <1>1, <1>6 DEF RegisterUpsert, PrekeyTyped, senderSide, prekeyHistory, Identities
  <2>2. Ages
    BY <1>3, <1>6 DEF RegisterUpsert, Ages, senderSide, prekeyHistory, Live
  <2>3. RegisterInv' /\ LiveRowsInv'
    BY <1>1, <1>3, <1>6 DEF RegisterUpsert, RegisterInv, LiveRowsInv, Live
  <2>4. QED
    BY <2>1, <2>2, <2>3
<1>7. CASE RegisterUpload
  <2>1. /\ uploaded' = uploaded + register.prekeys
        /\ uploaded \in Nat /\ register.prekeys \in Nat
        /\ identityRow = ownIdentity /\ ownIdentity \in Identities /\ ownIdentity # 0
        /\ UNCHANGED <<identityRow, ownIdentity, kept, raced, unconsumed>>
        /\ register' = [step |-> "idle", prekeys |-> 0]
    BY <1>1, <1>3, <1>7 DEF RegisterUpload, RegisterInv, senderSide, prekeyHistory
  <2>2. uploaded' \in Nat /\ uploaded <= uploaded'
    BY <2>1
  <2>3. ASSUME NEW id \in PrekeyIds
        PROVE  /\ prekey'[id] \in PrekeyRows /\ prekey'[id].claims = prekey[id].claims
               /\ \/ /\ id \in uploaded + 1 .. uploaded'
                     /\ prekey'[id].of = ownIdentity
                  \/ /\ id \notin uploaded + 1 .. uploaded'
                     /\ prekey'[id] = prekey[id]
    <3>1. prekey'[id] = IF id \in uploaded + 1 .. uploaded'
                        THEN [prekey[id] EXCEPT !.state = "unused", !.of = ownIdentity]
                        ELSE prekey[id]
      BY <1>7 DEF RegisterUpload
    <3>2. prekey[id] \in PrekeyRows
      BY <1>2
    <3>3. CASE id \in uploaded + 1 .. uploaded'
      <4>1. prekey'[id] = [state |-> "unused", of |-> ownIdentity,
                           old |-> prekey[id].old, claims |-> prekey[id].claims]
        BY <3>1, <3>2, <3>3 DEF PrekeyRows
      <4>2. prekey'[id] \in PrekeyRows
        BY <2>1, <3>2, <4>1 DEF PrekeyRows
      <4>3. QED
        BY <3>3, <4>1, <4>2
    <3>4. CASE id \notin uploaded + 1 .. uploaded'
      BY <3>1, <3>2, <3>4
    <3>5. QED
      BY <3>3, <3>4
  <2>4. \A id \in PrekeyIds : id <= uploaded => prekey'[id] = prekey[id]
    BY <1>3, <2>2, <2>3
  <2>5. prekey' \in [PrekeyIds -> PrekeyRows]
    BY <1>7, <2>3 DEF RegisterUpload
  <2>6. PrekeyTyped' /\ UNCHANGED senderSide
    <3>1. UNCHANGED <<senderSide, bundle, contents, raced, unconsumed>>
      BY <1>7 DEF RegisterUpload, senderSide, prekeyHistory
    <3>2. register' \in [step : {"idle", "purge", "upsert", "upload"}, prekeys : Nat]
      BY <2>1
    <3>3. QED
      BY <1>1, <2>1, <2>2, <2>5, <3>1, <3>2 DEF PrekeyTyped
  <2>7. Ages
    BY <1>3, <2>1, <2>2, <2>3, <2>4 DEF Ages, Live
  <2>8. LiveRowsInv'
    <3> SUFFICES ASSUME NEW id \in PrekeyIds, Live(id)'
                 PROVE  /\ id <= uploaded'
                        /\ id \notin kept => prekey'[id].of = identityRow
      BY <2>1 DEF LiveRowsInv
    <3>1. CASE id \in uploaded + 1 .. uploaded'
      BY <1>3, <2>1, <2>2, <2>3, <3>1
    <3>2. CASE id \notin uploaded + 1 .. uploaded'
      BY <1>1, <1>3, <2>1, <2>2, <2>3, <3>2 DEF LiveRowsInv, Live
    <3>3. QED
      BY <3>1, <3>2
  <2>9. QED
    BY <2>1, <2>6, <2>7, <2>8 DEF RegisterInv
<1>8. ASSUME NEW id \in PrekeyIds, ClaimGetsOld(id)
      PROVE  PrekeyTyped' /\ Ages /\ RegisterInv' /\ LiveRowsInv' /\ UNCHANGED senderSide
  <2>1. prekey' = [prekey EXCEPT ![id].old = TRUE]
    BY <1>8 DEF ClaimGetsOld
  <2>2. \A j \in PrekeyIds :
           /\ prekey'[j] \in PrekeyRows
           /\ prekey'[j].of = prekey[j].of /\ prekey'[j].claims = prekey[j].claims
           /\ Live(j)' => Live(j)
    BY <1>2, <2>1 DEF PrekeyRows, Live
  <2>3. prekey' \in [PrekeyIds -> PrekeyRows]
    BY <1>2, <2>1, <2>2
  <2>4. PrekeyTyped' /\ UNCHANGED senderSide
    BY <1>1, <1>8, <2>3 DEF ClaimGetsOld, PrekeyTyped, deviceSide, senderSide, prekeyHistory
  <2>5. Ages
    BY <1>1, <1>3, <1>8, <2>2
    DEF ClaimGetsOld, Ages, deviceSide, senderSide, prekeyHistory
  <2>6. RegisterInv' /\ LiveRowsInv'
    BY <1>1, <1>8, <2>2 DEF ClaimGetsOld, RegisterInv, LiveRowsInv, deviceSide
  <2>7. QED
    BY <2>4, <2>5, <2>6
<1>9. CASE RegisterFails
  <2>1. /\ UNCHANGED <<identityRow, prekey, uploaded, ownIdentity, kept, senderSide>>
        /\ UNCHANGED <<bundle, contents, raced, unconsumed>>
        /\ register' = [step |-> "idle", prekeys |-> 0]
    BY <1>9 DEF RegisterFails, senderSide, prekeyHistory
  <2>2. register' \in [step : {"idle", "purge", "upsert", "upload"}, prekeys : Nat]
    BY <2>1
  <2>3. PrekeyTyped'
    BY <1>1, <2>1, <2>2 DEF PrekeyTyped
  <2>4. Ages
    BY <1>3, <2>1 DEF Ages, Live
  <2>5. RegisterInv' /\ LiveRowsInv'
    BY <1>1, <2>1 DEF RegisterInv, LiveRowsInv, Live
  <2>6. QED
    BY <2>1, <2>3, <2>4, <2>5
<1>10. QED
  BY <1>4, <1>5, <1>6, <1>7, <1>8, <1>9 DEF RegisterStep

-----------------------------------------------------------------------------
(***************************************************************************)
(* What the age of the prekeys keeps, for bundles and contents that a step *)
(* leaves alone.                                                           *)
(***************************************************************************)

\* A bundle that is not touched remembers what it remembered.
LEMMA RememberedStays ==
    ASSUME PrekeyTyped, Ages, NEW b \in Bundles, b.step # "none" => b.id \in PrekeyIds,
           Remembers(b)
    PROVE  Remembers(b)'
<1> SUFFICES ASSUME b.step # "none" PROVE Remembers(b)'
  BY DEF Remembers
<1>1. /\ b.id <= uploaded /\ b.of = prekey[b.id].of
      /\ b.step # "claimed" /\ Live(b.id) /\ b.id \notin kept => b.identity = b.of
      /\ Checked(b) /\ b.id \notin kept => b.identity = b.of /\ b.identity = b.registered
  BY DEF Remembers
<1>2. b.id \in PrekeyIds /\ b.id \in Nat /\ uploaded \in Nat
  BY PrekeyNumbers
<1>3. /\ prekey'[b.id].of = prekey[b.id].of
      /\ Live(b.id)' => Live(b.id)
  BY <1>1, <1>2 DEF Ages
<1>4. uploaded <= uploaded' /\ uploaded' \in Nat /\ kept \subseteq kept'
  BY DEF Ages
<1>5. QED
  BY <1>1, <1>2, <1>3, <1>4 DEF Remembers, Checked

\* A bundle that only loses its step, or keeps it, meets no one it did not meet.
Recedes(b, c) ==
    /\ c.step # "none" => b.step # "none" /\ c.id = b.id
    /\ Pending(c) => Pending(b)
    /\ Checked(c) => Checked(b)

LEMMA HoldsStays ==
    ASSUME PrekeyTyped, Ages, NEW b \in Bundles, b.step # "none" => b.id \in PrekeyIds,
           NEW c \in Bundles, Recedes(b, c), Holds(b)
    PROVE  Holds(c)'
<1> SUFFICES ASSUME c.step # "none" PROVE Holds(c)'
  BY DEF Holds
<1>1. b.step # "none" /\ c.id = b.id /\ c.id \in PrekeyIds
  BY DEF Recedes
<1>2. prekey[c.id].claims >= 1 /\ prekey[c.id].claims \in Nat
  BY <1>1, PrekeyNumbers DEF Holds
<1>3. prekey[c.id].claims <= prekey'[c.id].claims /\ prekey'[c.id].claims \in Nat
  BY <1>1 DEF Ages
<1>4. QED
  BY <1>2, <1>3 DEF Holds

LEMMA MeetsStays ==
    ASSUME PrekeyTyped, Ages,
           NEW b \in Bundles, b.step # "none" => b.id \in PrekeyIds,
           NEW bNew \in Bundles, Recedes(b, bNew),
           NEW c \in Bundles, NEW cNew \in Bundles, Recedes(c, cNew),
           Meets(b, c)
    PROVE  Meets(bNew, cNew)'
<1> SUFFICES ASSUME bNew.step # "none", cNew.step # "none", cNew.id = bNew.id
             PROVE  Meets(bNew, cNew)'
  BY DEF Meets
<1>1. /\ b.step # "none" /\ c.step # "none" /\ c.id = b.id /\ bNew.id = b.id
      /\ b.id \in PrekeyIds
      /\ Checked(bNew) => Checked(b)
      /\ Checked(cNew) => Checked(c)
  BY DEF Recedes
<1>2. /\ prekey[b.id].claims > 1 /\ prekey[b.id].claims \in Nat
      /\ Checked(b) /\ Checked(c) => b.id \in raced
  BY <1>1, PrekeyNumbers DEF Meets
<1>3. /\ prekey[b.id].claims <= prekey'[b.id].claims /\ prekey'[b.id].claims \in Nat
      /\ raced \subseteq raced'
  BY <1>1 DEF Ages
<1>4. prekey'[bNew.id].claims > 1
  BY <1>1, <1>2, <1>3
<1>5. Checked(bNew) /\ Checked(cNew) => bNew.id \in raced'
  BY <1>1, <1>2, <1>3
<1>6. QED
  BY <1>4, <1>5 DEF Meets, Checked

LEMMA MeetsContentStays ==
    ASSUME PrekeyTyped, Ages,
           NEW b \in Bundles, b.step # "none" => b.id \in PrekeyIds,
           NEW bNew \in Bundles, Recedes(b, bNew), NEW content, MeetsContent(b, content)
    PROVE  MeetsContent(bNew, content)'
<1> SUFFICES ASSUME Pending(bNew), content.id = bNew.id
             PROVE  MeetsContent(bNew, content)'
  BY DEF MeetsContent, Pending
<1>1. /\ Pending(b) /\ b.step # "none" /\ bNew.id = b.id /\ b.id \in PrekeyIds
      /\ Checked(bNew) => Checked(b)
  BY DEF Recedes, Pending
<1>2. /\ prekey[b.id].claims > 1 /\ prekey[b.id].claims \in Nat
      /\ Checked(b) /\ content.kind = "message" => b.id \in raced \cup unconsumed
  BY <1>1, PrekeyNumbers DEF MeetsContent
<1>3. /\ prekey[b.id].claims <= prekey'[b.id].claims /\ prekey'[b.id].claims \in Nat
      /\ raced \subseteq raced' /\ unconsumed \subseteq unconsumed'
  BY <1>1 DEF Ages
<1>4. prekey'[bNew.id].claims > 1
  BY <1>1, <1>2, <1>3
<1>5. Checked(bNew) /\ content.kind = "message" => bNew.id \in raced' \cup unconsumed'
  BY <1>1, <1>2, <1>3
<1>6. QED
  BY <1>4, <1>5 DEF MeetsContent, Checked

\* A stored content stays as used up as it was.
LEMMA UsedUpStays ==
    ASSUME PrekeyTyped, Ages, NEW content \in StoredContents, UsedUp(content)
    PROVE  UsedUp(content)'
<1>1. /\ content.id <= uploaded /\ content.id \in Nat /\ uploaded \in Nat
      /\ content.id \in PrekeyIds
      /\ prekey[content.id].claims >= 1 /\ prekey[content.id].claims \in Nat
      /\ content.kind = "message" => ~Live(content.id) \/ content.id \in unconsumed
  BY PrekeyNumbers DEF UsedUp, StoredContents
<1>2. /\ uploaded <= uploaded' /\ uploaded' \in Nat
      /\ Live(content.id)' => Live(content.id)
      /\ prekey[content.id].claims <= prekey'[content.id].claims
      /\ prekey'[content.id].claims \in Nat
      /\ unconsumed \subseteq unconsumed'
  BY <1>1 DEF Ages
<1>3. QED
  BY <1>1, <1>2 DEF UsedUp

\* The bundles as the lemmas above take them.
LEMMA BundleRows ==
    ASSUME PrekeyTyped
    PROVE  /\ \A k \in KeyUsers : /\ bundle[k] \in Bundles
                                  /\ bundle[k].step # "none" => bundle[k].id \in PrekeyIds
           /\ \A i \in DOMAIN contents : contents[i] \in StoredContents
           /\ \A b \in Bundles : Recedes(b, b)
BY DEF PrekeyTyped, Recedes

\* Where no content is stored, bundles that recede keep what is said of holders.
LEMMA HoldersStay ==
    ASSUME PrekeyTyped, PrekeyTyped', Ages, HolderInv, UNCHANGED contents,
           \A k \in KeyUsers : Recedes(bundle[k], bundle'[k])
    PROVE  HolderInv'
<1> SUFFICES ASSUME NEW k \in KeyUsers
             PROVE  /\ Holds(bundle[k])'
                    /\ \A j \in KeyUsers \ {k} : Meets(bundle[k], bundle[j])'
                    /\ \A i \in DOMAIN contents : MeetsContent(bundle[k], contents[i])'
  BY DEF HolderInv
<1>1. /\ \A j \in KeyUsers : /\ bundle[j] \in Bundles /\ bundle'[j] \in Bundles
                             /\ bundle[j].step # "none" => bundle[j].id \in PrekeyIds
  BY BundleRows DEF PrekeyTyped
<1>2. Holds(bundle[k])'
  <2>1. Holds(bundle[k])
    BY DEF HolderInv
  <2>2. QED
    BY <1>1, <2>1, HoldsStays DEF Holds
<1>3. ASSUME NEW j \in KeyUsers \ {k} PROVE Meets(bundle[k], bundle[j])'
  <2>1. Meets(bundle[k], bundle[j])
    BY DEF HolderInv
  <2>2. QED
    BY <1>1, <2>1, MeetsStays DEF Meets, Checked
<1>4. ASSUME NEW i \in DOMAIN contents PROVE MeetsContent(bundle[k], contents[i])'
  <2>1. MeetsContent(bundle[k], contents[i])
    BY DEF HolderInv
  <2>2. QED
    BY <1>1, <2>1, MeetsContentStays DEF MeetsContent, Checked, Pending
<1>5. QED
  BY <1>2, <1>3, <1>4

\* Contents that are stored keep what is said of them.
LEMMA ContentsStay ==
    ASSUME PrekeyInv, Ages, UNCHANGED contents
    PROVE  ContentInv' /\ NoMixedBundle' /\ OneTimeUse'
<1>1. PrekeyTyped /\ ContentInv /\ NoMixedBundle /\ OneTimeUse
  BY DEF PrekeyInv
<1>2. ContentInv'
  <2> SUFFICES ASSUME NEW i \in DOMAIN contents PROVE UsedUp(contents[i])'
    BY DEF ContentInv
  <2>1. contents[i] \in StoredContents /\ UsedUp(contents[i])
    BY <1>1, BundleRows DEF ContentInv
  <2>2. QED
    BY <1>1, <2>1, UsedUpStays DEF UsedUp, Live
<1>3. NoMixedBundle'
  BY <1>1 DEF NoMixedBundle, Ages
<1>4. OneTimeUse'
  <2> SUFFICES ASSUME NEW i \in DOMAIN contents, NEW j \in DOMAIN contents,
                      i # j, contents[i].id = contents[j].id
               PROVE  /\ prekey'[contents[i].id].claims > 1
                      /\ \/ contents[i].id \in raced' \cup unconsumed'
                         \/ {contents[i].kind, contents[j].kind}
                                \cap {"edit", "distribution"} # {}
    BY DEF OneTimeUse
  <2>1. /\ prekey[contents[i].id].claims > 1
        /\ \/ contents[i].id \in raced \cup unconsumed
           \/ {contents[i].kind, contents[j].kind} \cap {"edit", "distribution"} # {}
    BY <1>1 DEF OneTimeUse
  <2>2. contents[i].id \in PrekeyIds
    BY <1>1, BundleRows DEF StoredContents
  <2>3. /\ prekey[contents[i].id].claims <= prekey'[contents[i].id].claims
        /\ prekey[contents[i].id].claims \in Nat
        /\ prekey'[contents[i].id].claims \in Nat
        /\ raced \subseteq raced' /\ unconsumed \subseteq unconsumed'
    BY <1>1, <2>2, PrekeyNumbers DEF Ages
  <2>4. prekey'[contents[i].id].claims > 1
    BY <2>1, <2>3
  <2>5. QED
    BY <2>1, <2>3, <2>4
<1>5. QED
  BY <1>2, <1>3, <1>4

-----------------------------------------------------------------------------
(***************************************************************************)
(* The senders' steps change one bundle and nothing of the device.         *)
(***************************************************************************)
SenderAges ==
    /\ UNCHANGED deviceSide
    /\ prekey' \in [PrekeyIds -> PrekeyRows]
    /\ raced \subseteq raced' /\ unconsumed \subseteq unconsumed'
    /\ raced' \subseteq PrekeyIds /\ unconsumed' \subseteq PrekeyIds
    /\ \A id \in PrekeyIds :
          /\ prekey[id].claims <= prekey'[id].claims
          /\ prekey'[id].of = prekey[id].of
          /\ Live(id)' => Live(id)

\* Bundle k becomes b; every other one stays.
Becomes(k, b) ==
    /\ b \in Bundles
    /\ b.step # "none" => b.id \in PrekeyIds
    /\ bundle' = [bundle EXCEPT ![k] = b]

LEMMA BundleStep ==
    ASSUME PrekeyInv, SenderAges, NEW k \in KeyUsers, NEW b, Becomes(k, b),
           contents' \in Seq(StoredContents)
    PROVE  /\ PrekeyTyped' /\ Ages /\ RegisterInv' /\ LiveRowsInv'
           /\ bundle'[k] = b
           /\ \A j \in KeyUsers \ {k} : bundle'[j] = bundle[j] /\ Remembers(bundle[j])'
<1>1. PrekeyTyped /\ RegisterInv /\ LiveRowsInv /\ BundleInv
  BY DEF PrekeyInv
<1>2. UNCHANGED <<identityRow, uploaded, ownIdentity, register, kept>>
  BY DEF SenderAges, deviceSide
<1>3. bundle'[k] = b /\ \A j \in KeyUsers \ {k} : bundle'[j] = bundle[j]
  BY <1>1 DEF Becomes, PrekeyTyped
<1>4. bundle' \in [KeyUsers -> Bundles]
  BY <1>1 DEF Becomes, PrekeyTyped
<1>5. \A j \in KeyUsers : bundle'[j].step # "none" => bundle'[j].id \in PrekeyIds
  BY <1>1, <1>3 DEF Becomes, PrekeyTyped
<1>6. PrekeyTyped'
  BY <1>1, <1>2, <1>4, <1>5 DEF PrekeyTyped, SenderAges
<1>7. \A id \in PrekeyIds : prekey'[id].claims \in Nat
  BY DEF SenderAges, PrekeyRows
<1>8. Ages
  BY <1>1, <1>2, <1>7, PrekeyNumbers DEF Ages, SenderAges
<1>9. RegisterInv'
  BY <1>1, <1>2 DEF RegisterInv
<1>10. LiveRowsInv'
  <2> SUFFICES ASSUME NEW id \in PrekeyIds, Live(id)'
               PROVE  /\ id <= uploaded'
                      /\ id \notin kept' =>
                            /\ prekey'[id].of = identityRow'
                            /\ identityRow' # 0
                            /\ register'.step = "upsert" => identityRow' = ownIdentity'
    BY DEF LiveRowsInv
  <2>1. Live(id) /\ prekey'[id].of = prekey[id].of
    BY DEF SenderAges
  <2>2. QED
    BY <1>1, <1>2, <2>1 DEF LiveRowsInv
<1>11. ASSUME NEW j \in KeyUsers \ {k} PROVE Remembers(bundle[j])'
  <2>1. Remembers(bundle[j])
    BY <1>1 DEF BundleInv
  <2>2. QED
    BY <1>1, <1>3, <1>8, <2>1, BundleRows, RememberedStays DEF Remembers, Live, Checked
<1>12. QED
  BY <1>3, <1>6, <1>8, <1>9, <1>10, <1>11

\* A bundle that recedes, with no content stored.
LEMMA QuietStep ==
    ASSUME PrekeyInv, SenderAges, NEW k \in KeyUsers, NEW b, Becomes(k, b),
           UNCHANGED contents, Recedes(bundle[k], b), Remembers(b)'
    PROVE  PrekeyInv'
<1>1. PrekeyTyped /\ HolderInv
  BY DEF PrekeyInv
<1>2. contents' \in Seq(StoredContents)
  BY <1>1 DEF PrekeyTyped
<1>3. /\ PrekeyTyped' /\ Ages /\ RegisterInv' /\ LiveRowsInv'
      /\ bundle'[k] = b
      /\ \A j \in KeyUsers \ {k} : bundle'[j] = bundle[j] /\ Remembers(bundle[j])'
  BY <1>2, BundleStep
<1>4. BundleInv'
  BY <1>3 DEF BundleInv, Remembers, Checked, Live
<1>5. \A j \in KeyUsers : Recedes(bundle[j], bundle'[j])
  BY <1>1, <1>3, BundleRows
<1>6. HolderInv'
  BY <1>1, <1>3, <1>5, HoldersStay
<1>7. ContentInv' /\ NoMixedBundle' /\ OneTimeUse'
  BY <1>3, ContentsStay
<1>8. QED
  BY <1>3, <1>4, <1>6, <1>7 DEF PrekeyInv

\* A bundle that is given up or stored leaves nothing to remember.
LEMMA NoBundleFacts ==
    /\ NoBundle \in Bundles /\ NoBundle.step = "none"
    /\ \A b \in Bundles : Recedes(b, NoBundle)
    /\ Remembers(NoBundle)'
<1>1. 0 \in 0 .. MaxPrekey /\ 0 \in Identities
  BY PrekeyBounds DEF Identities
<1>2. NoBundle \in Bundles /\ NoBundle.step = "none"
  BY <1>1 DEF NoBundle, Bundles, BundleSteps
<1>3. QED
  BY <1>2 DEF Recedes, Pending, Checked, Remembers

\* Steps that leave the prekeys and the histories alone age nothing.
LEMMA SameAge ==
    ASSUME PrekeyTyped, UNCHANGED <<deviceSide, prekey>>,
           raced \subseteq raced', unconsumed \subseteq unconsumed',
           raced' \subseteq PrekeyIds, unconsumed' \subseteq PrekeyIds
    PROVE  SenderAges
<1>1. \A id \in PrekeyIds : prekey[id].claims \in Nat
  BY PrekeyNumbers
<1>2. prekey \in [PrekeyIds -> PrekeyRows]
  BY DEF PrekeyTyped
<1>3. QED
  BY <1>1, <1>2 DEF SenderAges, Live

LEMMA ConsumeAges ==
    ASSUME PrekeyTyped, UNCHANGED deviceSide, NEW id \in PrekeyIds, Consume(id),
           raced \subseteq raced', unconsumed \subseteq unconsumed',
           raced' \subseteq PrekeyIds, unconsumed' \subseteq PrekeyIds
    PROVE  SenderAges
<1>1. \A j \in PrekeyIds : prekey[j].claims \in Nat
  BY PrekeyNumbers
<1>2. QED
  BY <1>1, ConsumeEffect DEF SenderAges

\* What the updates of a bundle make of it.
Stepped(b, step) == [b EXCEPT !.step = step]
Identified(b, public) == [b EXCEPT !.step = "held", !.identity = public]
Accepted(b, public) == [b EXCEPT !.step = "conversation", !.registered = public]

LEMMA BundleUpdates ==
    ASSUME NEW b \in Bundles, NEW step, NEW public
    PROVE  /\ Stepped(b, step) =
                 [step |-> step, id |-> b.id, of |-> b.of, identity |-> b.identity,
                  registered |-> b.registered]
           /\ Identified(b, public) =
                 [step |-> "held", id |-> b.id, of |-> b.of, identity |-> public,
                  registered |-> b.registered]
           /\ Accepted(b, public) =
                 [step |-> "conversation", id |-> b.id, of |-> b.of,
                  identity |-> b.identity, registered |-> public]
<1>1. b = [step |-> b.step, id |-> b.id, of |-> b.of, identity |-> b.identity,
           registered |-> b.registered]
  BY DEF Bundles
<1>2. ASSUME NEW s
      PROVE  Stepped(b, s) = [step |-> s, id |-> b.id, of |-> b.of,
                            identity |-> b.identity, registered |-> b.registered]
  BY <1>1 DEF Stepped
<1>3. PICK c : c = Stepped(b, "held")
  OBVIOUS
<1>4. PICK d : d = Stepped(b, "conversation")
  OBVIOUS
<1>5. /\ c = [step |-> "held", id |-> b.id, of |-> b.of,
              identity |-> b.identity, registered |-> b.registered]
      /\ d = [step |-> "conversation", id |-> b.id, of |-> b.of,
              identity |-> b.identity, registered |-> b.registered]
  BY <1>2, <1>3, <1>4
<1>6. [c EXCEPT !.identity = public] =
         [step |-> "held", id |-> b.id, of |-> b.of, identity |-> public,
          registered |-> b.registered]
  BY <1>5
<1>7. [d EXCEPT !.registered = public] =
         [step |-> "conversation", id |-> b.id, of |-> b.of, identity |-> b.identity,
          registered |-> public]
  BY <1>5
<1>8. /\ Identified(b, public) = [c EXCEPT !.identity = public]
      /\ Accepted(b, public) = [d EXCEPT !.registered = public]
  BY <1>3, <1>4 DEF Identified, Accepted, Stepped
<1>9. QED
  BY <1>2, <1>6, <1>7, <1>8

\* A bundle that is handed out.
Handed(id, public) == [NoBundle EXCEPT !.step = "claimed", !.id = id, !.of = public]

LEMMA HandedOut ==
    ASSUME NEW id, NEW public
    PROVE  Handed(id, public) = [step |-> "claimed", id |-> id, of |-> public,
                              identity |-> 0, registered |-> 0]
<1>1. PICK b : b = [NoBundle EXCEPT !.step = "claimed"]
  OBVIOUS
<1>2. PICK c : c = [b EXCEPT !.id = id]
  OBVIOUS
<1>3. b = [step |-> "claimed", id |-> 0, of |-> 0, identity |-> 0, registered |-> 0]
  BY <1>1 DEF NoBundle
<1>4. c = [step |-> "claimed", id |-> id, of |-> 0, identity |-> 0, registered |-> 0]
  BY <1>2, <1>3
<1>5. [c EXCEPT !.of = public] = [step |-> "claimed", id |-> id, of |-> public,
                               identity |-> 0, registered |-> 0]
  BY <1>4
<1>6. Handed(id, public) = [c EXCEPT !.of = public]
  BY <1>1, <1>2 DEF Handed
<1>7. QED
  BY <1>5, <1>6

\* The identity key is read after the claim: it is the prekey's if that is live.
LEMMA IdentityStep ==
    ASSUME PrekeyInv, NEW k \in KeyUsers, BundleIdentity(k)
    PROVE  PrekeyInv'
<1>1. /\ PrekeyTyped /\ LiveRowsInv /\ Remembers(bundle[k])
      /\ bundle[k] \in Bundles /\ bundle[k].step = "claimed" /\ bundle[k].id \in PrekeyIds
      /\ identityRow \in Identities
  BY BundleRows DEF PrekeyInv, BundleInv, BundleIdentity, PrekeyTyped
<1>2. PICK b : b = [step |-> "held", id |-> bundle[k].id, of |-> bundle[k].of,
                    identity |-> identityRow, registered |-> bundle[k].registered]
  OBVIOUS
<1>3. b \in Bundles
  BY <1>1, <1>2 DEF Bundles, BundleSteps
<1>4. bundle' = [bundle EXCEPT ![k] = b]
  <2>1. bundle' = [bundle EXCEPT ![k] = Identified(bundle[k], identityRow)]
    BY DEF BundleIdentity, Identified
  <2>2. Identified(bundle[k], identityRow) = b
    BY <1>1, <1>2, BundleUpdates
  <2>3. QED
    BY <2>1, <2>2
<1>5. Becomes(k, b)
  BY <1>1, <1>2, <1>3, <1>4 DEF Becomes
<1>6. UNCHANGED <<deviceSide, prekey, contents, raced, unconsumed, uploaded, kept>>
  BY DEF BundleIdentity, prekeyHistory, deviceSide
<1>7. SenderAges
  BY <1>1, <1>6, SameAge DEF PrekeyTyped
<1>8. Recedes(bundle[k], b)
  BY <1>1, <1>2 DEF Recedes, Pending, Checked
<1>9. Remembers(b)'
  <2>1. bundle[k].id <= uploaded /\ bundle[k].of = prekey[bundle[k].id].of
    BY <1>1 DEF Remembers
  <2>2. Live(bundle[k].id) /\ bundle[k].id \notin kept => identityRow = bundle[k].of
    BY <1>1, <2>1 DEF LiveRowsInv
  <2>3. QED
    BY <1>2, <1>6, <2>1, <2>2 DEF Remembers, Checked, Live
<1>10. QED
  BY <1>5, <1>6, <1>7, <1>8, <1>9, QuietStep

\* A message that goes on to its conversation has no more to say than before.
LEMMA ConversationStep ==
    ASSUME PrekeyInv, NEW k \in KeyUsers, FindConversation(k) \/ CreateConversation(k)
    PROVE  PrekeyInv'
<1>1. /\ PrekeyTyped /\ Remembers(bundle[k])
      /\ bundle[k] \in Bundles /\ Checked(bundle[k]) /\ bundle[k].id \in PrekeyIds
  BY BundleRows
  DEF PrekeyInv, BundleInv, FindConversation, CreateConversation, BundleAt, Checked
<1>2. PICK step \in {"create", "store"} : bundle' = [bundle EXCEPT ![k].step = step]
  BY DEF FindConversation, CreateConversation, BundleGoTo
<1>3. PICK b : b = [step |-> step, id |-> bundle[k].id, of |-> bundle[k].of,
                    identity |-> bundle[k].identity, registered |-> bundle[k].registered]
  OBVIOUS
<1>4. b \in Bundles
  BY <1>1, <1>3 DEF Bundles, BundleSteps
<1>5. bundle' = [bundle EXCEPT ![k] = b]
  <2>1. bundle' = [bundle EXCEPT ![k] = Stepped(bundle[k], step)]
    BY <1>2 DEF Stepped
  <2>2. Stepped(bundle[k], step) = b
    BY <1>1, <1>3, BundleUpdates
  <2>3. QED
    BY <2>1, <2>2
<1>6. Becomes(k, b)
  BY <1>1, <1>3, <1>4, <1>5 DEF Becomes
<1>7. UNCHANGED <<deviceSide, prekey, contents, raced, unconsumed, uploaded, kept>>
  BY DEF FindConversation, CreateConversation, BundleAt, prekeyHistory, deviceSide
<1>8. SenderAges
  BY <1>1, <1>7, SameAge DEF PrekeyTyped
<1>9. Recedes(bundle[k], b)
  BY <1>1, <1>3 DEF Recedes, Pending, Checked
<1>10. Remembers(b)'
  <2>1. /\ bundle[k].id <= uploaded /\ bundle[k].of = prekey[bundle[k].id].of
        /\ bundle[k].id \notin kept =>
              bundle[k].identity = bundle[k].of /\ bundle[k].identity = bundle[k].registered
    BY <1>1 DEF Remembers, Checked
  <2>2. QED
    BY <1>3, <1>7, <2>1 DEF Remembers, Checked, Live
<1>11. QED
  BY <1>6, <1>7, <1>8, <1>9, <1>10, QuietStep

\* Bundles that are given up, refused, or consumed after their distribution.
LEMMA EndStep ==
    ASSUME PrekeyInv, NEW k \in KeyUsers,
           \/ BundleDropped(k)
           \/ SendCheck(k) /\ prekey[bundle[k].id].state # "claimed"
           \/ ConsumeDistribution(k)
    PROVE  PrekeyInv'
<1>1. /\ PrekeyTyped
      /\ bundle[k] \in Bundles /\ bundle[k].id \in PrekeyIds
  BY BundleRows DEF PrekeyInv, BundleDropped, SendCheck, ConsumeDistribution, BundleAt
<1>2. /\ bundle' = [bundle EXCEPT ![k] = NoBundle]
      /\ UNCHANGED <<deviceSide, contents, raced, unconsumed>>
      /\ UNCHANGED prekey \/ Consume(bundle[k].id)
  BY DEF BundleDropped, SendCheck, ConsumeDistribution, BundleAt, prekeyHistory
<1>3. raced \subseteq PrekeyIds /\ unconsumed \subseteq PrekeyIds
  BY <1>1 DEF PrekeyTyped
<1>4. SenderAges
  <2>1. CASE UNCHANGED prekey
    BY <1>1, <1>2, <1>3, <2>1, SameAge
  <2>2. CASE Consume(bundle[k].id)
    BY <1>1, <1>2, <1>3, <2>2, ConsumeAges
  <2>3. QED
    BY <1>2, <2>1, <2>2
<1>5. Becomes(k, NoBundle)
  BY <1>2, NoBundleFacts DEF Becomes
<1>6. Recedes(bundle[k], NoBundle) /\ Remembers(NoBundle)'
  BY <1>1, NoBundleFacts
<1>7. QED
  BY <1>2, <1>4, <1>5, <1>6, QuietStep

\* The holders that a step leaves alone keep what is said of them and of the
\* contents stored before it.
LEMMA OthersHold ==
    ASSUME PrekeyTyped, Ages, HolderInv, NEW k \in KeyUsers, NEW j \in KeyUsers \ {k},
           \A h \in KeyUsers \ {k} : bundle'[h] = bundle[h]
    PROVE  /\ Holds(bundle[j])'
           /\ \A h \in KeyUsers \ {k, j} : Meets(bundle[j], bundle[h])'
           /\ \A i \in DOMAIN contents :
                 contents'[i] = contents[i] => MeetsContent(bundle[j], contents[i])'
<1>1. /\ Holds(bundle[j])
      /\ \A h \in KeyUsers \ {k, j} : Meets(bundle[j], bundle[h])
      /\ \A i \in DOMAIN contents : MeetsContent(bundle[j], contents[i])
  BY DEF HolderInv
<1>2. \A h \in KeyUsers : /\ bundle[h] \in Bundles
                          /\ bundle[h].step # "none" => bundle[h].id \in PrekeyIds
                          /\ Recedes(bundle[h], bundle[h])
  BY BundleRows
<1>3. Holds(bundle[j])'
  BY <1>1, <1>2, HoldsStays DEF Holds
<1>4. ASSUME NEW h \in KeyUsers \ {k, j} PROVE Meets(bundle[j], bundle[h])'
  BY <1>1, <1>2, MeetsStays DEF Meets, Checked
<1>5. ASSUME NEW i \in DOMAIN contents, contents'[i] = contents[i]
      PROVE  MeetsContent(bundle[j], contents[i])'
  BY <1>1, <1>2, <1>5, MeetsContentStays DEF MeetsContent, Checked, Pending
<1>6. QED
  BY <1>3, <1>4, <1>5

\* A claim counts the prekey's use; everybody else who holds it, and every content
\* with it, had claimed it before.
LEMMA ClaimStep ==
    ASSUME PrekeyInv, NEW k \in KeyUsers, Claim(k)
    PROVE  PrekeyInv'
<1>1. /\ PrekeyTyped /\ LiveRowsInv /\ HolderInv /\ ContentInv
      /\ \A j \in PrekeyIds : j \in Nat /\ prekey[j].claims \in Nat
  BY PrekeyNumbers DEF PrekeyInv
<1>2. PICK id \in PrekeyIds :
        /\ Live(id)
        /\ prekey' \in [PrekeyIds -> PrekeyRows]
        /\ \A j \in PrekeyIds :
              /\ prekey'[j].of = prekey[j].of
              /\ prekey'[j].claims = IF j = id THEN prekey[j].claims + 1
                                     ELSE prekey[j].claims
              /\ Live(j)' <=> Live(j)
        /\ bundle' = [bundle EXCEPT ![k] = [NoBundle EXCEPT
                         !.step = "claimed", !.id = id, !.of = prekey[id].of]]
  BY <1>1, ClaimEffect
<1>3. UNCHANGED <<deviceSide, contents, raced, unconsumed>> /\ UNCHANGED uploaded
  BY DEF Claim, prekeyHistory, deviceSide
<1>4. PICK b : b = [step |-> "claimed", id |-> id, of |-> prekey[id].of,
                    identity |-> 0, registered |-> 0]
  OBVIOUS
<1>5. b \in Bundles
  <2>1. prekey[id].of \in Identities /\ 0 \in Identities
    BY <1>1, PrekeyBounds DEF PrekeyTyped, PrekeyRows, Identities
  <2>2. id \in 0 .. MaxPrekey
    BY <1>1, PrekeyBounds DEF PrekeyIds
  <2>3. QED
    BY <1>4, <2>1, <2>2 DEF Bundles, BundleSteps
<1>6. bundle' = [bundle EXCEPT ![k] = b]
  <2>1. bundle' = [bundle EXCEPT ![k] = Handed(id, prekey[id].of)]
    BY <1>2 DEF Handed
  <2>2. Handed(id, prekey[id].of) = b
    BY <1>4, HandedOut
  <2>3. QED
    BY <2>1, <2>2
<1>7. Becomes(k, b)
  BY <1>4, <1>5, <1>6 DEF Becomes
<1>8. SenderAges
  BY <1>1, <1>2, <1>3 DEF SenderAges, PrekeyTyped
<1>9. contents' \in Seq(StoredContents)
  BY <1>1, <1>3 DEF PrekeyTyped
<1>10. /\ PrekeyTyped' /\ Ages /\ RegisterInv' /\ LiveRowsInv'
       /\ bundle'[k] = b
       /\ \A j \in KeyUsers \ {k} : bundle'[j] = bundle[j] /\ Remembers(bundle[j])'
  BY <1>7, <1>8, <1>9, BundleStep
<1>11. BundleInv'
  <2>1. id <= uploaded' /\ prekey'[id].of = prekey[id].of
    BY <1>1, <1>2, <1>3 DEF LiveRowsInv
  <2>2. Remembers(b)'
    BY <1>4, <2>1 DEF Remembers, Checked
  <2>3. QED
    BY <1>10, <2>2 DEF BundleInv, Remembers, Checked, Live
<1>12. HolderInv'
  <2>1. ASSUME prekey[id].claims >= 1 PROVE prekey'[id].claims > 1
    BY <1>1, <1>2, <2>1
  <2>2. Holds(b)'
    BY <1>1, <1>2, <1>4 DEF Holds
  <2>3. ASSUME NEW j \in KeyUsers \ {k}
        PROVE  Meets(b, bundle[j])' /\ Meets(bundle[j], b)'
    <3>1. Holds(bundle[j]) /\ bundle'[j] = bundle[j]
      BY <1>1, <1>10 DEF HolderInv
    <3>2. bundle[j].step # "none" /\ bundle[j].id = id => prekey'[id].claims > 1
      BY <2>1, <3>1 DEF Holds
    <3>3. ~Checked(b)
      BY <1>4 DEF Checked
    <3>4. QED
      BY <1>4, <3>1, <3>2, <3>3 DEF Meets, Checked
  <2>4. ASSUME NEW i \in DOMAIN contents PROVE MeetsContent(b, contents[i])'
    <3>1. contents[i].id = id => prekey'[id].claims > 1
      BY <1>1, <2>1 DEF ContentInv, UsedUp
    <3>2. QED
      BY <1>3, <1>4, <3>1 DEF MeetsContent, Checked
  <2>5. ASSUME NEW j \in KeyUsers \ {k}
        PROVE  /\ Holds(bundle[j])'
               /\ \A h \in KeyUsers \ {k, j} : Meets(bundle[j], bundle[h])'
               /\ \A i \in DOMAIN contents : MeetsContent(bundle[j], contents[i])'
    BY <1>1, <1>3, <1>10, OthersHold
  <2>6. ASSUME NEW j \in KeyUsers
        PROVE  /\ Holds(bundle[j])'
               /\ \A h \in KeyUsers \ {j} : Meets(bundle[j], bundle[h])'
               /\ \A i \in DOMAIN contents : MeetsContent(bundle[j], contents[i])'
    <3>1. CASE j = k
      BY <1>10, <2>2, <2>3, <2>4, <3>1 DEF Holds, Meets, MeetsContent, Checked, Pending
    <3>2. CASE j # k
      BY <1>10, <2>3, <2>5, <3>2 DEF Meets, Checked
    <3>3. QED
      BY <3>1, <3>2
  <2>7. QED
    BY <1>3, <2>6 DEF HolderInv
<1>13. ContentInv' /\ NoMixedBundle' /\ OneTimeUse'
  BY <1>3, <1>10, ContentsStay
<1>14. QED
  BY <1>10, <1>11, <1>12, <1>13 DEF PrekeyInv

\* A message passes the check.  Another one that has passed it with the same
\* prekey makes the race.
LEMMA SendStep ==
    ASSUME PrekeyInv, NEW k \in KeyUsers, SendCheck(k),
           prekey[bundle[k].id].state = "claimed"
    PROVE  PrekeyInv'
<1> DEFINE id == bundle[k].id
<1>1. /\ PrekeyTyped /\ LiveRowsInv /\ HolderInv /\ ContentInv /\ Remembers(bundle[k])
      /\ bundle[k] \in Bundles /\ bundle[k].step = "held" /\ id \in PrekeyIds
      /\ identityRow \in Identities /\ raced \subseteq PrekeyIds /\ unconsumed \subseteq PrekeyIds
  BY BundleRows DEF PrekeyInv, BundleInv, SendCheck, BundleAt, PrekeyTyped
<1>2. PICK b : b = [step |-> "conversation", id |-> bundle[k].id, of |-> bundle[k].of,
                    identity |-> bundle[k].identity, registered |-> identityRow]
  OBVIOUS
<1>3. b \in Bundles
  BY <1>1, <1>2 DEF Bundles, BundleSteps
<1>4. bundle' = [bundle EXCEPT ![k] = b]
  <2>1. bundle' = [bundle EXCEPT ![k] = Accepted(bundle[k], identityRow)]
    BY DEF SendCheck, Accepted
  <2>2. Accepted(bundle[k], identityRow) = b
    BY <1>1, <1>2, BundleUpdates
  <2>3. QED
    BY <2>1, <2>2
<1>5. Becomes(k, b)
  BY <1>1, <1>2, <1>3, <1>4 DEF Becomes
<1>6. /\ UNCHANGED <<deviceSide, prekey, contents, unconsumed>> /\ UNCHANGED <<uploaded, kept>>
      /\ raced \subseteq raced' /\ raced' \subseteq raced \cup {id}
      /\ \A j \in KeyUsers \ {k} : Checked(bundle[j]) /\ bundle[j].id = id => id \in raced'
  BY DEF SendCheck, BundleAt, Checked, deviceSide
<1>7. SenderAges
  BY <1>1, <1>6, SameAge
<1>8. contents' \in Seq(StoredContents)
  BY <1>1, <1>6 DEF PrekeyTyped
<1>9. /\ PrekeyTyped' /\ Ages /\ RegisterInv' /\ LiveRowsInv'
      /\ bundle'[k] = b
      /\ \A j \in KeyUsers \ {k} : bundle'[j] = bundle[j] /\ Remembers(bundle[j])'
  BY <1>5, <1>7, <1>8, BundleStep
<1>10. BundleInv'
  <2>1. /\ id <= uploaded /\ bundle[k].of = prekey[id].of
        /\ id \notin kept => bundle[k].identity = bundle[k].of /\ identityRow = bundle[k].of
    BY <1>1 DEF Remembers, Live, LiveRowsInv
  <2>2. Remembers(b)'
    BY <1>2, <1>6, <2>1 DEF Remembers, Checked
  <2>3. QED
    BY <1>9, <2>2 DEF BundleInv, Remembers, Checked, Live
<1>11. HolderInv'
  <2>1. /\ Holds(bundle[k])
        /\ \A j \in KeyUsers \ {k} : Meets(bundle[k], bundle[j])
        /\ \A i \in DOMAIN contents : MeetsContent(bundle[k], contents[i])
    BY <1>1 DEF HolderInv
  <2>2. Holds(b)'
    BY <1>1, <1>2, <1>6, <2>1 DEF Holds
  <2>3. ASSUME NEW j \in KeyUsers \ {k}
        PROVE  Meets(b, bundle[j])' /\ Meets(bundle[j], b)'
    <3>1. bundle'[j] = bundle[j] /\ Meets(bundle[k], bundle[j])
      BY <1>9, <2>1
    <3>2. bundle[j].step # "none" /\ bundle[j].id = id =>
             prekey'[id].claims > 1 /\ (Checked(bundle[j]) => id \in raced')
      BY <1>1, <1>6, <3>1 DEF Meets
    <3>3. QED
      BY <1>2, <3>1, <3>2 DEF Meets, Checked
  <2>4. ASSUME NEW i \in DOMAIN contents PROVE MeetsContent(b, contents[i])'
    <3>1. contents[i].id = id => prekey[id].claims > 1
      BY <1>1, <2>1 DEF MeetsContent, Pending
    <3>2. contents[i].id = id /\ contents[i].kind = "message" => id \in unconsumed
      BY <1>1 DEF ContentInv, UsedUp, Live
    <3>3. QED
      BY <1>2, <1>6, <3>1, <3>2 DEF MeetsContent
  <2>5. \A i \in DOMAIN contents : contents'[i] = contents[i]
    BY <1>6
  <2>6. ASSUME NEW j \in KeyUsers
        PROVE  /\ Holds(bundle[j])'
               /\ \A h \in KeyUsers \ {j} : Meets(bundle[j], bundle[h])'
               /\ \A i \in DOMAIN contents : MeetsContent(bundle[j], contents[i])'
    <3>1. CASE j = k
      BY <1>9, <2>2, <2>3, <2>4, <3>1 DEF Holds, Meets, MeetsContent, Checked, Pending
    <3>2. CASE j # k
      <4>1. /\ Holds(bundle[j])'
            /\ \A h \in KeyUsers \ {k, j} : Meets(bundle[j], bundle[h])'
            /\ \A i \in DOMAIN contents : MeetsContent(bundle[j], contents[i])'
        BY <1>1, <1>9, <2>5, <3>2, OthersHold
      <4>2. QED
        BY <1>9, <2>3, <3>2, <4>1 DEF Meets, Checked
    <3>3. QED
      BY <3>1, <3>2
  <2>7. QED
    BY <1>6, <2>6 DEF HolderInv
<1>12. ContentInv' /\ NoMixedBundle' /\ OneTimeUse'
  BY <1>6, <1>9, ContentsStay
<1>13. QED
  BY <1>9, <1>10, <1>11, <1>12 DEF PrekeyInv

\* A content is stored.  A message uses its prekey up unless it is not consumed;
\* what was stored before with the prekey had claimed it before.
LEMMA StoreStep ==
    ASSUME PrekeyInv, SenderAges, NEW k \in KeyUsers, NEW b, Becomes(k, b),
           Recedes(bundle[k], b), ~Pending(b), Remembers(b)',
           NEW kind \in ContentKinds, Store(k, kind), Pending(bundle[k]),
           NEW id, id = bundle[k].id,
           kind = "message" => Checked(bundle[k]) /\ (Live(id)' => id \in unconsumed')
    PROVE  PrekeyInv'
<1>1. /\ PrekeyTyped /\ HolderInv /\ ContentInv /\ NoMixedBundle /\ OneTimeUse
      /\ Remembers(bundle[k]) /\ Holds(bundle[k])
      /\ bundle[k] \in Bundles /\ bundle[k].step # "none" /\ bundle[k].id \in PrekeyIds
      /\ contents \in Seq(StoredContents)
      /\ \A i \in DOMAIN contents : contents[i] \in StoredContents
  BY BundleRows DEF PrekeyInv, BundleInv, HolderInv, PrekeyTyped, Pending
<1>2. id = bundle[k].id
  OBVIOUS
<1>3. PICK new : new = [kind |-> kind, id |-> bundle[k].id, of |-> bundle[k].of,
                        identity |-> bundle[k].identity,
                        registered |-> bundle[k].registered]
  OBVIOUS
<1>4. PICK n : n = Len(contents) + 1
  OBVIOUS
<1>5. new \in StoredContents /\ new.id = id /\ new.kind = kind /\ id \in PrekeyIds
  BY <1>1, <1>2, <1>3 DEF Bundles, StoredContents
<1>6. contents' = Append(contents, new)
  BY <1>3 DEF Store
<1>7. /\ contents' \in Seq(StoredContents)
      /\ DOMAIN contents' = DOMAIN contents \cup {n} /\ n \notin DOMAIN contents
      /\ contents'[n] = new
      /\ \A i \in DOMAIN contents : contents'[i] = contents[i]
  BY <1>1, <1>4, <1>5, <1>6
<1>8. /\ PrekeyTyped' /\ Ages /\ RegisterInv' /\ LiveRowsInv'
      /\ bundle'[k] = b
      /\ \A j \in KeyUsers \ {k} : bundle'[j] = bundle[j] /\ Remembers(bundle[j])'
  BY <1>7, BundleStep
<1>9. BundleInv'
  BY <1>8 DEF BundleInv, Remembers, Checked, Live
<1>10. /\ prekey[id].claims >= 1 /\ prekey[id].claims \in Nat
       /\ prekey[id].claims <= prekey'[id].claims /\ prekey'[id].claims \in Nat
       /\ raced \subseteq raced' /\ unconsumed \subseteq unconsumed'
  BY <1>1, <1>2, <1>5, <1>8, PrekeyNumbers DEF Holds, Ages
<1>11. /\ \A j \in KeyUsers \ {k} : Meets(bundle[k], bundle[j]) /\ Meets(bundle[j], bundle[k])
       /\ \A i \in DOMAIN contents : MeetsContent(bundle[k], contents[i])
  BY <1>1 DEF HolderInv
<1>12. HolderInv'
  <2>1. Holds(b)'
    BY <1>1, <1>8, HoldsStays DEF Becomes
  <2>2. ASSUME NEW j \in KeyUsers \ {k}
        PROVE  Meets(b, bundle[j])' /\ Meets(bundle[j], b)'
    <3>1. /\ bundle[j] \in Bundles /\ Recedes(bundle[j], bundle[j]) /\ b \in Bundles
          /\ bundle[j].step # "none" => bundle[j].id \in PrekeyIds
      BY <1>1, BundleRows DEF Becomes
    <3>2. PICK c \in Bundles : c = bundle[j]
      BY <3>1
    <3>3. Meets(b, c)' /\ Meets(c, b)'
      BY <1>1, <1>8, <1>11, <3>1, <3>2, MeetsStays DEF Meets, Checked
    <3>4. QED
      BY <1>8, <3>2, <3>3 DEF Meets, Checked
  <2>3. ASSUME NEW j \in KeyUsers \ {k} PROVE MeetsContent(bundle[j], contents[n])'
    <3>1. PICK c : c = bundle[j]
      OBVIOUS
    <3>2. Pending(c) /\ c.id = id =>
             /\ prekey[id].claims > 1
             /\ kind = "message" /\ Checked(c) => id \in raced
      BY <1>1, <1>2, <1>11, <3>1 DEF Meets, Pending
    <3>3. MeetsContent(c, new)'
      BY <1>5, <1>10, <3>2 DEF MeetsContent, Pending, Checked
    <3>4. QED
      BY <1>7, <1>8, <3>1, <3>3 DEF MeetsContent, Pending, Checked
  <2>4. ASSUME NEW j \in KeyUsers
        PROVE  (/\ Holds(bundle[j])
                /\ \A h \in KeyUsers \ {j} : Meets(bundle[j], bundle[h])
                /\ \A i \in DOMAIN contents : MeetsContent(bundle[j], contents[i]))'
    <3>1. CASE j = k
      <4>1. \A i \in DOMAIN contents' : MeetsContent(bundle[k], contents[i])'
        BY <1>8 DEF MeetsContent, Pending
      <4>2. QED
        BY <1>8, <2>1, <2>2, <3>1, <4>1 DEF Holds, Meets, Checked
    <3>2. CASE j # k
      <4>1. /\ Holds(bundle[j])'
            /\ \A h \in KeyUsers \ {k, j} : Meets(bundle[j], bundle[h])'
            /\ \A i \in DOMAIN contents : MeetsContent(bundle[j], contents[i])'
        BY <1>1, <1>7, <1>8, <3>2, OthersHold
      <4>2. Meets(bundle[j], bundle[k])'
        BY <1>8, <2>2, <3>2 DEF Meets, Checked
      <4>3. MeetsContent(bundle[j], contents[n])'
        BY <2>3, <3>2
      <4>4. QED
        BY <1>7, <3>2, <4>1, <4>2, <4>3
    <3>3. QED
      BY <3>1, <3>2
  <2>5. QED
    BY <2>4 DEF HolderInv
<1>13. ContentInv'
  <2>1. ASSUME NEW i \in DOMAIN contents PROVE UsedUp(contents[i])'
    <3>1. PICK content \in StoredContents : content = contents[i] /\ UsedUp(content)
      BY <1>1 DEF ContentInv
    <3>2. UsedUp(content)'
      BY <1>1, <1>8, <3>1, UsedUpStays
    <3>3. QED
      BY <1>7, <3>1, <3>2 DEF UsedUp, Live
  <2>2. UsedUp(contents[n])'
    <3>1. id <= uploaded /\ id \in Nat /\ uploaded \in Nat
      BY <1>1, <1>2, <1>5, PrekeyNumbers DEF Remembers
    <3>2. id <= uploaded'
      BY <3>1, <1>8 DEF Ages
    <3>3. prekey'[id].claims >= 1
      BY <1>10
    <3>4. UsedUp(new)'
      BY <1>5, <3>2, <3>3 DEF UsedUp
    <3>5. QED
      BY <1>7, <3>4 DEF UsedUp, Live
  <2>3. QED
    BY <1>7, <2>1, <2>2 DEF ContentInv
<1>14. NoMixedBundle'
  <2>1. kind = "message" /\ id \notin kept =>
           new.identity = new.of /\ new.identity = new.registered
    BY <1>1, <1>2, <1>3 DEF Remembers
  <2>2. kept' = kept
    BY DEF SenderAges, deviceSide
  <2>3. QED
    BY <1>1, <1>5, <1>7, <2>1, <2>2 DEF NoMixedBundle
<1>15. OneTimeUse'
  <2>1. ASSUME NEW i \in DOMAIN contents, contents[i].id = id
        PROVE  /\ prekey'[id].claims > 1
               /\ \/ id \in raced' \cup unconsumed'
                  \/ {contents[i].kind, kind} \cap {"edit", "distribution"} # {}
    <3>1. /\ prekey[id].claims > 1
          /\ contents[i].kind = "message" /\ Checked(bundle[k]) => id \in raced \cup unconsumed
      BY <1>2, <1>11, <2>1 DEF MeetsContent
    <3>2. contents[i].kind \in ContentKinds
      BY <1>1 DEF StoredContents
    <3>3. prekey'[id].claims > 1
      BY <1>10, <3>1
    <3>4. CASE contents[i].kind = "message" /\ kind = "message"
      BY <1>10, <3>1, <3>3, <3>4
    <3>5. CASE contents[i].kind # "message" \/ kind # "message"
      BY <3>2, <3>3, <3>5 DEF ContentKinds
    <3>6. QED
      BY <3>4, <3>5
  <2>2. ASSUME NEW i \in DOMAIN contents, NEW j \in DOMAIN contents,
               i # j, contents[i].id = contents[j].id
        PROVE  /\ prekey'[contents[i].id].claims > 1
               /\ \/ contents[i].id \in raced' \cup unconsumed'
                  \/ {contents[i].kind, contents[j].kind}
                         \cap {"edit", "distribution"} # {}
    <3>1. /\ prekey[contents[i].id].claims > 1
          /\ \/ contents[i].id \in raced \cup unconsumed
             \/ {contents[i].kind, contents[j].kind} \cap {"edit", "distribution"} # {}
      BY <1>1, <2>2 DEF OneTimeUse
    <3>2. contents[i].id \in PrekeyIds
      BY <1>1 DEF StoredContents
    <3>3. prekey'[contents[i].id].claims > 1
      BY <1>1, <1>8, <3>1, <3>2, PrekeyNumbers DEF Ages
    <3>4. QED
      BY <1>10, <3>1, <3>3
  <2> SUFFICES ASSUME NEW i \in DOMAIN contents', NEW j \in DOMAIN contents',
                      i # j, contents'[i].id = contents'[j].id
               PROVE  /\ prekey'[contents'[i].id].claims > 1
                      /\ \/ contents'[i].id \in raced' \cup unconsumed'
                         \/ {contents'[i].kind, contents'[j].kind}
                                \cap {"edit", "distribution"} # {}
    BY DEF OneTimeUse
  <2>3. CASE i = n
    BY <1>5, <1>7, <2>1, <2>3
  <2>4. CASE j = n
    BY <1>5, <1>7, <2>1, <2>4
  <2>5. CASE i # n /\ j # n
    BY <1>7, <2>2, <2>5
  <2>6. QED
    BY <2>3, <2>4, <2>5
<1>16. QED
  BY <1>8, <1>9, <1>12, <1>13, <1>14, <1>15 DEF PrekeyInv

LEMMA StoreMessageStep ==
    ASSUME PrekeyInv, NEW k \in KeyUsers, StoreMessage(k)
    PROVE  PrekeyInv'
<1>1. /\ PrekeyTyped /\ raced \subseteq PrekeyIds /\ unconsumed \subseteq PrekeyIds
      /\ bundle[k] \in Bundles /\ bundle[k].step = "store" /\ bundle[k].id \in PrekeyIds
  BY BundleRows DEF PrekeyInv, StoreMessage, BundleAt, PrekeyTyped
<1>2. PICK id \in PrekeyIds : id = bundle[k].id
  BY <1>1
<1>3. /\ Store(k, "message") /\ (Consume(id) \/ UNCHANGED prekey)
      /\ bundle' = [bundle EXCEPT ![k] = NoBundle]
      /\ unconsumed' = IF prekey'[id].state \in {"unused", "claimed"}
                       THEN unconsumed \cup {id} ELSE unconsumed
      /\ UNCHANGED <<deviceSide, raced>>
  BY <1>2 DEF StoreMessage, BundleAt
<1>4. SenderAges
  <2>1. /\ raced \subseteq raced' /\ unconsumed \subseteq unconsumed'
        /\ raced' \subseteq PrekeyIds /\ unconsumed' \subseteq PrekeyIds
    BY <1>1, <1>3
  <2>2. CASE Consume(id)
    BY <1>1, <1>3, <2>1, <2>2, ConsumeAges
  <2>3. CASE UNCHANGED prekey
    BY <1>1, <1>3, <2>1, <2>3, SameAge
  <2>4. QED
    BY <1>3, <2>2, <2>3
<1>5. Live(id)' => id \in unconsumed'
  BY <1>3 DEF Live
<1>6. Becomes(k, NoBundle) /\ Recedes(bundle[k], NoBundle) /\ Remembers(NoBundle)'
  BY <1>1, <1>3, NoBundleFacts DEF Becomes
<1>7. ~Pending(NoBundle)
  BY NoBundleFacts DEF Pending
<1>8. Pending(bundle[k]) /\ Checked(bundle[k]) /\ "message" \in ContentKinds
  BY <1>1 DEF Pending, Checked, ContentKinds
<1>9. QED
  BY <1>2, <1>3, <1>4, <1>5, <1>6, <1>7, <1>8, StoreStep

LEMMA StoreEditStep ==
    ASSUME PrekeyInv, NEW k \in KeyUsers, StoreEdit(k)
    PROVE  PrekeyInv'
<1>1. /\ PrekeyTyped /\ raced \subseteq PrekeyIds /\ unconsumed \subseteq PrekeyIds
      /\ bundle[k] \in Bundles /\ bundle[k].step = "held" /\ bundle[k].id \in PrekeyIds
  BY BundleRows DEF PrekeyInv, StoreEdit, BundleAt, PrekeyTyped
<1>2. PICK id : id = bundle[k].id
  OBVIOUS
<1>3. /\ Store(k, "edit") /\ bundle' = [bundle EXCEPT ![k] = NoBundle]
      /\ UNCHANGED <<deviceSide, prekey, raced, unconsumed>>
  BY DEF StoreEdit, BundleAt, prekeyHistory
<1>4. SenderAges
  BY <1>1, <1>3, SameAge
<1>5. Becomes(k, NoBundle) /\ Recedes(bundle[k], NoBundle) /\ Remembers(NoBundle)'
  BY <1>1, <1>3, NoBundleFacts DEF Becomes
<1>6. ~Pending(NoBundle)
  BY NoBundleFacts DEF Pending
<1>7. Pending(bundle[k]) /\ "edit" \in ContentKinds
  BY <1>1 DEF Pending, ContentKinds
<1>8. QED
  BY <1>2, <1>3, <1>4, <1>5, <1>6, <1>7, StoreStep

LEMMA StoreDistributionStep ==
    ASSUME PrekeyInv, NEW k \in KeyUsers, StoreDistribution(k)
    PROVE  PrekeyInv'
<1>1. /\ PrekeyTyped /\ raced \subseteq PrekeyIds /\ unconsumed \subseteq PrekeyIds
      /\ Remembers(bundle[k])
      /\ bundle[k] \in Bundles /\ bundle[k].step = "held" /\ bundle[k].id \in PrekeyIds
  BY BundleRows DEF PrekeyInv, BundleInv, StoreDistribution, BundleAt, PrekeyTyped
<1>2. PICK id : id = bundle[k].id
  OBVIOUS
<1>3. /\ Store(k, "distribution") /\ bundle' = [bundle EXCEPT ![k].step = "consume"]
      /\ UNCHANGED <<deviceSide, prekey, raced, unconsumed>> /\ UNCHANGED <<uploaded, kept>>
  BY DEF StoreDistribution, BundleAt, BundleGoTo, prekeyHistory, deviceSide
<1>4. PICK b : b = [step |-> "consume", id |-> bundle[k].id, of |-> bundle[k].of,
                    identity |-> bundle[k].identity,
                    registered |-> bundle[k].registered]
  OBVIOUS
<1>5. b \in Bundles
  BY <1>1, <1>4 DEF Bundles, BundleSteps
<1>6. bundle' = [bundle EXCEPT ![k] = b]
  <2>1. bundle' = [bundle EXCEPT ![k] = Stepped(bundle[k], "consume")]
    BY <1>3 DEF Stepped
  <2>2. Stepped(bundle[k], "consume") = b
    BY <1>1, <1>4, BundleUpdates
  <2>3. QED
    BY <2>1, <2>2
<1>7. Becomes(k, b)
  BY <1>1, <1>4, <1>5, <1>6 DEF Becomes
<1>8. SenderAges
  BY <1>1, <1>3, SameAge
<1>9. Recedes(bundle[k], b) /\ ~Pending(b)
  BY <1>1, <1>4 DEF Recedes, Pending, Checked
<1>10. Remembers(b)'
  <2>1. /\ id <= uploaded /\ bundle[k].of = prekey[id].of
        /\ Live(id) /\ id \notin kept => bundle[k].identity = bundle[k].of
    BY <1>1, <1>2 DEF Remembers
  <2>2. QED
    BY <1>2, <1>3, <1>4, <2>1 DEF Remembers, Checked, Live
<1>11. Pending(bundle[k]) /\ "distribution" \in ContentKinds
  BY <1>1 DEF Pending, ContentKinds
<1>12. QED
  BY <1>2, <1>3, <1>7, <1>8, <1>9, <1>10, <1>11, StoreStep

-----------------------------------------------------------------------------
(***************************************************************************)
(* The invariant, and what it says.                                        *)
(***************************************************************************)

LEMMA PrekeyInitInv ==
    ASSUME PrekeyInit
    PROVE  PrekeyInv
<1>1. 0 \in Identities /\ 1 \in 1 .. MaxIdentity /\ 0 \in 0 .. MaxPrekey
  BY PrekeyBounds DEF Identities
<1>2. PrekeyTyped
  <2>1. prekey \in [PrekeyIds -> PrekeyRows]
    BY <1>1 DEF PrekeyInit, PrekeyRows
  <2>2. bundle \in [KeyUsers -> Bundles]
    BY NoBundleFacts DEF PrekeyInit
  <2>3. QED
    BY <1>1, <2>1, <2>2, NoBundleFacts DEF PrekeyInit, PrekeyTyped
<1>3. \A id \in PrekeyIds : ~Live(id)
  BY DEF PrekeyInit, Live
<1>4. \A k \in KeyUsers : bundle[k].step = "none"
  BY NoBundleFacts DEF PrekeyInit
<1>5. contents = <<>>
  BY DEF PrekeyInit
<1>6. QED
  BY <1>2, <1>3, <1>4, <1>5
  DEF PrekeyInv, PrekeyInit, RegisterInv, LiveRowsInv, BundleInv, Remembers, HolderInv, Holds,
      Meets, MeetsContent, ContentInv, NoMixedBundle, OneTimeUse

LEMMA DeviceStepInv ==
    ASSUME PrekeyInv,
           \/ \E n \in 0 .. MaxPrekey, renewed \in BOOLEAN : RegisterKeys(renewed, n)
           \/ RegisterStep
           \/ \E id \in PrekeyIds : ClaimGetsOld(id)
    PROVE  PrekeyInv'
<1>1. /\ PrekeyTyped' /\ Ages /\ RegisterInv' /\ LiveRowsInv'
      /\ UNCHANGED <<bundle, contents>>
  BY DeviceStep DEF senderSide
<1>2. PrekeyTyped /\ BundleInv /\ HolderInv
  BY DEF PrekeyInv
<1>3. BundleInv'
  <2> SUFFICES ASSUME NEW k \in KeyUsers PROVE Remembers(bundle[k])'
    BY DEF BundleInv
  <2>1. PICK b \in Bundles : /\ b = bundle[k] /\ Remembers(b)
                             /\ b.step # "none" => b.id \in PrekeyIds
    BY <1>2, BundleRows DEF BundleInv
  <2>2. Remembers(b)'
    BY <1>1, <1>2, <2>1, RememberedStays
  <2>3. QED
    BY <1>1, <2>1, <2>2 DEF Remembers, Checked, Live
<1>4. HolderInv'
  <2>1. \A k \in KeyUsers : Recedes(bundle[k], bundle'[k])
    BY <1>1, <1>2, BundleRows
  <2>2. QED
    BY <1>1, <1>2, <2>1, HoldersStay
<1>5. ContentInv' /\ NoMixedBundle' /\ OneTimeUse'
  BY <1>1, ContentsStay
<1>6. QED
  BY <1>1, <1>3, <1>4, <1>5 DEF PrekeyInv

LEMMA PrekeyStepInv ==
    ASSUME PrekeyInv, [PrekeyNext]_prekeyVars
    PROVE  PrekeyInv'
<1>1. ASSUME NEW n \in 0 .. MaxPrekey, NEW renewed \in BOOLEAN, RegisterKeys(renewed, n)
      PROVE  PrekeyInv'
  BY <1>1, DeviceStepInv
<1>2. CASE RegisterStep
  BY <1>2, DeviceStepInv
<1>3. ASSUME NEW id \in PrekeyIds, ClaimGetsOld(id) PROVE PrekeyInv'
  BY <1>3, DeviceStepInv
<1>4. ASSUME NEW k \in KeyUsers, Claim(k) PROVE PrekeyInv'
  BY <1>4, ClaimStep
<1>5. ASSUME NEW k \in KeyUsers, BundleIdentity(k) PROVE PrekeyInv'
  BY <1>5, IdentityStep
<1>6. ASSUME NEW k \in KeyUsers, BundleDropped(k) \/ ConsumeDistribution(k)
      PROVE  PrekeyInv'
  BY <1>6, EndStep
<1>7. ASSUME NEW k \in KeyUsers, SendCheck(k) PROVE PrekeyInv'
  BY <1>7, SendStep, EndStep
<1>8. ASSUME NEW k \in KeyUsers, FindConversation(k) \/ CreateConversation(k)
      PROVE  PrekeyInv'
  BY <1>8, ConversationStep
<1>9. ASSUME NEW k \in KeyUsers, StoreMessage(k) PROVE PrekeyInv'
  BY <1>9, StoreMessageStep
<1>10. ASSUME NEW k \in KeyUsers, StoreEdit(k) PROVE PrekeyInv'
  BY <1>10, StoreEditStep
<1>11. ASSUME NEW k \in KeyUsers, StoreDistribution(k) PROVE PrekeyInv'
  BY <1>11, StoreDistributionStep
<1>12. CASE UNCHANGED prekeyVars
  BY <1>12
  DEF PrekeyInv, prekeyVars, prekeyHistory, PrekeyTyped, RegisterInv, LiveRowsInv, Live,
      BundleInv, Remembers, Checked, HolderInv, Holds, Meets, MeetsContent, Pending,
      ContentInv, UsedUp, NoMixedBundle, OneTimeUse
<1>13. QED
  BY <1>1, <1>2, <1>3, <1>4, <1>5, <1>6, <1>7, <1>8, <1>9, <1>10, <1>11, <1>12
  DEF PrekeyNext

\* The invariant holds in every behaviour.
LEMMA PrekeySafety == PrekeySpec => []PrekeyInv
BY PrekeyInitInv, PrekeyStepInv, PTL DEF PrekeySpec

\* Two contents with one prekey take two claims of it, and a race of two checks, a
\* message that did not consume it, an edit or a distribution (claimPrekeys,
\* validateClaimedPrekey, consumePrekeys), for any number of senders and prekeys.
THEOREM PrekeyUsedOnce == PrekeySpec => []OneTimeUse
<1>1. PrekeyInv => OneTimeUse
  BY DEF PrekeyInv
<1>2. QED
  BY <1>1, PrekeySafety, PTL

\* A stored message was encrypted with a prekey and an identity key that belong
\* together and were registered when it was checked (upsertIdentityKey,
\* claimPrekeys, getIdentityKeysByUser), however the requests interleave, unless the
\* purge of the old prekeys failed and left it beside a new identity key.
THEOREM PrekeyMatchesIdentity == PrekeySpec => []NoMixedBundle
<1>1. PrekeyInv => NoMixedBundle
  BY DEF PrekeyInv
<1>2. QED
  BY <1>1, PrekeySafety, PTL
-----------------------------------------------------------------------------
(***************************************************************************)
(* The counts of Prekeys: a prekey is not claimed more often than bundles  *)
(* are handed out, and racing first messages create no more conversations  *)
(* than there are handlers to race.                                        *)
(***************************************************************************)
Creating == {k \in KeyUsers : bundle[k].step = "create"}

CountsInv ==
    /\ fetches \in Nat /\ fetches <= MaxFetch
    /\ \A id \in PrekeyIds : prekey[id].claims <= fetches
    /\ uploaded + register.prekeys <= MaxPrekey
    /\ conversations \in Nat
    /\ conversations + Cardinality(Creating) <= Cardinality(KeyUsers)

LEMMA CreatingFinite ==
    /\ IsFiniteSet(Creating) /\ Cardinality(Creating) \in Nat
    /\ Cardinality(KeyUsers) \in Nat /\ Cardinality(Creating) <= Cardinality(KeyUsers)
<1>1. IsFiniteSet(KeyUsers) /\ Creating \subseteq KeyUsers
  BY PrekeyConstants DEF Creating
<1>2. QED
  BY <1>1, FS_Subset, FS_CardinalityType

\* A step of a sender that neither starts nor ends the creation of a conversation.
LEMMA CreatingKept ==
    ASSUME PrekeyTyped, NEW k \in KeyUsers, bundle[k].step # "create",
           NEW b, b.step # "create", bundle' = [bundle EXCEPT ![k] = b]
    PROVE  Creating' = Creating
<1>1. bundle \in [KeyUsers -> Bundles]
  BY DEF PrekeyTyped
<1>2. \A j \in KeyUsers : bundle'[j] = IF j = k THEN b ELSE bundle[j]
  BY <1>1
<1>3. QED
  BY <1>2 DEF Creating

\* A step of a sender that hands nothing out leaves the counts alone.
LEMMA CountsKept ==
    ASSUME PrekeyTyped, CountsInv, UNCHANGED <<deviceSide, fetches, conversations>>,
           \A id \in PrekeyIds : prekey'[id].claims = prekey[id].claims,
           Creating' = Creating
    PROVE  CountsInv'
BY DEF CountsInv, deviceSide

LEMMA CountsDevice ==
    ASSUME PrekeyTyped, CountsInv,
           \/ \E n \in 0 .. MaxPrekey, renewed \in BOOLEAN : RegisterKeys(renewed, n)
           \/ RegisterStep
           \/ \E id \in PrekeyIds : ClaimGetsOld(id)
    PROVE  CountsInv'
<1>1. /\ prekey \in [PrekeyIds -> PrekeyRows] /\ \A id \in PrekeyIds : prekey[id] \in PrekeyRows
      /\ uploaded \in Nat /\ register.prekeys \in Nat
      /\ register \in [step : {"idle", "purge", "upsert", "upload"}, prekeys : Nat]
  BY DEF PrekeyTyped
<1>2. /\ UNCHANGED <<bundle, fetches, conversations>>
      /\ \A id \in PrekeyIds : prekey'[id].claims = prekey[id].claims
      /\ uploaded' + register'.prekeys <= MaxPrekey
  <2>1. ASSUME NEW n \in 0 .. MaxPrekey, NEW renewed \in BOOLEAN, RegisterKeys(renewed, n)
        PROVE  /\ UNCHANGED <<bundle, fetches, conversations>>
               /\ \A j \in PrekeyIds : prekey'[j].claims = prekey[j].claims
               /\ uploaded' + register'.prekeys <= MaxPrekey
    BY <1>1, <2>1 DEF RegisterKeys, senderSide
  <2>2. CASE RegisterPurge
    <3>1. ASSUME NEW id \in PrekeyIds
          PROVE  prekey'[id].claims = prekey[id].claims
      <4>1. \/ prekey'[id] = prekey[id]
            \/ prekey'[id] = [prekey[id] EXCEPT !.state = "none"]
        BY <2>2 DEF RegisterPurge, Purge
      <4>2. QED
        BY <1>1, <4>1 DEF PrekeyRows
    <3>2. register'.prekeys = register.prekeys /\ uploaded' = uploaded
      BY <1>1, <2>2 DEF RegisterPurge
    <3>3. UNCHANGED <<bundle, fetches, conversations>>
      BY <2>2 DEF RegisterPurge, senderSide
    <3>4. QED
      BY <3>1, <3>2, <3>3 DEF CountsInv
  <2>3. CASE RegisterUpsert
    BY <1>1, <2>3 DEF RegisterUpsert, senderSide, CountsInv
  <2>4. CASE RegisterUpload
    <3>1. ASSUME NEW id \in PrekeyIds
          PROVE  prekey'[id].claims = prekey[id].claims
      <4>1. \/ prekey'[id] = prekey[id]
            \/ prekey'[id] = [prekey[id] EXCEPT !.state = "unused", !.of = ownIdentity]
        BY <2>4 DEF RegisterUpload
      <4>2. QED
        BY <1>1, <4>1 DEF PrekeyRows
    <3>2. register'.prekeys = 0 /\ uploaded' = uploaded + register.prekeys
      BY <2>4 DEF RegisterUpload
    <3>3. UNCHANGED <<bundle, fetches, conversations>>
      BY <2>4 DEF RegisterUpload, senderSide
    <3>4. uploaded' + register'.prekeys <= MaxPrekey
      BY <1>1, <3>2, PrekeyBounds DEF CountsInv
    <3>5. QED
      BY <3>1, <3>3, <3>4
  <2>5. ASSUME NEW id \in PrekeyIds, ClaimGetsOld(id)
        PROVE  /\ UNCHANGED <<bundle, fetches, conversations>>
               /\ \A j \in PrekeyIds : prekey'[j].claims = prekey[j].claims
               /\ uploaded' + register'.prekeys <= MaxPrekey
    <3>1. prekey' = [prekey EXCEPT ![id].old = TRUE]
      BY <2>5 DEF ClaimGetsOld
    <3>2. ASSUME NEW j \in PrekeyIds
          PROVE  prekey'[j].claims = prekey[j].claims
      <4>1. prekey'[j] = IF j = id THEN [prekey[id] EXCEPT !.old = TRUE] ELSE prekey[j]
        BY <1>1, <3>1
      <4>2. QED
        BY <1>1, <4>1 DEF PrekeyRows
    <3>3. UNCHANGED <<bundle, fetches, conversations, uploaded, register>>
      BY <2>5, Zenon DEF ClaimGetsOld, senderSide, deviceSide
    <3>4. QED
      BY <3>2, <3>3 DEF CountsInv
  <2>6. CASE RegisterFails
    <3>1. /\ UNCHANGED <<bundle, fetches, conversations, prekey, uploaded>>
          /\ register' = [step |-> "idle", prekeys |-> 0]
      BY <2>6 DEF RegisterFails, senderSide
    <3>2. uploaded + register.prekeys <= MaxPrekey
      BY DEF CountsInv
    <3>3. uploaded' + register'.prekeys <= MaxPrekey
      BY <1>1, <3>1, <3>2, PrekeyBounds
    <3>4. QED
      BY <3>1, <3>3
  <2>7. QED
    BY <2>1, <2>2, <2>3, <2>4, <2>5, <2>6 DEF RegisterStep
<1>3. Creating' = Creating
  BY <1>2 DEF Creating
<1>4. QED
  BY <1>2, <1>3 DEF CountsInv

LEMMA CountsClaim ==
    ASSUME PrekeyTyped, CountsInv, NEW k \in KeyUsers, Claim(k)
    PROVE  CountsInv'
<1>1. PICK id \in PrekeyIds :
        /\ Live(id)
        /\ prekey' \in [PrekeyIds -> PrekeyRows]
        /\ \A j \in PrekeyIds :
              /\ prekey'[j].of = prekey[j].of
              /\ prekey'[j].claims = IF j = id THEN prekey[j].claims + 1
                                     ELSE prekey[j].claims
              /\ Live(j)' <=> Live(j)
        /\ bundle' = [bundle EXCEPT ![k] = [NoBundle EXCEPT
                         !.step = "claimed", !.id = id, !.of = prekey[id].of]]
  BY ClaimEffect
<1>2. /\ bundle[k] = NoBundle /\ fetches < MaxFetch /\ fetches' = fetches + 1
      /\ UNCHANGED <<uploaded, register, conversations>>
  BY DEF Claim, deviceSide
<1>3. PICK b : b = Handed(id, prekey[id].of) /\ b.step = "claimed"
  BY HandedOut
<1>4. Creating' = Creating
  <2>1. bundle[k].step # "create"
    BY <1>2 DEF NoBundle
  <2>2. bundle' = [bundle EXCEPT ![k] = b] /\ b.step # "create"
    BY <1>1, <1>3 DEF Handed
  <2>3. QED
    BY <2>1, <2>2, CreatingKept
<1>5. \A j \in PrekeyIds : prekey'[j].claims <= fetches'
  BY <1>1, <1>2, PrekeyNumbers DEF CountsInv
<1>6. fetches' \in Nat /\ fetches' <= MaxFetch
  BY <1>2, PrekeyConstants DEF CountsInv
<1>7. QED
  BY <1>2, <1>4, <1>5, <1>6 DEF CountsInv

\* The query and the creation of the conversation.
LEMMA CountsConversation ==
    ASSUME PrekeyTyped, CountsInv, NEW k \in KeyUsers,
           FindConversation(k) \/ CreateConversation(k)
    PROVE  CountsInv'
<1>1. bundle \in [KeyUsers -> Bundles] /\ bundle[k] \in Bundles
  BY DEF PrekeyTyped
<1>2. /\ UNCHANGED <<deviceSide, fetches, prekey>>
      /\ conversations \in Nat /\ Cardinality(Creating) \in Nat
  BY CreatingFinite DEF FindConversation, CreateConversation, BundleAt, CountsInv
<1>3. conversations' \in Nat
      /\ conversations' + Cardinality(Creating') <= Cardinality(KeyUsers)
  <2>1. CASE FindConversation(k) /\ conversations > 0
    <3>1. PICK b : b = Stepped(bundle[k], "store") /\ b.step = "store"
      BY <1>1, BundleUpdates
    <3>2. bundle' = [bundle EXCEPT ![k] = b] /\ bundle[k].step = "conversation"
      BY <2>1, <3>1 DEF FindConversation, BundleGoTo, BundleAt, Stepped
    <3>3. Creating' = Creating
      BY <3>1, <3>2, CreatingKept
    <3>4. conversations' = conversations
      BY <2>1 DEF FindConversation
    <3>5. QED
      BY <1>2, <3>3, <3>4 DEF CountsInv
  <2>2. CASE FindConversation(k) /\ ~(conversations > 0)
    <3>1. conversations' = conversations /\ conversations = 0
      BY <1>2, <2>2 DEF FindConversation
    <3>2. Cardinality(Creating)' <= Cardinality(KeyUsers) /\ Cardinality(Creating)' \in Nat
      <4>1. IsFiniteSet(KeyUsers) /\ Creating' \subseteq KeyUsers
        BY PrekeyConstants DEF Creating
      <4>2. QED
        BY <4>1, FS_Subset, FS_CardinalityType
    <3>3. QED
      BY <3>1, <3>2
  <2>3. CASE CreateConversation(k)
    <3>1. PICK b : b = Stepped(bundle[k], "store") /\ b.step = "store"
      BY <1>1, BundleUpdates
    <3>2. /\ bundle' = [bundle EXCEPT ![k] = b] /\ bundle[k].step = "create"
          /\ conversations' = conversations + 1
      BY <2>3, <3>1 DEF CreateConversation, BundleGoTo, BundleAt, Stepped
    <3>3. \A j \in KeyUsers : bundle'[j] = IF j = k THEN b ELSE bundle[j]
      BY <1>1, <3>2
    <3>4. Creating' = Creating \ {k} /\ k \in Creating
      BY <3>1, <3>2, <3>3 DEF Creating
    <3>5. Cardinality(Creating \ {k}) = Cardinality(Creating) - 1
      BY <3>4, CreatingFinite, FS_RemoveElement
    <3>6. Cardinality(Creating') = Cardinality(Creating) - 1
      BY <3>4, <3>5
    <3>7. conversations + Cardinality(Creating) <= Cardinality(KeyUsers)
      BY DEF CountsInv
    <3>8. QED
      BY <1>2, <3>2, <3>6, <3>7, CreatingFinite
  <2>4. QED
    BY <2>1, <2>2, <2>3
<1>4. QED
  BY <1>2, <1>3 DEF CountsInv, deviceSide

\* The other steps of a sender.
LEMMA CountsSender ==
    ASSUME PrekeyTyped, CountsInv, NEW k \in KeyUsers,
           \/ BundleIdentity(k) \/ BundleDropped(k) \/ SendCheck(k) \/ StoreMessage(k)
           \/ StoreEdit(k) \/ StoreDistribution(k) \/ ConsumeDistribution(k)
    PROVE  CountsInv'
<1>1. bundle \in [KeyUsers -> Bundles] /\ bundle[k] \in Bundles
  BY DEF PrekeyTyped
<1>2. UNCHANGED <<deviceSide, fetches, conversations>>
  BY DEF BundleIdentity, BundleDropped, SendCheck, StoreMessage, StoreEdit,
         StoreDistribution, ConsumeDistribution, BundleAt
<1>3. /\ \/ bundle[k].step \in {"claimed", "held", "store", "consume"}
         \/ bundle' = [bundle EXCEPT ![k] = NoBundle]
      /\ prekey' = prekey \/ (bundle[k].step \in {"store", "consume"} /\ Consume(bundle[k].id))
  BY DEF BundleIdentity, BundleDropped, SendCheck, StoreMessage, StoreEdit,
         StoreDistribution, ConsumeDistribution, BundleAt
<1>4. \A id \in PrekeyIds : prekey'[id].claims = prekey[id].claims
  <2>1. bundle[k].step # "none" => bundle[k].id \in PrekeyIds
    BY DEF PrekeyTyped
  <2>2. QED
    BY <1>3, <2>1, ConsumeEffect
<1>5. PICK b : bundle' = [bundle EXCEPT ![k] = b] /\ b.step # "create"
  <2>1. NoBundle.step # "create"
    BY DEF NoBundle
  <2>2. CASE \/ BundleDropped(k) \/ StoreMessage(k) \/ StoreEdit(k) \/ ConsumeDistribution(k)
    BY <2>1, <2>2 DEF BundleDropped, StoreMessage, StoreEdit, ConsumeDistribution
  <2>3. CASE BundleIdentity(k)
    <3>1. PICK b : b = Identified(bundle[k], identityRow) /\ b.step = "held"
      BY <1>1, BundleUpdates
    <3>2. bundle' = [bundle EXCEPT ![k] = b]
      BY <1>1, <2>3, <3>1 DEF BundleIdentity, Identified
    <3>3. QED
      BY <3>1, <3>2
  <2>4. CASE SendCheck(k)
    <3>1. PICK b : b = Accepted(bundle[k], identityRow) /\ b.step = "conversation"
      BY <1>1, BundleUpdates
    <3>2. bundle' = [bundle EXCEPT ![k] = b] \/ bundle' = [bundle EXCEPT ![k] = NoBundle]
      BY <1>1, <2>4, <3>1 DEF SendCheck, Accepted
    <3>3. QED
      BY <2>1, <3>1, <3>2
  <2>5. CASE StoreDistribution(k)
    <3>1. PICK b : b = Stepped(bundle[k], "consume") /\ b.step = "consume"
      BY <1>1, BundleUpdates
    <3>2. bundle' = [bundle EXCEPT ![k] = b]
      BY <2>5, <3>1 DEF StoreDistribution, BundleGoTo, Stepped
    <3>3. QED
      BY <3>1, <3>2
  <2>6. QED
    BY <2>2, <2>3, <2>4, <2>5
<1>6. CASE bundle[k].step # "create"
  <2>1. Creating' = Creating
    BY <1>5, <1>6, CreatingKept
  <2>2. QED
    BY <1>2, <1>4, <2>1, CountsKept
\* A conversation that cannot be created.
<1>7. CASE bundle[k].step = "create"
  <2>1. \A j \in KeyUsers : bundle'[j] = IF j = k THEN b ELSE bundle[j]
    BY <1>1, <1>5
  <2>2. Creating' = Creating \ {k} /\ k \in Creating
    BY <1>5, <1>7, <2>1 DEF Creating
  <2>3. Cardinality(Creating \ {k}) = Cardinality(Creating) - 1
    BY <2>2, CreatingFinite, FS_RemoveElement
  <2>4. /\ conversations' \in Nat
        /\ conversations' + Cardinality(Creating') <= Cardinality(KeyUsers)
    BY <1>2, <2>2, <2>3, CreatingFinite DEF CountsInv
  <2>5. QED
    BY <1>2, <1>4, <2>4 DEF CountsInv, deviceSide
<1>8. QED
  BY <1>6, <1>7

LEMMA CountsInvHolds == PrekeySpec => [](PrekeyTyped /\ CountsInv)
<1>1. PrekeyInit => CountsInv
  <2> SUFFICES ASSUME PrekeyInit
               PROVE  CountsInv
    OBVIOUS
  <2>1. Creating = {}
    BY NoBundleFacts DEF PrekeyInit, Creating
  <2>2. Cardinality(Creating) = 0
    BY <2>1, FS_EmptySet
  <2>3. register.prekeys = 0 /\ \A id \in PrekeyIds : prekey[id].claims = 0
    BY DEF PrekeyInit
  <2>4. QED
    BY <2>2, <2>3, CreatingFinite, PrekeyConstants DEF PrekeyInit, CountsInv
<1>2. PrekeyTyped /\ CountsInv /\ [PrekeyNext]_prekeyVars => CountsInv'
  <2> SUFFICES ASSUME PrekeyTyped, CountsInv, [PrekeyNext]_prekeyVars
               PROVE  CountsInv'
    OBVIOUS
  <2>1. CASE \/ \E n \in 0 .. MaxPrekey, renewed \in BOOLEAN : RegisterKeys(renewed, n)
             \/ RegisterStep
             \/ \E id \in PrekeyIds : ClaimGetsOld(id)
    BY <2>1, CountsDevice
  <2>2. ASSUME NEW k \in KeyUsers, Claim(k) PROVE CountsInv'
    BY <2>2, CountsClaim
  <2>3. ASSUME NEW k \in KeyUsers, FindConversation(k) \/ CreateConversation(k)
        PROVE  CountsInv'
    BY <2>3, CountsConversation
  <2>4. ASSUME NEW k \in KeyUsers,
               \/ BundleIdentity(k) \/ BundleDropped(k) \/ SendCheck(k) \/ StoreMessage(k)
               \/ StoreEdit(k) \/ StoreDistribution(k) \/ ConsumeDistribution(k)
        PROVE  CountsInv'
    BY <2>4, CountsSender
  <2>5. CASE UNCHANGED prekeyVars
    BY <2>5 DEF prekeyVars, CountsInv, Creating
  <2>6. QED
    BY <2>1, <2>2, <2>3, <2>4, <2>5 DEF PrekeyNext
<1>3. PrekeyInv => PrekeyTyped
  BY DEF PrekeyInv
<1>4. QED
  BY <1>1, <1>2, <1>3, PrekeySafety, PTL DEF PrekeySpec

\* Every row, bundle and count has its type; among them, that two first messages
\* that race through getOrCreatePrivateConversation() create at most one
\* conversation for each handler.
THEOREM PrekeyTypes == PrekeySpec => []PrekeyTypeOK
<1>1. PrekeyTyped /\ CountsInv => PrekeyTypeOK
  <2> SUFFICES ASSUME PrekeyTyped, CountsInv
               PROVE  PrekeyTypeOK
    OBVIOUS
  <2>1. /\ uploaded \in 0 .. MaxPrekey
        /\ register \in [step : {"idle", "purge", "upsert", "upload"}, prekeys : 0 .. MaxPrekey]
    <3>1. /\ uploaded \in Nat /\ register.prekeys \in Nat
          /\ register \in [step : {"idle", "purge", "upsert", "upload"}, prekeys : Nat]
          /\ uploaded + register.prekeys <= MaxPrekey
      BY DEF PrekeyTyped, CountsInv
    <3>2. uploaded \in 0 .. MaxPrekey /\ register.prekeys \in 0 .. MaxPrekey
      BY <3>1, PrekeyBounds
    <3>3. QED
      BY <3>1, <3>2
  <2>2. prekey \in [PrekeyIds -> [state : {"none", "unused", "claimed", "used"},
                                  of : Identities, old : BOOLEAN, claims : 0 .. MaxFetch]]
    <3>1. ASSUME NEW id \in PrekeyIds
          PROVE  prekey[id] \in [state : {"none", "unused", "claimed", "used"},
                                 of : Identities, old : BOOLEAN, claims : 0 .. MaxFetch]
      <4>1. prekey[id] \in PrekeyRows
        BY DEF PrekeyTyped
      <4>2. prekey[id].claims \in 0 .. MaxFetch
        <5>1. /\ prekey[id].claims \in Nat /\ prekey[id].claims <= fetches
              /\ fetches \in Nat /\ fetches <= MaxFetch
          BY PrekeyNumbers DEF CountsInv
        <5>2. QED
          BY <5>1, PrekeyConstants
      <4>3. QED
        BY <4>1, <4>2 DEF PrekeyRows
    <3>2. prekey \in [PrekeyIds -> PrekeyRows]
      BY DEF PrekeyTyped
    <3>3. QED
      BY <3>1, <3>2
  <2>3. fetches \in 0 .. MaxFetch /\ conversations \in 0 .. Cardinality(KeyUsers)
    BY CreatingFinite, PrekeyConstants DEF CountsInv
  <2>4. QED
    BY <2>1, <2>2, <2>3 DEF PrekeyTypeOK, PrekeyTyped, Bundles, StoredContents
<1>2. QED
  BY <1>1, CountsInvHolds, PTL


-----------------------------------------------------------------------------
(***************************************************************************)
(* RequestGate, for any number of nonces and handlers, any size of the     *)
(* cache and any tolerance an entry outlives twice: a request passes the   *)
(* gate once.                                                              *)
(***************************************************************************)
USE GateConstants

\* A request whose timestamp was compared was within the tolerance then.
GateWithin ==
    \A h \in GateHandlers : \A g \in gate[h] :
        /\ stamp[g.nonce] # NoTime
        /\ g.at - stamp[g.nonce] >= -Tolerance
        /\ g.at - stamp[g.nonce] <= Tolerance

\* The time at which a copy of n no longer passes the first half of the gate.
TooOld(n) == clock > stamp[n] + Tolerance

\* What keeps a copy of a request that has passed out: its entry, which is not
\* older than its timestamp allows, or else the timestamp itself.
Guarded(n) ==
    /\ stamp[n] # NoTime
    /\ \/ seen[n] # NoTime /\ seen[n] >= stamp[n] - Tolerance
       \/ TooOld(n)

\* The account of every nonce that met none of the exceptions.
Account ==
    \A n \in Nonces \ (forgotten \cup late) :
        /\ passed[n] <= 1
        /\ passed[n] = 1 => Guarded(n)

GateInv ==
    /\ GateTypeOK
    /\ GateWithin
    /\ Account

-----------------------------------------------------------------------------
\* An entry goes when its timestamp is out of the tolerance: the lifetime of
\* entries is twice the tolerance (NonceCache against checkReplayProtection).
LEMMA ExpiredIsTooOld ==
    ASSUME GateTypeOK, NEW n \in Nonces, stamp[n] # NoTime,
           seen[n] >= stamp[n] - Tolerance, Expired(n)
    PROVE  TooOld(n)
<1>1. clock \in Int /\ stamp[n] \in Int /\ seen[n] \in Int
  BY DEF GateTypeOK, Times, NoTime
<1>2. QED
  BY <1>1 DEF Expired, TooOld

\* purgeExpired() takes expired entries away and changes no other.
LEMMA PurgedOnlyExpired ==
    ASSUME GateTypeOK
    PROVE  /\ Purged \in [Nonces -> Times \cup {NoTime}]
           /\ \A n \in Nonces : Purged[n] = seen[n] \/ (Purged[n] = NoTime /\ Expired(n))
BY DEF GateTypeOK, Purged

\* Making room takes entries away and changes none.
LEMMA EvictedOnlyRemoves ==
    ASSUME GateTypeOK
    PROVE  /\ Evicted \in [Nonces -> Times \cup {NoTime}]
           /\ \A n \in Nonces : Evicted[n] = seen[n] \/ Evicted[n] = NoTime
BY PurgedOnlyExpired DEF Evicted

-----------------------------------------------------------------------------
LEMMA GateInitInv == GateInit => GateInv
BY DEF GateInit, GateInv, GateTypeOK, GateWithin, Account, Times, NoTime

\* A new request is guarded by nothing and needs no guard.
LEMMA MakeRequestKeeps ==
    ASSUME GateInv, NEW n \in Nonces, NEW t \in Times, MakeRequest(n, t)
    PROVE  GateInv'
<1>1. GateTypeOK'
  BY DEF GateInv, GateTypeOK, MakeRequest, gateHistory
<1>2. stamp' = [stamp EXCEPT ![n] = t] /\ stamp[n] = NoTime /\ stamp \in [Nonces -> Times \cup {NoTime}]
  BY DEF GateInv, GateTypeOK, MakeRequest
<1>3. GateWithin'
  <2> SUFFICES ASSUME NEW h \in GateHandlers, NEW g \in gate[h]
               PROVE  /\ stamp'[g.nonce] # NoTime
                      /\ g.at - stamp'[g.nonce] >= -Tolerance
                      /\ g.at - stamp'[g.nonce] <= Tolerance
    BY DEF GateWithin, MakeRequest
  <2>1. g.nonce # n /\ g.nonce \in Nonces
    BY <1>2 DEF GateInv, GateWithin, GateTypeOK
  <2>2. QED
    BY <1>2, <2>1 DEF GateInv, GateWithin
<1>4. Account'
  <2> SUFFICES ASSUME NEW m \in Nonces, m \notin forgotten, m \notin late
               PROVE  passed[m] <= 1 /\ (passed[m] = 1 => Guarded(m)')
    BY DEF Account, MakeRequest, gateHistory
  <2>1. passed[m] <= 1 /\ (passed[m] = 1 => Guarded(m))
    BY DEF GateInv, Account
  <2>2. passed[m] = 1 => m # n
    BY <1>2, <2>1 DEF Guarded
  <2>3. m # n => stamp'[m] = stamp[m]
    BY <1>2
  <2>4. UNCHANGED <<clock, seen>>
    BY DEF MakeRequest
  <2>5. QED
    BY <2>1, <2>2, <2>3, <2>4 DEF Guarded, TooOld
<1>5. QED
  BY <1>1, <1>3, <1>4 DEF GateInv

LEMMA CheckTimestampKeeps ==
    ASSUME GateInv, NEW h \in GateHandlers, NEW n \in Nonces, CheckTimestamp(h, n)
    PROVE  GateInv'
<1>1. GateTypeOK'
  BY DEF GateInv, GateTypeOK, CheckTimestamp, gateHistory
<1>2. GateWithin'
  <2>1. clock \in Int /\ stamp[n] \in Int
    BY DEF GateInv, GateTypeOK, Times, NoTime
  <2>2. clock - stamp[n] >= -Tolerance /\ clock - stamp[n] <= Tolerance /\ stamp[n] # NoTime
    BY <2>1 DEF CheckTimestamp
  <2>3. QED
    BY <2>2 DEF GateInv, GateTypeOK, GateWithin, CheckTimestamp
<1>3. Account'
  BY DEF GateInv, Account, Guarded, TooOld, CheckTimestamp, gateHistory
<1>4. QED
  BY <1>1, <1>2, <1>3 DEF GateInv

LEMMA GateTickKeeps ==
    ASSUME GateInv, GateTick
    PROVE  GateInv'
<1>1. GateTypeOK'
  BY DEF GateInv, GateTypeOK, GateTick, Times, gateHistory
<1>2. GateWithin'
  BY DEF GateInv, GateWithin, GateTick
<1>3. Account'
  <2> SUFFICES ASSUME NEW m \in Nonces, m \notin forgotten, m \notin late
               PROVE  passed[m] <= 1 /\ (passed[m] = 1 => Guarded(m)')
    BY DEF Account, GateTick, gateHistory
  <2>1. passed[m] <= 1 /\ (passed[m] = 1 => Guarded(m))
    BY DEF GateInv, Account
  <2>2. clock \in Int /\ clock' = clock + 1 /\ stamp[m] \in Int /\ UNCHANGED <<stamp, seen>>
    BY DEF GateInv, GateTypeOK, GateTick, Times, NoTime
  <2>3. QED
    BY <2>1, <2>2 DEF Guarded, TooOld
<1>4. QED
  BY <1>1, <1>2, <1>3 DEF GateInv

\* The second half of the gate: a copy of a request that has passed either
\* meets its entry or has been refused by its timestamp.
LEMMA CheckAndInsertKeeps ==
    ASSUME GateInv, NEW h \in GateHandlers, CheckAndInsert(h)
    PROVE  GateInv'
<1>1. PICK g \in gate[h] :
        /\ gate' = [gate EXCEPT ![h] = {}]
        /\ IF seen[g.nonce] # NoTime /\ ~Expired(g.nonce)
           THEN seen' = Purged /\ UNCHANGED <<passed, forgotten, late>>
           ELSE /\ seen' = [Evicted EXCEPT ![g.nonce] = clock]
                /\ passed' = [passed EXCEPT ![g.nonce] = IF @ = 2 THEN 2 ELSE @ + 1]
                /\ forgotten' = forgotten \cup {n \in Known : /\ ~Expired(n)
                                                              /\ seen'[n] = NoTime}
                /\ late' = IF g.at = clock THEN late ELSE late \cup {g.nonce}
        /\ UNCHANGED <<clock, stamp>>
  BY DEF CheckAndInsert
<1>2. GateTypeOK /\ Account /\ GateWithin
  BY DEF GateInv
<1>3. g.nonce \in Nonces /\ g.at \in Int /\ stamp[g.nonce] # NoTime
      /\ g.at - stamp[g.nonce] >= -Tolerance /\ g.at - stamp[g.nonce] <= Tolerance
  BY <1>2 DEF GateTypeOK, GateWithin, Times
<1>4. /\ gate' \in [GateHandlers -> SUBSET [nonce : Nonces, at : Times]]
      /\ GateWithin'
  BY <1>1, <1>2 DEF GateTypeOK, GateWithin
<1>5. clock \in Times /\ clock \in Int /\ UNCHANGED <<clock, stamp>>
  BY <1>1, <1>2 DEF GateTypeOK, Times
\* An entry that goes before its time is an exception; one that goes in time
\* leaves its request to the timestamp.
<1>6. ASSUME NEW m \in Nonces, passed[m] = 1, Guarded(m),
             seen'[m] = seen[m] \/ (seen'[m] = NoTime /\ Expired(m))
      PROVE  Guarded(m)'
  <2>1. CASE seen'[m] = seen[m]
    BY <1>5, <1>6, <2>1 DEF Guarded, TooOld
  <2>2. CASE seen'[m] = NoTime /\ Expired(m)
    <3>1. TooOld(m)
      BY <1>2, <1>6, <2>2, ExpiredIsTooOld DEF Guarded
    <3>2. QED
      BY <1>5, <1>6, <3>1 DEF Guarded, TooOld
  <2>3. QED
    BY <1>6, <2>1, <2>2
<1>7. CASE seen[g.nonce] # NoTime /\ ~Expired(g.nonce)
  <2>1. seen' = Purged /\ UNCHANGED <<passed, forgotten, late>>
    BY <1>1, <1>7
  <2>2. GateTypeOK'
    BY <1>2, <1>4, <1>5, <2>1, PurgedOnlyExpired DEF GateTypeOK
  <2>3. Account'
    <3> SUFFICES ASSUME NEW m \in Nonces, m \notin forgotten, m \notin late
                 PROVE  passed[m] <= 1 /\ (passed[m] = 1 => Guarded(m)')
      BY <2>1 DEF Account
    <3>1. passed[m] <= 1 /\ (passed[m] = 1 => Guarded(m))
      BY <1>2 DEF Account
    <3>2. seen'[m] = seen[m] \/ (seen'[m] = NoTime /\ Expired(m))
      BY <1>2, <2>1, PurgedOnlyExpired
    <3>3. QED
      BY <1>6, <3>1, <3>2
  <2>4. QED
    BY <1>4, <2>2, <2>3 DEF GateInv
<1>8. CASE ~(seen[g.nonce] # NoTime /\ ~Expired(g.nonce))
  <2>1. /\ seen' = [Evicted EXCEPT ![g.nonce] = clock]
        /\ passed' = [passed EXCEPT ![g.nonce] = IF @ = 2 THEN 2 ELSE @ + 1]
        /\ forgotten' = forgotten \cup {n \in Known : ~Expired(n) /\ seen'[n] = NoTime}
        /\ late' = IF g.at = clock THEN late ELSE late \cup {g.nonce}
    BY <1>1, <1>8, Zenon
  <2>2. passed \in [Nonces -> 0 .. 2] /\ seen \in [Nonces -> Times \cup {NoTime}]
    BY <1>2 DEF GateTypeOK
  <2>3. GateTypeOK'
    <3>1. passed' \in [Nonces -> 0 .. 2]
      <4>1. passed[g.nonce] \in 0 .. 2
        BY <1>3, <2>2
      <4>2. (IF passed[g.nonce] = 2 THEN 2 ELSE passed[g.nonce] + 1) \in 0 .. 2
        BY <4>1
      <4>3. QED
        BY <2>1, <2>2, <4>2
    <3>2. seen' \in [Nonces -> Times \cup {NoTime}]
      BY <1>2, <1>5, <2>1, EvictedOnlyRemoves
    <3>3. forgotten' \subseteq Nonces /\ late' \subseteq Nonces
      BY <1>2, <1>3, <2>1 DEF GateTypeOK, Known
    <3>4. QED
      BY <1>2, <1>4, <1>5, <3>1, <3>2, <3>3 DEF GateTypeOK
  <2>4. Account'
    <3> SUFFICES ASSUME NEW m \in Nonces, m \notin forgotten', m \notin late'
                 PROVE  passed'[m] <= 1 /\ (passed'[m] = 1 => Guarded(m)')
      BY DEF Account
    <3>1. m \notin forgotten /\ m \notin late
      BY <2>1
    <3>2. passed[m] <= 1 /\ (passed[m] = 1 => Guarded(m))
      BY <1>2, <3>1 DEF Account
    <3>3. CASE m = g.nonce
      <4>1. g.at = clock
        BY <2>1, <3>3
      <4>2. stamp[m] \in Int /\ ~TooOld(m)
        BY <1>2, <1>3, <1>5, <3>3, <4>1 DEF TooOld, GateTypeOK, Times, NoTime
      <4>3. passed[m] # 1
        BY <1>2, <1>8, <3>2, <3>3, <4>2, ExpiredIsTooOld DEF Guarded
      <4>4. passed'[m] = 1
        BY <2>1, <2>2, <3>2, <3>3, <4>3
      <4>5. seen'[m] = clock
        BY <1>2, <2>1, <3>3, EvictedOnlyRemoves
      <4>6. Guarded(m)'
        BY <1>3, <1>5, <3>3, <4>1, <4>2, <4>5 DEF Guarded, Times, NoTime
      <4>7. QED
        BY <4>4, <4>6
    <3>4. CASE m # g.nonce
      <4>1. passed'[m] = passed[m] /\ seen'[m] = Evicted[m]
        BY <1>2, <2>1, <2>2, <3>4, EvictedOnlyRemoves
      <4>2. seen'[m] = seen[m] \/ (seen'[m] = NoTime /\ Expired(m))
        BY <1>2, <2>1, <4>1, EvictedOnlyRemoves DEF Known
      <4>3. QED
        BY <1>6, <3>2, <4>1, <4>2
    <3>5. QED
      BY <3>3, <3>4
  <2>5. QED
    BY <1>4, <2>3, <2>4 DEF GateInv
<1>9. QED
  BY <1>7, <1>8

\* A restart forgets the entries there are: their nonces are exceptions.
LEMMA GateRestartKeeps ==
    ASSUME GateInv, GateRestart
    PROVE  GateInv'
<1>1. GateTypeOK'
  BY DEF GateInv, GateTypeOK, GateRestart, Known
<1>2. GateWithin'
  BY DEF GateWithin, GateRestart
<1>3. Account'
  BY DEF GateInv, Account, Guarded, TooOld, GateRestart, Known
<1>4. QED
  BY <1>1, <1>2, <1>3 DEF GateInv

-----------------------------------------------------------------------------
LEMMA GateStep == GateInv /\ [GateNext]_gateVars => GateInv'
<1> SUFFICES ASSUME GateInv, [GateNext]_gateVars
             PROVE  GateInv'
  OBVIOUS
<1>1. CASE UNCHANGED gateVars
  BY <1>1 DEF gateVars, gateHistory, GateInv, GateTypeOK, GateWithin, Account, Guarded, TooOld
<1>2. CASE GateNext
  BY <1>2, MakeRequestKeeps, CheckTimestampKeeps, GateTickKeeps, CheckAndInsertKeeps,
     GateRestartKeeps
  DEF GateNext
<1>3. QED
  BY <1>1, <1>2

\* Whatever copies of a request arrive, on whatever connections and when, the
\* gate lets one through, unless the server forgot the nonce before its time or
\* the clock went on between the two halves (checkReplayProtection and
\* NonceCache::checkAndInsert).
THEOREM GatePassesOnce == GateSpec => []PassesOnce
<1>1. GateInv => PassesOnce
  BY DEF GateInv, Account, PassesOnce
<1>2. QED
  BY GateInitInv, GateStep, <1>1, PTL DEF GateSpec

\* The variables of the gate keep their types.
THEOREM GateTypeCorrect == GateSpec => []GateTypeOK
<1>1. GateInv => GateTypeOK
  BY DEF GateInv
<1>2. QED
  BY GateInitInv, GateStep, <1>1, PTL DEF GateSpec

-----------------------------------------------------------------------------
(***************************************************************************)
(* The parts side by side, as one run explores them.                       *)
(***************************************************************************)

\* What holds of a part on its own holds of it in MCServer: a step of another
\* part leaves its variables alone.
LEMMA PartsBehave == PartsSpec => Spec /\ ReceiptSpec /\ PrekeySpec /\ GateSpec
<1>1. PartsInit => Init /\ ReceiptInit /\ PrekeyInit /\ GateInit
  BY DEF PartsInit
<1>2. [PartsNext]_serverParts =>
        /\ [Next]_vars /\ [ReceiptNext]_receiptVars
        /\ [PrekeyNext]_prekeyVars /\ [GateNext]_gateVars
  BY Zenon DEF PartsNext, serverParts
<1>3. QED
  BY <1>1, <1>2, PTL DEF PartsSpec, Spec, ReceiptSpec, PrekeySpec, GateSpec

\* Every part keeps its types.
THEOREM PartsTyped == PartsSpec => []PartsTypeOK
<1>1. PartsInit => part \in Parts
  BY DEF PartsInit
<1>2. part \in Parts /\ [PartsNext]_serverParts => (part \in Parts)'
  BY DEF PartsNext, serverParts
<1>3. PartsSpec => [](part \in Parts)
  BY <1>1, <1>2, PTL DEF PartsSpec
<1>4. part \in Parts /\ TypeOK /\ ReceiptTypeOK /\ PrekeyTypeOK /\ GateTypeOK => PartsTypeOK
  BY DEF PartsTypeOK
<1>5. QED
  BY <1>3, <1>4, PartsBehave, TypeCorrect, ReceiptTypes, PrekeyTypes, GateTypeCorrect, PTL
=============================================================================
