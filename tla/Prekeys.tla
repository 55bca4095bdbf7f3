------------------------------- MODULE Prekeys -------------------------------
(***************************************************************************)
(* One-time prekeys of one device on the server.                           *)
(*                                                                         *)
(* The device registers its identity key and uploads prekeys; the handlers *)
(* of other users' connections hand a prekey out with the identity key     *)
(* (fetch_keys, fetch_group_keys), and take in what was encrypted with     *)
(* them: a private message, the edit of one, or the distribution of a      *)
(* group's sender key.  Each request is a sequence of SQL statements; only *)
(* the claim and the storing of a private message are transactions.        *)
(*                                                                         *)
(* The device decrypts one content with a prekey and forgets its secret    *)
(* (decryptIncomingContent), so a second content is lost on it.            *)
(*                                                                         *)
(* Keys are numbers, identity keys counted by generation.  Formats, quotas *)
(* and rate limits come before all of this and are left out; so is         *)
(* removeDevice(), which no request calls.                                 *)
(***************************************************************************)
EXTENDS Integers, FiniteSets, Sequences

CONSTANTS
    KeyUsers,      \* handler threads of connections that send to the device
    MaxPrekey,     \* bound: prekeys uploaded
    MaxIdentity,   \* bound: identity keys of the device
    MaxFetch       \* bound: bundles handed out

ASSUME PrekeyConstants ==
    /\ IsFiniteSet(KeyUsers)
    /\ {MaxPrekey, MaxFetch} \subseteq Nat
    /\ MaxIdentity \in Nat \ {0}

VARIABLES
    identityRow,   \* device_identity_keys: 0 without a row
    prekey,        \* prekeys table
    uploaded,      \* AUTOINCREMENT: prekeys uploaded so far
    ownIdentity,   \* the device: its identity key
    register,      \* register_keys in progress on the device's handler
    bundle,        \* what each sender has been handed out, and its request
    fetches,       \* bundles handed out so far
    contents,      \* stored contents that refer to a prekey of the device
    conversations, \* private conversations of the two users
    kept,          \* history: prekeys a failed purge left beside a new identity key
    raced,         \* history: prekeys two messages passed the check with
    unconsumed     \* history: prekeys of messages stored without consuming them

prekeyHistory == <<raced, unconsumed>>
prekeyVars == <<identityRow, prekey, uploaded, ownIdentity, register, bundle,
                fetches, contents, conversations, kept, prekeyHistory>>

PrekeyIds == 1 .. MaxPrekey
Identities == 0 .. MaxIdentity
ContentKinds == {"message", "edit", "distribution"}

NoBundle == [step |-> "none", id |-> 0, of |-> 0, identity |-> 0, registered |-> 0]
BundleSteps == {"none", "claimed", "held", "conversation", "create", "store",
                "edit", "distribute", "consume"}

PrekeyTypeOK ==
    /\ identityRow \in Identities /\ ownIdentity \in 1 .. MaxIdentity
    /\ prekey \in [PrekeyIds -> [state : {"none", "unused", "claimed", "used"},
                                 of : Identities, old : BOOLEAN,
                                 claims : 0 .. MaxFetch]]
    /\ uploaded \in 0 .. MaxPrekey
    /\ register \in [step : {"idle", "purge", "upsert", "upload"}, prekeys : 0 .. MaxPrekey]
    /\ bundle \in [KeyUsers -> [step : BundleSteps, id : 0 .. MaxPrekey, of : Identities,
                                identity : Identities, registered : Identities]]
    /\ fetches \in 0 .. MaxFetch
    /\ contents \in Seq([kind : ContentKinds, id : PrekeyIds, of : Identities,
                         identity : Identities, registered : Identities])
    /\ conversations \in 0 .. Cardinality(KeyUsers)
    /\ {kept, raced, unconsumed} \subseteq SUBSET PrekeyIds

\* No content is stored, no conversation exists, nothing is registered.
PrekeyInit ==
    /\ identityRow = 0 /\ ownIdentity = 1
    /\ prekey = [id \in PrekeyIds |->
                    [state |-> "none", of |-> 0, old |-> FALSE, claims |-> 0]]
    /\ uploaded = 0
    /\ register = [step |-> "idle", prekeys |-> 0]
    /\ bundle = [k \in KeyUsers |-> NoBundle]
    /\ fetches = 0 /\ contents = <<>> /\ conversations = 0
    /\ kept = {} /\ raced = {} /\ unconsumed = {}

-----------------------------------------------------------------------------
(***************************************************************************)
(* register_keys.                                                          *)
(***************************************************************************)
senderSide == <<bundle, fetches, contents, conversations, prekeyHistory>>

\* bootstrapE2ee() after a login, with the stored identity key or, when that is
\* lost, a new one; sendRegisterKeysRequest() adds prekeys when few are left.  A
\* registration that would change no row is left out.
RegisterKeys(renewed, n) ==
    /\ register.step = "idle"
    /\ renewed \/ n > 0 \/ identityRow # ownIdentity
    /\ uploaded + n <= MaxPrekey
    /\ ownIdentity' = IF renewed THEN ownIdentity + 1 ELSE ownIdentity
    /\ ownIdentity' <= MaxIdentity
    /\ register' = [step |-> "purge", prekeys |-> n]
    /\ UNCHANGED <<identityRow, prekey, uploaded, kept, senderSide>>

\* Prekeys that another identity key makes worthless.
Worthless == {id \in PrekeyIds : /\ identityRow \notin {0, ownIdentity}
                                /\ prekey[id].state \in {"unused", "claimed"}}

Purge(ids) ==
    prekey' = [id \in PrekeyIds |-> IF id \in ids THEN [prekey[id] EXCEPT !.state = "none"]
                                                 ELSE prekey[id]]

\* Faulty variant: prekeys that are handed out survive a change of identity.
RegisterPurgeUnused ==
    /\ register.step = "purge" /\ register' = [register EXCEPT !.step = "upsert"]
    /\ \/ Purge({id \in Worthless : prekey[id].state = "unused"}) /\ UNCHANGED kept
       \/ kept' = kept \cup Worthless /\ UNCHANGED prekey
    /\ UNCHANGED <<identityRow, uploaded, ownIdentity, senderSide>>

\* upsertIdentityKey() up to the upsert.  When the query for the old identity key
\* or the purge fails, the prekeys stay and the new identity key is written anyway.
RegisterPurge ==
    /\ register.step = "purge" /\ register' = [register EXCEPT !.step = "upsert"]
    /\ \/ Purge(Worthless) /\ UNCHANGED kept
       \/ kept' = kept \cup Worthless /\ UNCHANGED prekey
    /\ UNCHANGED <<identityRow, uploaded, ownIdentity, senderSide>>

RegisterUpsert ==
    /\ register.step = "upsert" /\ register' = [register EXCEPT !.step = "upload"]
    /\ identityRow' = ownIdentity
    /\ UNCHANGED <<prekey, uploaded, ownIdentity, kept, senderSide>>

\* uploadPrekeys(), one transaction.
RegisterUpload ==
    /\ register.step = "upload" /\ register' = [step |-> "idle", prekeys |-> 0]
    /\ uploaded' = uploaded + register.prekeys
    /\ prekey' = [id \in PrekeyIds |->
                     IF id \in uploaded + 1 .. uploaded'
                     THEN [prekey[id] EXCEPT !.state = "unused", !.of = ownIdentity]
                     ELSE prekey[id]]
    /\ UNCHANGED <<identityRow, ownIdentity, kept, senderSide>>

\* The identity key or the prekeys cannot be written, or there are too many
\* prekeys: what was done before stays.
RegisterFails ==
    /\ register.step \in {"upsert", "upload"}
    /\ register' = [step |-> "idle", prekeys |-> 0]
    /\ UNCHANGED <<identityRow, prekey, uploaded, ownIdentity, kept, senderSide>>

\* processRegisterKeysRequest()
RegisterStep == RegisterPurge \/ RegisterUpsert \/ RegisterUpload \/ RegisterFails

-----------------------------------------------------------------------------
(***************************************************************************)
(* fetch_keys and fetch_group_keys.                                        *)
(***************************************************************************)
deviceSide == <<identityRow, uploaded, ownIdentity, register, kept>>

\* 600 seconds pass after a claim.
ClaimGetsOld(id) ==
    /\ prekey[id].state = "claimed" /\ ~prekey[id].old
    /\ prekey' = [prekey EXCEPT ![id].old = TRUE]
    /\ UNCHANGED <<deviceSide, senderSide>>

\* The prekeys after the reclaim that comes first in every claimPrekeys().
Reclaimed == [id \in PrekeyIds |->
                 IF prekey[id].state = "claimed" /\ prekey[id].old
                 THEN [prekey[id] EXCEPT !.state = "unused", !.old = FALSE]
                 ELSE prekey[id]]

Unused == {id \in PrekeyIds : Reclaimed[id].state = "unused"}

\* claimPrekeys(), one transaction: the oldest unused prekey.
Claim(k) ==
    /\ bundle[k] = NoBundle
    /\ fetches < MaxFetch /\ fetches' = fetches + 1
    /\ \E id \in Unused :
          /\ \A j \in Unused : id <= j
          /\ prekey' = [Reclaimed EXCEPT ![id].state = "claimed", ![id].claims = @ + 1]
          /\ bundle' = [bundle EXCEPT ![k] = [NoBundle EXCEPT !.step = "claimed", !.id = id,
                                                              !.of = prekey[id].of]]
    /\ UNCHANGED <<deviceSide, contents, conversations, prekeyHistory>>

\* getIdentityKeysByUser() comes after the transaction.
BundleIdentity(k) ==
    /\ bundle[k].step = "claimed"
    /\ bundle' = [bundle EXCEPT ![k].step = "held", ![k].identity = identityRow]
    /\ UNCHANGED <<deviceSide, prekey, fetches, contents, conversations, prekeyHistory>>

\* The sender gives up, its connection breaks, or the conversation or the message
\* cannot be written: the claim stays.
BundleDropped(k) ==
    /\ bundle[k].step \in {"held", "create", "store"}
    /\ bundle' = [bundle EXCEPT ![k] = NoBundle]
    /\ UNCHANGED <<deviceSide, prekey, fetches, contents, conversations, prekeyHistory>>

-----------------------------------------------------------------------------
(***************************************************************************)
(* send_message and edit_message.                                          *)
(***************************************************************************)
BundleAt(k, step) ==
    /\ bundle[k].step = step
    /\ UNCHANGED <<deviceSide, fetches>>

BundleGoTo(k, step) == bundle' = [bundle EXCEPT ![k].step = step]

\* A private message: validateClaimedPrekey() does not look at who has claimed.
SendCheck(k) ==
    LET checked == {j \in KeyUsers \ {k} :
                       /\ bundle[j].step \in {"conversation", "create", "store"}
                       /\ bundle[j].id = bundle[k].id}
    IN
    /\ BundleAt(k, "held")
    /\ IF prekey[bundle[k].id].state = "claimed"
       THEN /\ bundle' = [bundle EXCEPT ![k].step = "conversation",
                                        ![k].registered = identityRow]
            /\ raced' = IF checked = {} THEN raced ELSE raced \cup {bundle[k].id}
       ELSE bundle' = [bundle EXCEPT ![k] = NoBundle] /\ UNCHANGED raced
    /\ UNCHANGED <<prekey, contents, conversations, unconsumed>>

\* getOrCreatePrivateConversation(): the query ...
FindConversation(k) ==
    /\ BundleAt(k, "conversation")
    /\ BundleGoTo(k, IF conversations > 0 THEN "store" ELSE "create")
    /\ UNCHANGED <<prekey, contents, conversations, prekeyHistory>>

\* ... and the three insertions; with the last one the query finds it.
CreateConversation(k) ==
    /\ BundleAt(k, "create")
    /\ conversations' = conversations + 1
    /\ BundleGoTo(k, "store")
    /\ UNCHANGED <<prekey, contents, prekeyHistory>>

Store(k, kind) ==
    contents' = Append(contents, [kind |-> kind, id |-> bundle[k].id, of |-> bundle[k].of,
                                  identity |-> bundle[k].identity,
                                  registered |-> bundle[k].registered])

\* consumePrekeys() changes claimed prekeys only; its result is not looked at.
Consume(id) ==
    prekey' = [prekey EXCEPT ![id].state = IF @ = "claimed" THEN "used" ELSE @,
                             ![id].old = FALSE]

\* Faulty variant: the prekey stays claimed.
StoreMessageOnly(k) ==
    /\ BundleAt(k, "store")
    /\ Store(k, "message") /\ bundle' = [bundle EXCEPT ![k] = NoBundle]
    /\ UNCHANGED <<prekey, conversations, prekeyHistory>>

\* The message and its prekey, one transaction.  The prekey is not consumed when
\* its claim has lapsed since the check or when the update fails.
StoreMessage(k) ==
    LET id == bundle[k].id IN
    /\ BundleAt(k, "store")
    /\ Store(k, "message") /\ bundle' = [bundle EXCEPT ![k] = NoBundle]
    /\ Consume(id) \/ UNCHANGED prekey
    /\ unconsumed' = IF prekey'[id].state \in {"unused", "claimed"}
                     THEN unconsumed \cup {id} ELSE unconsumed
    /\ UNCHANGED <<conversations, raced>>

\* An edit is encrypted with a bundle of its own; processEditMessageRequest()
\* neither checks nor consumes the prekey.
StoreEdit(k) ==
    /\ BundleAt(k, "held")
    /\ Store(k, "edit") /\ bundle' = [bundle EXCEPT ![k] = NoBundle]
    /\ UNCHANGED <<prekey, conversations, prekeyHistory>>

\* A distribution is stored unchecked, and its prekeys are consumed after that.
StoreDistribution(k) ==
    /\ BundleAt(k, "held")
    /\ Store(k, "distribution") /\ BundleGoTo(k, "consume")
    /\ UNCHANGED <<prekey, conversations, prekeyHistory>>

ConsumeDistribution(k) ==
    /\ BundleAt(k, "consume")
    /\ Consume(bundle[k].id) \/ UNCHANGED prekey
    /\ bundle' = [bundle EXCEPT ![k] = NoBundle]
    /\ UNCHANGED <<contents, conversations, prekeyHistory>>

-----------------------------------------------------------------------------
PrekeyNext ==
    \/ \E n \in 0 .. MaxPrekey, renewed \in BOOLEAN : RegisterKeys(renewed, n)
    \/ RegisterStep
    \/ \E id \in PrekeyIds : ClaimGetsOld(id)
    \/ \E k \in KeyUsers :
          \/ Claim(k) \/ BundleIdentity(k) \/ BundleDropped(k)
          \/ SendCheck(k) \/ FindConversation(k) \/ CreateConversation(k)
          \/ StoreMessage(k) \/ StoreEdit(k)
          \/ StoreDistribution(k) \/ ConsumeDistribution(k)

PrekeySpec == PrekeyInit /\ [][PrekeyNext]_prekeyVars

-----------------------------------------------------------------------------
(***************************************************************************)
(* Properties.                                                             *)
(***************************************************************************)

\* docs/PROTOCOL.md: a bundle is for one message.  The device forgets a prekey
\* with the first content it decrypts, so two contents with one prekey lose the
\* second.  That takes a claim that got old and was handed out again, and then
\* two messages that pass the check before one of them is stored, or a message
\* whose prekey was not consumed (the claim lapsed between check and storing, or
\* the update failed), or an edit or a distribution: neither is checked, and an
\* edit's prekey is never consumed, so it goes back into circulation with its
\* secret gone.
OneTimeUse ==
    \A i, j \in DOMAIN contents : i # j /\ contents[i].id = contents[j].id =>
        /\ prekey[contents[i].id].claims > 1
        /\ \/ contents[i].id \in raced \cup unconsumed
           \/ {contents[i].kind, contents[j].kind} \cap {"edit", "distribution"} # {}

\* A message is encrypted with a prekey and an identity key that belong together
\* and that the device had registered when the message was checked, although the
\* claim, the reading of the identity key and the statements of a registration
\* with a new identity come in any order.  The exception is a prekey that a failed
\* purge has left: upsertIdentityKey() only warns, and the prekey goes out with the
\* new identity key.
NoMixedBundle ==
    \A i \in DOMAIN contents :
        contents[i].kind = "message" /\ contents[i].id \notin kept =>
            /\ contents[i].identity = contents[i].of
            /\ contents[i].identity = contents[i].registered
=============================================================================
