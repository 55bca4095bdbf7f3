---------------------------- MODULE SenderRatchet ----------------------------
(***************************************************************************)
(* One sender key of a group on the device of a reader.                    *)
(*                                                                         *)
(* The sender numbers its messages and edits under a key 1, 2, ... and     *)
(* each number has a message key of its own, derived by a chain that goes  *)
(* forward only.  The device keeps the chain at the highest number it has  *)
(* opened and, for the numbers it went over, the message keys themselves:  *)
(* messages come by push and by two kinds of synchronisation, an edit      *)
(* replaces the content of an old message by one of a high number, so      *)
(* numbers arrive in any order and more than once.                         *)
(*                                                                         *)
(* Chain and skipped keys are two rows of the local store, written one     *)
(* after the other, each without looking at the result: either write can   *)
(* fail, and the client can die before either of them.                     *)
(***************************************************************************)
EXTENDS Integers, FiniteSets

CONSTANTS
    MaxNumber,   \* bound: messages and edits under the key
    MaxSteps,    \* GroupE2eeCrypto::MaxRatchetSteps
    MaxSkipped   \* GroupE2eeCrypto::MaxSkippedMessageKeys

ASSUME RatchetConstants ==
    MaxNumber \in Nat /\ MaxSteps \in Nat \ {0} /\ MaxSkipped \in Nat

VARIABLES
    prekeyHeld,  \* is the prekey of the distribution's entry still in KeyStorage?
    chain,       \* sender_keys.iteration, NoChain without a row
    skipped,     \* sender_key_skipped: the numbers whose message key is kept
    opened,      \* numbers whose content is in the decryption cache
    dropped,     \* history: message keys that went over the limit or were not written
    refused      \* history: numbers refused because the chain is past them

ratchetVars == <<prekeyHeld, chain, skipped, opened, dropped, refused>>

NoChain == -1
Numbers == 1 .. MaxNumber

RatchetTypeOK ==
    /\ prekeyHeld \in BOOLEAN
    /\ chain \in Numbers \cup {0, NoChain}
    /\ skipped \subseteq Numbers /\ opened \subseteq Numbers
    /\ dropped \subseteq Numbers /\ refused \subseteq Numbers

RatchetInit ==
    /\ prekeyHeld = TRUE /\ chain = NoChain
    /\ skipped = {} /\ opened = {} /\ dropped = {} /\ refused = {}

-----------------------------------------------------------------------------
\* The prekey is removed from KeyStorage by the decryption and the chain is
\* written after it; a distribution that comes again finds no prekey.
Install ==
    /\ prekeyHeld /\ prekeyHeld' = FALSE
    /\ chain' \in {0, chain}
    /\ UNCHANGED <<skipped, opened, dropped, refused>>

\* A message under the key can be tried once its row is there.
KeyLoaded == chain # NoChain

\* The keys of the numbers the chain goes over on its way to n.
Crossed(n) == chain + 1 .. n - 1

\* Over the limit the smallest numbers are dropped.
Kept(keys) ==
    {k \in keys : Cardinality({j \in keys : j >= k}) <= MaxSkipped}

\* The content is written first, then the chain, then the skipped keys.  Keys
\* over the limit are gone, and so are those that were not written although
\* the chain has gone over their numbers.
Save(n, newChain, keys) ==
    \E chainWritten, keysWritten \in BOOLEAN :
        /\ opened' = opened \cup {n}
        /\ chain' = IF chainWritten THEN newChain ELSE chain
        /\ skipped' = IF keysWritten THEN Kept(keys) ELSE skipped
        /\ dropped' = dropped \cup CASE keysWritten -> keys \ Kept(keys)
                                     [] chainWritten /\ ~keysWritten -> keys \ skipped
                                     [] OTHER -> {}
        /\ UNCHANGED <<prekeyHeld, refused>>

\* The key was kept when the chain went over the number: it is used once.
OpenSkipped(n) == KeyLoaded /\ n \in skipped /\ Save(n, chain, skipped \ {n})

\* Faulty variant: the keys of this step replace those of earlier ones.
OpenAheadReplacing(n) ==
    /\ KeyLoaded /\ n \notin skipped
    /\ n > chain /\ n - chain <= MaxSteps
    /\ Save(n, n, Crossed(n))

OpenAhead(n) ==
    /\ KeyLoaded /\ n \notin skipped
    /\ n > chain /\ n - chain <= MaxSteps
    /\ Save(n, n, skipped \cup Crossed(n))

\* A number the chain has passed: a repetition, or a key that is gone.  (A
\* number too far ahead, or without a chain, is not opened either; it can
\* come again and changes nothing.)
Refuse(n) ==
    /\ KeyLoaded /\ n \notin skipped /\ n <= chain
    /\ refused' = refused \cup {n}
    /\ UNCHANGED <<prekeyHeld, chain, skipped, opened, dropped>>

RatchetNext ==
    \/ Install
    \/ \E n \in Numbers : OpenSkipped(n) \/ OpenAhead(n) \/ Refuse(n)

RatchetSpec == RatchetInit /\ [][RatchetNext]_ratchetVars

-----------------------------------------------------------------------------
\* The order of arrival costs no message: a number is refused only after it
\* was opened, or when its key went over the limit of skipped keys or could
\* not be written.  (GroupE2eeCrypto.h:80-86; the code behind it is the
\* cache of skipped keys, taken and merged by decryptMessage and written by
\* decryptGroupMessageObject.)
OrderCostsNothing == refused \subseteq opened \cup dropped

\* Why: every number up to the chain is opened, kept or gone.
PassedIsKnown == \A n \in Numbers : n <= chain => n \in opened \cup skipped \cup dropped
=============================================================================
