------------------------------- MODULE MCGroups -------------------------------
(***************************************************************************)
(* A small instance of the parts that make a group, for TLC: membership    *)
(* on the server, the sender keys on a sender's device, and the ratchet of *)
(* a key on a reader's.  They share no variable, so a behaviour of this    *)
(* module is one of one part, the others resting in an initial state.      *)
(***************************************************************************)
EXTENDS MCGroupMembership, SenderKeys, SenderRatchet

CONSTANT r1

OneReader == {r1}

VARIABLE part

Parts == {"membership", "keys", "ratchet"}

groupParts == <<part, vars, senderKeyVars, ratchetVars>>

PartsTypeOK == part \in Parts /\ TypeOK /\ SenderKeyTypeOK /\ RatchetTypeOK

PartsInit ==
    /\ part \in Parts
    /\ Init /\ SenderKeyInit /\ RatchetInit
    /\ part # "membership" => \A c, d \in Conns : account[c] = account[d]
    /\ part # "keys" => members = {}

PartsNext ==
    /\ UNCHANGED part
    /\ \/ part = "membership" /\ Next /\ UNCHANGED <<senderKeyVars, ratchetVars>>
       \/ part = "keys" /\ SenderKeyNext /\ UNCHANGED <<vars, ratchetVars>>
       \/ part = "ratchet" /\ RatchetNext /\ UNCHANGED <<vars, senderKeyVars>>

PartsSpec == PartsInit /\ [][PartsNext]_groupParts
=============================================================================
