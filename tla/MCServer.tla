------------------------------- MODULE MCServer -------------------------------
(***************************************************************************)
(* A small instance of several parts of the server for TLC.                *)
(*                                                                         *)
(* Sessions and routes, receipts, prekeys and the request gate share no    *)
(* variable: no step of one reads or writes the state of another.  Letting *)
(* them run side by side would multiply their states and show nothing      *)
(* else, so a behaviour of this module is one of one part, the others      *)
(* resting in their initial states.                                        *)
(***************************************************************************)
EXTENDS MCSessionRouting, Receipts, Prekeys, RequestGate

VARIABLE part

Parts == {"routing", "receipts", "prekeys", "gate"}

serverParts == <<part, vars, receiptVars, prekeyVars, gateVars>>

\* The parts at rest keep their initial states.
PartsTypeOK ==
    /\ part \in Parts
    /\ part = "routing" => TypeOK
    /\ part = "receipts" => ReceiptTypeOK
    /\ part = "prekeys" => PrekeyTypeOK
    /\ part = "gate" => GateTypeOK

PartsInit ==
    part \in Parts /\ Init /\ ReceiptInit /\ PrekeyInit /\ GateInit

PartsNext ==
    /\ UNCHANGED part
    /\ \/ part = "routing" /\ Next /\ UNCHANGED <<receiptVars, prekeyVars, gateVars>>
       \/ part = "receipts" /\ ReceiptNext /\ UNCHANGED <<vars, prekeyVars, gateVars>>
       \/ part = "prekeys" /\ PrekeyNext /\ UNCHANGED <<vars, receiptVars, gateVars>>
       \/ part = "gate" /\ GateNext /\ UNCHANGED <<vars, receiptVars, prekeyVars>>

PartsSpec == PartsInit /\ [][PartsNext]_serverParts
=============================================================================
