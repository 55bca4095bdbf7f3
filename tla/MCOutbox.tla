------------------------------ MODULE MCOutbox ------------------------------
(***************************************************************************)
(* Small instances of Outbox for TLC.                                      *)
(***************************************************************************)
EXTENDS Outbox, SequencesExt

CONSTANTS alice, bob, noUser

OneAccount == {alice}
TwoAccounts == {alice, bob}

\* Without filters a sequence, and InOrder sorts.
ASSUME WithoutFilters ==
    \A n \in 0 .. 3 : \A box \in [1 .. n -> 1 .. 3], S \in SUBSET (1 .. 3) :
        Without(box, S) = SelectSeq(box, LAMBDA i : i \notin S)
ASSUME InOrderSorts ==
    \A S \in SUBSET (1 .. 4) : InOrder(S) = SetToSortSeq(S, <)
=============================================================================
