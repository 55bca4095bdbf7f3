------------------------- MODULE MCGroupMembership -------------------------
(***************************************************************************)
(* A small instance of GroupMembership for TLC.                            *)
(***************************************************************************)
EXTENDS GroupMembership, TLC

CONSTANTS u1, u2, u3, u4, c1, c2, noUser

FourUsers == {u1, u2, u3, u4}
TwoConns == {c1, c2}

Symmetry == Permutations(FourUsers) \cup Permutations(TwoConns)
=============================================================================
