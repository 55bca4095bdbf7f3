-------------------------- MODULE MCSessionRouting --------------------------
(***************************************************************************)
(* Small instances of SessionRouting for TLC.                              *)
(***************************************************************************)
EXTENDS SessionRouting, TLC

CONSTANTS u1, u2, d1, c1, c2, noUser, noDevice, noConn

TwoUsers == {u1, u2}
OneUser == {u1}
OneDevice == {d1}
TwoConns == {c1, c2}

\* Used by the runs without liveness properties only.
Symmetry2 == Permutations(TwoUsers) \cup Permutations(TwoConns)
=============================================================================
