------------------------------- MODULE MCDPoP -------------------------------
(***************************************************************************)
(* Instances of DPoP for TLC.                                              *)
(***************************************************************************)
EXTENDS DPoP, TLC

\* Request goroutines are interchangeable, and so are proofs.
Symmetry == Permutations(Request) \cup Permutations(Proof)

\* Clients whose clocks are right, or up to one tick off in either direction.
NoDrift == {0}
SmallDrift == -1..1
=============================================================================
