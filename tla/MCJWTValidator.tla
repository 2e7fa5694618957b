-------------------------- MODULE MCJWTValidator ----------------------------
(***************************************************************************)
(* Instances of JWTValidator for TLC.                                      *)
(***************************************************************************)
EXTENDS JWTValidator, TLC

CONSTANTS a, b, x, y

Entry(kid, key) == [kid |-> kid, key |-> key, supported |-> TRUE]

\* A key is added, and a kid is given to another key: for a while two keys
\* share it, as keys without a kid do.  One of the keys is of a kind the
\* validator does not support.
Rotations ==
  {<<Entry(a, x)>>,
   <<Entry(a, x), Entry(b, y)>>,
   <<Entry(a, x), Entry(a, y), [Entry(b, y) EXCEPT !.supported = FALSE]>>}

Symmetry == Permutations(Caller)
=============================================================================
