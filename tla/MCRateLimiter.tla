--------------------------- MODULE MCRateLimiter ---------------------------
(***************************************************************************)
(* Instances of RateLimiter for TLC.                                       *)
(***************************************************************************)
EXTENDS RateLimiter, TLC

\* Request goroutines are interchangeable.
Symmetry == Permutations(Caller)
=============================================================================
