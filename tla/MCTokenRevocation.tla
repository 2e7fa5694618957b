-------------------------- MODULE MCTokenRevocation --------------------------
(***************************************************************************)
(* Instances of TokenRevocation for TLC.                                   *)
(***************************************************************************)
EXTENDS TokenRevocation, TLC

CONSTANTS t1, t2, j1, s1, s2

Claims(jti, sub, sid) ==
  [kind \in Kind |-> IF kind = "jti" THEN jti ELSE IF kind = "sub" THEN sub ELSE sid]

\* One user with one session; t2 has no jti.
SameUser == [t \in Token |->
  IF t = t1 THEN Claims(j1, s1, s1) ELSE Claims(None, s1, s1)]

\* Requests are interchangeable, and so are deliveries.
Symmetry == Permutations(Request) \cup Permutations(Hook)

NoExp == [t \in Token |-> 0]
Exp3 == [t \in Token |-> 3]

NoRef == [hash |-> None, jti |-> None, sid |-> None, sub |-> None, all |-> FALSE]
ByHash == [NoRef EXCEPT !.hash = t1]
ByJTI == [NoRef EXCEPT !.jti = j1, !.sub = s1]
BySubject == [NoRef EXCEPT !.sub = s1, !.all = TRUE]

HashEvents == {ByHash}
TokenEvents == {ByHash, ByJTI}
SubjectEvents == {BySubject}
=============================================================================
