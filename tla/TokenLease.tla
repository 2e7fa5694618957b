----------------------------- MODULE TokenLease -----------------------------
(***************************************************************************)
(* What serving tokens from the claims cache amounts to, without the       *)
(* cache, the requests, the index and the webhook: a token is served on a  *)
(* lease.  The gateway grants one on an answer of the authorization server *)
(* that is at most MaxLag old, for at most CacheTTL, and not past the exp  *)
(* of the token by more than MaxLag; it never extends one on its own.      *)
(* Leases may be withdrawn at any time.  A revoked token may be closed     *)
(* when it has no lease, and a closed token never gets one again.          *)
(***************************************************************************)
EXTENDS Integers

CONSTANTS
  Token,     \* bearer tokens
  ExpOf,     \* exp claim of a token, 0 if the token has none
  CacheTTL,  \* the longest lease
  MaxLag     \* how old an answer may be when a lease is granted on it

VARIABLES
  now,        \* the clock
  revokedAt,  \* when the authorization server revoked a token
  until,      \* [Token -> the last instant of its lease]
  closed      \* the tokens that get no lease any more

vars == <<now, revokedAt, until, closed>>

Never == -1

Revoked(t) == revokedAt[t] # Never

Leased(t) == now <= until[t]

Init ==
  /\ now = 0
  /\ revokedAt = [t \in Token |-> Never]
  /\ until = [t \in Token |-> Never]
  /\ closed = {}

\* The token was active at some time in the last MaxLag.
LatelyActive(t) ==
  /\ Revoked(t) => now <= revokedAt[t] + MaxLag
  /\ ExpOf[t] # 0 => now < ExpOf[t] + MaxLag

Grant(t) ==
  /\ t \notin closed
  /\ LatelyActive(t)
  /\ \E end \in now..(now + CacheTTL) :
       /\ ExpOf[t] # 0 => end <= ExpOf[t] + MaxLag
       /\ until' = [until EXCEPT ![t] = end]
  /\ UNCHANGED <<now, revokedAt>>

Withdraw(tokens) ==
  /\ until' = [t \in Token |-> IF t \in tokens THEN Never ELSE until[t]]
  /\ UNCHANGED <<now, revokedAt>>

Revoke(tokens) ==
  /\ revokedAt' = [t \in Token |->
       IF t \in tokens /\ ~Revoked(t) THEN now ELSE revokedAt[t]]
  /\ UNCHANGED <<now, until>>

Tick ==
  /\ now' = now + 1
  /\ UNCHANGED <<revokedAt, until>>

\* Closed for good; any step may close revoked tokens that have no lease.
Close ==
  /\ closed \subseteq closed'
  /\ \A t \in closed' : Revoked(t)' /\ ~Leased(t)'

Next ==
  /\ \/ \E t \in Token : Grant(t)
     \/ \E tokens \in SUBSET Token : Withdraw(tokens) \/ Revoke(tokens)
     \/ Tick
  /\ Close

Spec == Init /\ [][Next]_vars
=============================================================================
