------------------------------ MODULE MCGuard ------------------------------
(***************************************************************************)
(* Instances of Guard for TLC.  The landing page is open, paying needs     *)
(* gold and, in one configuration, a fresh authentication.                 *)
(***************************************************************************)
EXTENDS Guard, TLC

CONSTANTS home, pay, bronze, gold, weak, strong, acme, umbrella, issA, issU, k1, k2, r1, r2,
          jwk, other

MCAccepts == [s \in {home, pay, Empty} |-> {s}]
MCUpper == [m \in {"GET", "POST"} |-> m]

Open ==
  [enabled |-> TRUE, resources |-> {[segments |-> <<home>>, deep |-> FALSE]}, methods |-> {},
   acr |-> NoACR, maxAge |-> 0, mfa |-> FALSE, scopes |-> {}, details |-> {}]
Gold(maxAge) ==
  [Open EXCEPT !.resources = {[segments |-> <<pay>>, deep |-> TRUE]}, !.methods = {"POST"},
               !.acr = gold, !.maxAge = maxAge]

\* The second configuration is shorter and lists the levels the other way
\* round: a call of Evaluate that starts with the first may run past its end,
\* and one that starts with it may allow what neither of the two allows.
Policies(list, levels) == [policies |-> list, acrLevels |-> levels]
Recent == Policies(<<Open, Gold(1)>>, <<gold, bronze>>)
Fresh == {Recent, Policies(<<Gold(0)>>, <<bronze, gold>>)}
Lasting == {Policies(<<Open, Gold(0)>>, <<bronze, gold>>)}

Of(acr, iss, authTime) ==
  [acr |-> acr, iss |-> iss, authTime |-> authTime, amr |-> {}, scopes |-> {}, details |-> {},
   jkt |-> jwk, par |-> TRUE, nonce |-> TRUE]
NoNonce == [Of(gold, NoIssuer, -1) EXCEPT !.nonce = FALSE]
MCClaims == {Of(bronze, issA, Unknown), Of(gold, issA, -1), Of(bronze, issU, Unknown), NoNonce}

MCIssuerOf == [t \in {acme, umbrella} |-> IF t = acme THEN issA ELSE issU]

\* Both servers know both tokens; umbrella leaves iss and nonce out for the
\* strong one.
MCVouches ==
  [t \in {acme, umbrella} |-> [k \in {weak, strong} |->
     IF k = weak THEN Of(bronze, MCIssuerOf[t], Unknown)
     ELSE IF t = acme THEN Of(gold, issA, -1) ELSE NoNonce]]

Home == [method |-> "GET", path |-> <<home>>]
Pay == [method |-> "POST", path |-> <<pay>>]
\* acme is found by the first resolver, umbrella by the second.
From(t, k, res) ==
  [hints |-> IF t = acme THEN <<acme, umbrella>> ELSE <<NoTenant, t>>, token |-> k, key |-> jwk,
   res |-> res]

FAPI2 == [dpop |-> TRUE, requestURI |-> TRUE]

\* One tenant, both tokens.
OneTenant == {From(acme, k, res) : k \in {weak, strong}, res \in {Home, Pay}}
\* Two tenants, in which a token is presented to the other one, the weak one
\* with a proof of another key.
TwoTenants ==
  {From(acme, weak, Pay), From(acme, strong, Home), From(acme, weak, Home),
   From(umbrella, strong, Home), [From(umbrella, weak, Home) EXCEPT !.key = other],
   From(NoTenant, weak, Home)}
\* Requests overlap as long as they are all of one tenant, whose provider is
\* the only one discovered and stays in the registry, the landing page is open
\* and there is a cookie; after a reload, a restart or another event the last
\* request does not overlap.  Otherwise the last request is sent only by a
\* browser with a cookie.
Overlap ==
  \/ /\ config = Recent /\ secret # NoSecret
     /\ events = 0 \/ sent < MaxRequests
     /\ provider[umbrella] = "new" /\ provider[acme] = "ready"
     /\ \A r \in Request :
          req[r].in # NoInput => TenantOf(r) = acme /\ req[r].held = "registered"
  \/ /\ \E r \in Request : \A x \in Request \ {r} : req[x].pc = "idle"
     /\ sent < MaxRequests \/ cookie # NoCookie

\* Requests are interchangeable, and so are the keys.
Symmetry == Permutations({r1, r2}) \cup Permutations({k1, k2})
=============================================================================
