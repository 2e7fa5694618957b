---------------------------- MODULE MCMiddleware ----------------------------
(***************************************************************************)
(* An instance of Middleware for TLC: one client over HTTP and one over    *)
(* gRPC that share a user, two levels and two configurations.              *)
(***************************************************************************)
EXTENDS Middleware

CONSTANTS api, silver, alice, web, rpc

MCAccepts == [s \in {api, Empty} |-> {s}]
MCUpper == [m \in {"GET", "RPC"} |-> m]
MCTransport == [c \in Client |-> IF c = web THEN "http" ELSE "grpc"]
MCWants == [c \in Client |->
  [method |-> IF c = web THEN "GET" ELSE "RPC", path |-> <<api>>]]
MCUserOf == [c \in Client |-> alice]

Need(acr, maxAge, methods) ==
  [enabled |-> TRUE, resources |-> {[segments |-> <<api>>, deep |-> TRUE]}, methods |-> methods,
   acr |-> acr, maxAge |-> maxAge, mfa |-> FALSE, scopes |-> {"openid"}, details |-> {}]

\* Silver, for HTTP only: no policy matches an RPC.
Silver ==
  [policies |-> <<[Need(Bronze, 0, {}) EXCEPT !.enabled = FALSE], Need(silver, 0, {"GET"})>>,
   acrLevels |-> <<Bronze, silver>>]
\* Bronze, and a recent login, which no token of the server can prove.  It is
\* shorter, so that an evaluation may run past its end, and has the levels the
\* other way round, so that one may allow what neither of the two allows.
Recent == [policies |-> <<Need(Bronze, 1, {})>>, acrLevels |-> <<silver, Bronze>>]
MCConfig == {Silver, Recent}
=============================================================================
