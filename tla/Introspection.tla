---------------------------- MODULE Introspection ----------------------------
(***************************************************************************)
(* Guard.introspect (internal/gateway/guard.go): look the token up in the  *)
(* cache, on a miss ask the authorization server, cache an active answer   *)
(* with a TTL clamped to the token's lifetime, and record the token in the *)
(* secondary indexes (token.IndexClaims).  CachedIntrospector.Introspect   *)
(* of pkg/core/token/cache.go is the same sequence of calls.               *)
(*                                                                         *)
(* Requests run concurrently and every call to the cache or to the         *)
(* authorization server is a step of its own, so other requests, the       *)
(* webhook and the clock may move between any two of them.                 *)
(***************************************************************************)
EXTENDS ClaimsCache

CONSTANTS
  Request,   \* request goroutines
  ExpOf,     \* exp claim of a token, 0 if the token has none
  CacheTTL,  \* 30 seconds in the code
  KeepsSid,  \* FALSE: the RFC 7662 introspector; TRUE: a Provider of the
             \* embedding program whose Introspect fills SessionID
  MaxLag     \* bound: longest time from the authorization server evaluating a
             \* token to the end of the fill (the client timeouts of the calls)

ASSUME IntrospectionAssumption ==
  /\ ExpOf \in [Token -> Nat]
  /\ CacheTTL \in Nat \ {0}
  /\ KeepsSid \in BOOLEAN
  /\ MaxLag \in Nat

VARIABLES
  revokedAt,  \* external: when the authorization server revoked a token
  req         \* [Request -> the local state of a call to introspect]

Never == -1

Idle == [pc |-> "idle", tok |-> None, at |-> 0, ttl |-> 0, seen |-> {}]

\* The points between two calls of a fill: after the answer, before Set;
\* before the jti index; before reading and before writing an index list.
Waiting == {"answered", "set"}
Indexing == {"jti", "sub", "subWrite", "sid", "sidWrite"}
Filling == Waiting \cup Indexing

RequestState ==
  [pc : {"idle", "asking"} \cup Filling, tok : Token \cup {None},
   at : Nat, ttl : Nat, seen : SUBSET Token]

RequestTypeOK ==
  /\ revokedAt \in [Token -> Nat \cup {Never}]
  /\ req \in [Request -> RequestState]
  /\ \A r \in Request : req[r].pc # "idle" => req[r].tok \in Token

RequestInit ==
  /\ revokedAt = [t \in Token |-> Never]
  /\ req = [r \in Request |-> Idle]

Revoked(t) == revokedAt[t] # Never

\* What the authorization server answers about t.
Active(t) == ~Revoked(t) /\ (ExpOf[t] = 0 \/ now < ExpOf[t])

\* introToCommonClaims: jti and sub are taken over, SessionID is never set.
IntroToCommonClaims(t) ==
  [kind \in Kind |-> IF kind = "sid" /\ ~KeepsSid THEN None ELSE ClaimsOf[t][kind]]

\* claims.JTI != "", claims.Subject != "", claims.SessionID != "".
HasClaim(t, kind) == IntroToCommonClaims(t)[kind] # None

IndexKeyOf(t, kind) == <<kind, ClaimsOf[t][kind]>>

Goto(r, pc) == req' = [req EXCEPT ![r].pc = pc]

Return(r) == req' = [req EXCEPT ![r] = Idle]

-----------------------------------------------------------------------------
\* Mutant of Lookup: a hit renews the entry's TTL.
LookupSliding(r, t) ==
  /\ req[r].pc = "idle"
  /\ \/ Live(t) /\ cache' = [cache EXCEPT ![t].exp = now + CacheTTL] /\ UNCHANGED req
     \/ /\ ~Live(t)
        /\ req' = [req EXCEPT ![r].pc = "asking", ![r].tok = t]
        /\ UNCHANGED cache
  /\ UNCHANGED <<now, revokedAt>>

\* The cache lookup: a hit returns the cached claims, a miss goes on to the
\* authorization server.
Lookup(r, t) ==
  /\ req[r].pc = "idle"
  /\ \/ Live(t) /\ UNCHANGED req
     \/ /\ ~Live(t) \/ Fallible
        /\ req' = [req EXCEPT ![r].pc = "asking", ![r].tok = t]
  /\ UNCHANGED <<now, cache, revokedAt>>

\* Mutant of Answer: the active field of the answer is not looked at.
AnswerUnchecked(r) ==
  /\ req[r].pc = "asking"
  /\ \/ req' = [req EXCEPT ![r].pc = "answered", ![r].at = now]
     \/ Return(r)
  /\ UNCHANGED <<now, cache, revokedAt>>

\* The authorization server evaluates the token.  An inactive answer is not
\* cached; the call may also fail or time out whatever the token's state.
Answer(r) ==
  /\ req[r].pc = "asking"
  /\ \/ /\ Active(req[r].tok)
        /\ req' = [req EXCEPT ![r].pc = "answered", ![r].at = now]
     \/ Return(r)
  /\ UNCHANGED <<now, cache, revokedAt>>

\* Mutant of ClampedTTL: no clamp.
FullTTL(t) == CacheTTL

\* min(30s, time.Until(exp)).
ClampedTTL(t) ==
  IF ExpOf[t] # 0 /\ ExpOf[t] - now < CacheTTL THEN ExpOf[t] - now ELSE CacheTTL

\* The answer has arrived: compute the TTL, cache nothing that has expired.
ComputeTTL(r) ==
  LET ttl == ClampedTTL(req[r].tok) IN
  /\ req[r].pc = "answered"
  /\ IF ttl > 0 THEN req' = [req EXCEPT ![r].pc = "set", ![r].ttl = ttl]
                ELSE Return(r)
  /\ UNCHANGED <<now, cache, revokedAt>>

\* cache.Set(HashToken(token), claims, ttl), its error ignored.
SetClaims(r) ==
  /\ req[r].pc = "set"
  /\ \E ok \in Outcome : Set(req[r].tok, {}, req[r].ttl, ok)
  /\ Goto(r, "jti")
  /\ UNCHANGED <<now, revokedAt>>

\* Mutant of IndexJTI: an entry that is still there is not written again.
IndexJTIOnce(r) ==
  LET t == req[r].tok  k == IndexKeyOf(t, "jti") IN
  /\ req[r].pc = "jti"
  /\ IF HasClaim(t, "jti") /\ t \notin IndexHashes(k, TRUE)
     THEN \E ok \in Outcome : Set(k, {t}, req[r].ttl, ok)
     ELSE UNCHANGED cache
  /\ Goto(r, "sub")
  /\ UNCHANGED <<now, revokedAt>>

\* IndexClaims, the jti part: the entry is overwritten.
IndexJTI(r) ==
  LET t == req[r].tok IN
  /\ req[r].pc = "jti"
  /\ IF HasClaim(t, "jti")
     THEN \E ok \in Outcome : Set(IndexKeyOf(t, "jti"), {t}, req[r].ttl, ok)
     ELSE UNCHANGED cache
  /\ Goto(r, "sub")
  /\ UNCHANGED <<now, revokedAt>>

\* Where IndexClaims goes on to once the list of this kind is done.
AfterIndex(r, kind) == IF kind = "sub" THEN Goto(r, "sid") ELSE Return(r)

WritePC(kind) == IF kind = "sub" THEN "subWrite" ELSE "sidWrite"

\* appendIndexHash, the read: nothing to do when the claim is absent or when
\* the list already names the token.
ReadIndex(r, kind) ==
  LET t == req[r].tok IN
  /\ req[r].pc = kind
  /\ \E ok \in Outcome :
       LET hashes == IndexHashes(IndexKeyOf(t, kind), ok) IN
       IF ~HasClaim(t, kind) \/ t \in hashes
       THEN AfterIndex(r, kind)
       ELSE req' = [req EXCEPT ![r].pc = WritePC(kind), ![r].seen = hashes]
  /\ UNCHANGED <<now, cache, revokedAt>>

\* appendIndexHash, the write: the list that was read plus this token, with
\* this token's TTL.
WriteIndex(r, kind) ==
  LET t == req[r].tok IN
  /\ req[r].pc = WritePC(kind)
  /\ \E ok \in Outcome :
       Set(IndexKeyOf(t, kind), req[r].seen \cup {t}, req[r].ttl, ok)
  /\ AfterIndex(r, kind)
  /\ UNCHANGED <<now, revokedAt>>

\* CachedIntrospector.Revoke, called by the embedding program: only the
\* token's own entry goes, and the error is ignored.
RevokeCached(t) ==
  /\ Manual
  /\ \E ok \in Outcome : Delete(t, ok)
  /\ UNCHANGED <<now, revokedAt, req>>

RequestStep(r) ==
  \/ \E t \in Token : Lookup(r, t)
  \/ Answer(r)
  \/ ComputeTTL(r)
  \/ SetClaims(r)
  \/ IndexJTI(r)
  \/ \E kind \in {"sub", "sid"} : ReadIndex(r, kind) \/ WriteIndex(r, kind)
=============================================================================
