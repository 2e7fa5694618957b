---------------------------- MODULE JWTValidator ----------------------------
(***************************************************************************)
(* Local JWT validation with a cached key set                              *)
(* (pkg/core/token/jwtvalidator.go).  Any number of goroutines call        *)
(* Validate and RefreshKeys on one JWTValidator; a call that misses the    *)
(* cache fetches the authorization server's JWKS without holding the lock, *)
(* stores what it got and looks once more.  The server rotates its keys    *)
(* while answers are under way, so answers are stored in any order.        *)
(*                                                                         *)
(* What the parser options check (exp, iat, algorithm, issuer, audience)   *)
(* depends on the token and the clock alone; the tokens here pass it.      *)
(***************************************************************************)
EXTENDS Integers, Sequences

CONSTANTS
  Caller,    \* goroutines
  Kid,       \* key identifiers, "" for a key without one included
  Key,       \* public keys
  NoKey,     \* the value of a map for a kid it does not hold
  NoToken,   \* what a call to RefreshKeys has in place of a token
  Documents, \* the JWKS documents the server publishes over time
  CacheTTL,  \* JWTValidatorConfig.CacheTTL, 5 minutes unless configured
  MaxLag,    \* longest time from the server's answer to the end of the call:
             \* the HTTP client's timeout, 10 s unless configured
  MaxTime    \* bound: the clock stops here

JWK == [kid : Kid, key : Key, supported : BOOLEAN]

ASSUME ValidatorAssumption ==
  /\ NoKey \notin Key
  /\ Documents \subseteq Seq(JWK)
  /\ Documents # {}
  /\ CacheTTL \in Nat
  /\ MaxLag \in Nat
  /\ MaxTime \in Nat

VARIABLES
  now,
  doc,       \* external: the document the server publishes
  since,     \* history: when what the document says of a kid last changed
  keySet,    \* JWTValidator.keySet, a function on Kid
  fetchedAt, \* JWTValidator.fetchedAt
  call       \* [Caller -> the local state of a call]

vars == <<now, doc, since, keySet, fetchedAt, call>>

KeyMap == [Kid -> Key \cup {NoKey}]

Token == [kid : Kid, key : Key]

\* A fetchedAt of the zero time: older than any TTL.
Never == -1 - CacheTTL

\* The local state of a call.  Three fields are history: steady says that the
\* server has published the token's key under its kid since the call began;
\* older is the set of callers that had an answer, not stored yet, when it
\* began; overtaken says that one of them has stored its answer between this
\* call's own store and its second look.
Call(pc, token) ==
  [pc |-> pc, token |-> token, snap |-> [k \in Kid |-> NoKey], at |-> 0,
   steady |-> FALSE, older |-> {}, overtaken |-> FALSE]

Idle == Call("idle", NoToken)

Pcs == {"idle", "lookup", "fetch", "store", "retry", "notfound"}

CallState ==
  [pc : Pcs, token : Token \cup {NoToken}, snap : KeyMap, at : Nat,
   steady : BOOLEAN, older : SUBSET Caller, overtaken : BOOLEAN]

-----------------------------------------------------------------------------
\* The map fetchJWKS builds: keys of an unsupported kind are skipped, and the
\* last key with a kid wins.
Keys(d) ==
  [k \in Kid |->
     LET at == {i \in 1..Len(d) : d[i].kid = k /\ d[i].supported}
     IN  IF at = {} THEN NoKey ELSE d[CHOOSE i \in at : \A j \in at : j <= i].key]

\* Mutant of Expired: the age of the cache is not looked at.
ExpiredNever == fetchedAt = Never

Expired == now - fetchedAt > CacheTTL

\* lookupKey
Found(kid) == keySet[kid] # NoKey /\ ~Expired

\* How a call ends: with the key found, against which the parser then checks
\* the signature, or with "key not found".
Result(c) ==
  IF Found(call[c].token.kid) THEN Idle
  ELSE [Call("notfound", NoToken) EXCEPT
          !.steady = call[c].steady, !.overtaken = call[c].overtaken]

Done == {"idle", "notfound"}

-----------------------------------------------------------------------------
TypeOK ==
  /\ now \in Nat
  /\ doc \in Documents
  /\ since \in [Kid -> 0..now]
  /\ keySet \in KeyMap
  /\ fetchedAt \in {Never} \cup 0..now
  /\ call \in [Caller -> CallState]
  /\ \A c \in Caller : call[c].pc \in {"lookup", "retry"} => call[c].token \in Token
  /\ \A c \in Caller : \A d \in call[c].older : call[d].pc = "store" /\ d # c

\* NewJWTValidator, with whatever document the server starts from.
Init ==
  /\ now = 0
  /\ doc \in Documents
  /\ since = [k \in Kid |-> 0]
  /\ keySet = [k \in Kid |-> NoKey]
  /\ fetchedAt = Never
  /\ call = [c \in Caller |-> Idle]

\* Validate, up to the first look at the cache.
Validate(c, t) ==
  /\ call[c].pc \in Done
  /\ call' = [call EXCEPT ![c] =
       [Call("lookup", t) EXCEPT
          !.steady = Keys(doc)[t.kid] = t.key,
          !.older = {d \in Caller : call[d].pc = "store"}]]
  /\ UNCHANGED <<now, doc, since, keySet, fetchedAt>>

\* RefreshKeys: the fetch of a miss, without a token.
RefreshKeys(c) ==
  /\ call[c].pc \in Done
  /\ call' = [call EXCEPT ![c] = Call("fetch", NoToken)]
  /\ UNCHANGED <<now, doc, since, keySet, fetchedAt>>

\* Mutant of Lookup: an unexpired cache is taken to be complete.
LookupOnce(c) ==
  /\ call[c].pc = "lookup"
  /\ call' = [call EXCEPT ![c] = IF Expired THEN [@ EXCEPT !.pc = "fetch"] ELSE Result(c)]
  /\ UNCHANGED <<now, doc, since, keySet, fetchedAt>>

\* keyfunc, the first lookupKey: a miss or an expired cache leads to the fetch.
Lookup(c) ==
  /\ call[c].pc = "lookup"
  /\ call' = [call EXCEPT ![c] =
       IF Found(call[c].token.kid) THEN Idle ELSE [@ EXCEPT !.pc = "fetch"]]
  /\ UNCHANGED <<now, doc, since, keySet, fetchedAt>>

\* fetchJWKS, the request: the server's answer is the document of this moment.
Answer(c) ==
  /\ call[c].pc = "fetch"
  /\ call' = [call EXCEPT ![c].pc = "store", ![c].snap = Keys(doc), ![c].at = now]
  /\ UNCHANGED <<now, doc, since, keySet, fetchedAt>>

\* fetchJWKS with an error: unreachable, another status, or not JSON.
Fail(c) ==
  /\ call[c].pc = "fetch"
  /\ call' = [call EXCEPT ![c] = Idle]
  /\ UNCHANGED <<now, doc, since, keySet, fetchedAt>>

\* What a store by c means to the other calls.
Overtake(c) ==
  [d \in Caller |->
     [call[d] EXCEPT
        !.older = @ \ {c},
        !.overtaken = @ \/ (call[d].pc = "retry" /\ c \in call[d].older)]]

\* A call whose answer is stored: RefreshKeys returns, Validate looks again.
Stored(e) ==
  IF e.token = NoToken THEN Idle
  ELSE [e EXCEPT !.pc = "retry", !.snap = [k \in Kid |-> NoKey]]

\* Mutant of Store: fetchedAt is set to when the keys expire.
StoreExpiry(c) ==
  /\ call[c].pc = "store"
  /\ keySet' = call[c].snap
  /\ fetchedAt' = now + CacheTTL
  /\ call' = [Overtake(c) EXCEPT ![c] = Stored(@)]
  /\ UNCHANGED <<now, doc, since>>

\* fetchJWKS, under the lock: the map is replaced and stamped with the time of
\* the store, not of the answer.
Store(c) ==
  /\ call[c].pc = "store"
  /\ keySet' = call[c].snap
  /\ fetchedAt' = now
  /\ call' = [Overtake(c) EXCEPT ![c] = Stored(@)]
  /\ UNCHANGED <<now, doc, since>>

\* keyfunc, the second lookupKey, whose error is final.
Retry(c) ==
  /\ call[c].pc = "retry"
  /\ call' = [call EXCEPT ![c] = Result(c)]
  /\ UNCHANGED <<now, doc, since, keySet, fetchedAt>>

\* External: the server publishes another document.
Rotate(d) ==
  /\ d # doc
  /\ doc' = d
  /\ since' = [k \in Kid |-> IF Keys(d)[k] = Keys(doc)[k] THEN since[k] ELSE now]
  /\ call' = [c \in Caller |->
       [call[c] EXCEPT !.steady =
          @ /\ (call[c].pc \in Done \/ Keys(d)[call[c].token.kid] = call[c].token.key)]]
  /\ UNCHANGED <<now, keySet, fetchedAt>>

\* Time passes, but no more than MaxLag between an answer and the end of its
\* call.
Tick ==
  /\ now < MaxTime
  /\ \A c \in Caller : call[c].pc \in {"store", "retry"} => now < call[c].at + MaxLag
  /\ now' = now + 1
  /\ UNCHANGED <<doc, since, keySet, fetchedAt, call>>

Next ==
  \/ \E c \in Caller, t \in Token : Validate(c, t)
  \/ \E c \in Caller :
       RefreshKeys(c) \/ Lookup(c) \/ Answer(c) \/ Fail(c) \/ Store(c) \/ Retry(c)
  \/ \E d \in Documents : Rotate(d)
  \/ Tick

Spec == Init /\ [][Next]_vars

-----------------------------------------------------------------------------
\* What the TTL of lookupKey promises: an unexpired cache says of every kid
\* what the server says of it, unless the server has changed that within
\* CacheTTL + MaxLag.  So a withdrawn key is trusted, and a key that took over
\* a kid is refused, for no longer than that, whatever the order in which
\* concurrent fetches store their answers.
Converged ==
  ~Expired =>
    \A k \in Kid : now - since[k] > CacheTTL + MaxLag => keySet[k] = Keys(doc)[k]

\* "Cache miss or expired - refresh once and retry" (keyfunc): a token whose
\* key was published for the whole call is refused as unknown only if a fetch
\* that was answered before the call began stored its answer in between.
NotFoundOnlyIfOvertaken ==
  MaxLag <= CacheTTL =>
    \A c \in Caller : call[c].pc = "notfound" /\ call[c].steady => call[c].overtaken

=============================================================================
