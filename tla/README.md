# A verification of the step-up gateway

TLA+ models of the gateway and the libraries of this repository, model-checked
with TLC on small instances and, where it matters most, proved with TLAPS for
every value of the constants. `PROJECT.json` is the index: components, runs,
mutants, the map from definitions to source lines, findings, hazards, theorems.
Paths below are relative to `src/`.

## 1. The system

A request passes, in this order, the rate limiter, the tenant resolvers and the
registry, the DPoP check, introspection (through the claims cache), the binding
of the token to the tenant, FAPI, the policy engine and, if the browser has a
step-up cookie, the replay of an earlier request; then it goes upstream. A
denial by policy answers with a challenge and a signed cookie that holds the
request. Beside this path run a revocation webhook, a reload of the policies,
the discovery of providers and the cleanup of caches.

A service can do without the gateway: the middleware packages run the bearer
token, the DPoP proof, introspection and the policy in front of its handlers,
without tenants, cache and cookie, and the client follows the challenges itself.
The devkit has an authorization server for developing against.

| Part | State | Operations | What is hard about it |
|---|---|---|---|
| claims cache (`core/token/cache.go`) | key → claims, expiry | Get, Set, Delete, Flush, cleanup | Redis calls fail, reads as misses |
| introspection (`guard.go` introspect, `core/token/introspect.go`) | locals of a call | lookup, ask, clamp the TTL, Set, three indexes | seven calls that interleave with everything |
| revocation webhook (`core/token/revocation.go`) | locals of a delivery | resolve, delete one by one, 204 or 500 | races with fills; partial failures; repeats |
| rate limiter (`gateway/ratelimit.go`) | bucket per client | allow, eviction | clock read before the lock |
| DPoP (`core/token/dpop.go`) | record per jti; none for nonces | validate, nonce | Get then Set; skew against expiry; windows |
| policy engine (`core/policy`, `core/rar`) | current configuration | Evaluate, Reload | Reload without a lock in the loop |
| guard (`gateway/guard.go`) | locals of a call | ServeHTTP, completeStepUp, handleDenial | checks that age before they are used |
| step-up flow (`core/stepup`) | a cookie in the browser | save, read, complete, clear | answers out of order, lost; restart |
| tenants and providers (`tenant`, `providers`) | registry, discovery document | Register, Unregister, Get, RefreshAll | the tenant changes under a request |
| JWT validator (`core/token/jwtvalidator.go`) | key set, time of the fetch | Validate, RefreshKeys | fetches stored out of order |
| middleware (`middleware/*`), challenges (`core/stepup/challenge.go`) | locals of a call | authenticate, introspect, decide, challenge | everything changes between its calls; a client must get somewhere by following it |
| local authorization server (`devkit/localas`) | token → entry | issue, introspect, revoke | an entry read outside the lock; tokens that are the same string |
| FAPI profile (`core/fapi/profile.go`) | none | a gate of the guard | ages while the request goes on |
| PAR, PKCE, token exchange, simulator, telemetry, server | none, or output only | | see section 8 |

What should hold, by part:

- **cache, introspection, webhook**: a revoked or expired token is served for a
  bounded time; a 204 means the token is gone; indexes lead to their tokens.
- **rate limiter**: no window admits more than burst plus rate; a slow client is
  never refused.
- **DPoP**: a proof is used once; a nonce lives one to two windows.
- **policy**: the first enabled match decides, by one configuration; whatever is
  allowed meets a policy that was in force.
- **guard, step-up**: what goes upstream was allowed, under the right tenant; a
  cookie survives until its request is served, and is over afterwards.
- **JWT validator**: the cache agrees with the server within its TTL; a
  published key is found.
- **middleware, authorization server**: nobody is served on old news; an answer
  about a token was true while it was being given; following challenges ends in
  being served.

## 2. The modules

| Module | Models | Extends |
|---|---|---|
| `ClaimsCache` | MemoryCache and RedisCache | |
| `Introspection` | Guard.introspect, CachedIntrospector, IndexClaims | `ClaimsCache` |
| `Webhook` | RevocationHandler | `ClaimsCache` |
| `TokenRevocation` | the two around one cache, the authorization server, time | both |
| `TokenLease` | what `TokenRevocation` amounts to for whoever presents a token (abstract) | |
| `RateLimiter` | rateLimiter | |
| `DPoP` | ValidateDPoP, DPoPValidator, NonceProvider, the client | |
| `Policy` | matching and checking, and what Evaluate can return while it is reloaded, as operators | |
| `PolicyEngine` | Evaluate's loop against Reload | `Policy` |
| `Guard` | ServeHTTP with DPoP binding and FAPI, the cookie, the browser, registry and providers | `Policy` |
| `AuthServer` | what the introspection client expects of a server (abstract) | |
| `LocalAS` | the devkit's server, which implements `AuthServer` | |
| `Middleware` | the middleware, clients that follow challenges, the server behind | `LocalAS`, `Policy` |
| `JWTValidator` | the JWKS cache, the server that rotates keys | |

`MC<module>` instantiates a module for TLC and `<module>_proofs` holds its
theorems; the lemmas of `Policy_proofs` serve the proofs of the three modules
that evaluate policies. In every module a goroutine is a record with a program
counter, and each call to a cache, a server or a lock is one step. Time is a
counter; names follow the code. Operators headed "Mutant of" are plausible bugs that show
that a property can fail; no specification uses them.

Correspondence, where it is not one to one:

- **ClaimsCache.** A token stands for its SHA-256 key. The claims under a token
  are a function of the token, so an entry is its list of hashes (index entries
  only, as a set: the code adds none twice) and its expiry. `Fallible` chooses
  Redis: reads fail as misses, and a write that reports an error may have
  happened. `Manual` adds what the embedding program may call (Flush, Revoke).
- **Introspection.** `pc` names the next call: `asking`, `answered`, `set`,
  `jti`, `sub`, `subWrite`, `sid`, `sidWrite`. `at` is when the authorization
  server evaluated the token. `KeepsSid = FALSE` is the built-in introspector,
  which never fills SessionID.
- **Webhook.** `first` and `last` are the keys still to delete: the index entry
  before the token for a jti, the tokens before the list otherwise.
- **TokenRevocation** implements `TokenLease`: the lease of a token ends with its
  cache entry, and a token is closed when it is revoked, has no unexpired entry
  and no fill holds an answer about it (`Closed`). Requests, index and
  deliveries have no counterpart there.
- **RateLimiter.** Tokens are counted in ticks: one call costs `Cost` ticks of
  refill, so `elapsed * rps` is exact where the code rounds floating-point
  numbers. `start` and `spent` observe a window that may begin at any time.
- **DPoP.** A nonce is the number of its window. `raced` marks a call between
  whose Get and Set another call accepted the same proof. `faulted` collects the
  proofs whose record a Get missed, a Set lost or a restart took away; `Restart`
  ends the calls under way and keeps a shared cache or loses the one in memory.
- **Policy.** A path is its sequence of segments, a pattern its segments before
  `**` and whether it has one. `Accepts` is what `path.Match` does on a segment.
  `InScope` and `Meets` restate, independently of the code's order of checks,
  when a policy is for a request and when a token meets it.
- **Evaluate and Reload.** Evaluate reads `e.config` for the number of policies,
  again for each of them and once more for the ACR levels, and Reload assigns it
  without a lock. `PolicyEngine` makes each read a step. `Guard` and `Middleware`
  make a call two steps: it begins, reloads add to the list `run` of the
  configurations installed since, and it returns one of `Outcomes(run, ...)`:
  all that reads in that order can give, a panic included. `ReadsDecide` says
  that the loop returns nothing else. `Authorized` is what is left of a decision
  then: a policy of an installed configuration is for the request and its
  requirements are met, and without a reload the first that applies decided.
- **Guard.** The rate limiter and the check of the proof may refuse at any time,
  and cached claims may vanish at any time, so each behaviour of those modules
  is included. `Conforms` is the DPoP binding and the FAPI profile; whether a
  token has a PAR and a nonce claim is part of its claims, which a provider may
  fill in although the built-in introspector does not.
  A refresh installs the document or, as the status is not looked at, a body
  without issuer and endpoint (`blank`). When Evaluate panics, net/http gives the
  connection up and the process goes on. A restart loads the policy file of
  that time and discovers the providers again; a Redis cache keeps its claims
  and one in memory does not, which are two ways `Admit` can go on.
  `hints` are the tenants the resolvers of the chain find. `held` is the
  provider a request keeps although the registry has replaced it. The browser
  takes its cookie along when it sends and changes it when an answer arrives.
  An answer that changes no cookie ends the request at once. `seen`,
  `from` and `declared` record what the properties speak about.
- **JWTValidator.** A document is a sequence of keys, of which the last with a
  kid wins and unsupported ones are skipped. `steady`, `older` and `overtaken`
  are history: see the comments of `Call`.
- **LocalAS.** A token without a jti, signed deterministically, is what it says:
  user, acr and second of issue. An introspection is three steps: it arrives,
  looks the entry up under the lock, and reads the entry without it. `may` is
  what that read can return: a read that races with handleRevoke returns either
  value. `linked` says whether the map still has the entry, so that a revocation
  reaches it. `truths` is history.
- **Middleware.** `engine` is the configuration of the policy engine, if there is
  one. A request whose evaluation panics is lost: over HTTP that connection, over
  gRPC, where nobody recovers, the process with every request in it, which is
  started again with the policy file of that time. A client whose request was
  lost sends it again (`Retry`). A challenge is the set of the parameters of its header; the
  client reads `error` and `acr_values` from it as ParseWWWAuthenticate does, and
  asks the token endpoint for that acr (`docs/middleware.md`, and
  `TestE2E_StepUpFlow` in `tests/integration`). An RPC gets a status, which is
  not meant to be parsed, and the interceptors do not look at EnableDPoP.

## 3. The runs

Passing runs:

| Run | Question | Properties | Distinct states |
|---|---|---|---|
| `revocation_redis` | one token, failing cache, events by subject | `BoundedStaleness`, `OutlivesByAtMostLag`, `EvictionHolds`, `ImplementsLease` | 302,742 |
| `revocation_memory` | two requests and two deliveries, by hash and by jti | `TypeOK`, `RevocationEffective`, `JTIIndexCovers` | 1,099,573 |
| `rate_limiter` | two callers out of clock order, with eviction | `TypeOK`, `WindowBound`, `SpacedCallsAdmitted` | 98,682 |
| `dpop` | two calls, two proofs, a client clock ahead or behind, a failing cache, restarts | `TypeOK`, `NonceLifetime`, `AcceptedTwiceAtMost`, `AcceptedWhileFresh`, `SpacedAccepts` | 295,002 |
| `policy_engine` | all lists of up to two of five policies, 40 requests, one reload anywhere | `TypeOK`, `OneConfigDecides`, `ReadsDecide`, `AllowJustified` | 420,755 |
| `guard` | two requests, two tenants, two keys, FAPI; reload within or between evaluations, refresh, registry change or restart, lost answers | `TypeOK`, `ForwardAuthorized`, `TenantBound`, `ReplayIsOver` | 697,905 |
| `jwks` | two goroutines, rotation with a kid that is used again | `TypeOK`, `Converged`, `NotFoundOnlyIfOvertaken` | 1,477,262 |
| `middleware` | a client over HTTP and one over gRPC, one user; revocation, reload within an evaluation, panic, failed introspection or an old proof | `TypeOK`, `ServedJustified`, `ImplementsAuthServer`, `StepUpConverges` | 375,790 |

Runs in which the code does something else than its comments say:

| Run | What TLC finds |
|---|---|
| `revocation_race` | A request has the server's "active" when the token is revoked and the webhook deletes an entry that is not there yet; the request then caches it. `guard.go:389` says revocations take effect on the next request. |
| `revocation_lost_update` | Two fills for one subject read the index, and the second write drops the first token; a revocation by subject answers 204 and leaves that token cached. |
| `dpop_overlap` | Two overlapping calls look up the jti before either records it; both accept. `dpop.go:181` says the second is rejected. |
| `step_up_dropped` | A page load with the old token between the challenge and the new token clears the cookie. `statemachine.go:163` says it survives until the new token satisfies the required ACR. |

What the passing runs say about those same places is the part that does hold:
`EvictionHolds` and `RevocationEffective` except for fills that overlap the
event, `BoundedStaleness` for those too; `SpacedAccepts` for calls that were not
overtaken and proofs whose record no fault has hit, `AcceptedWhileFresh` for
all; `AllowJustified`, and with it `ForwardAuthorized` and `ServedJustified`,
whatever is reloaded; `ReplayIsOver` in any order of answers.

## 4. Bounds

- *Time* stops at `MaxTime`, which lets the entries, records, nonces and cookies
  of an instance expire while others are still being made.
- *`MaxLag`* is the longest time from reading the clock, or from the server's
  answer, to the end of that call. In the code it is given by HTTP client
  timeouts (10 s by default), by how long a lock is held and by the scheduler; it is
  a parameter of the statements, not something the code enforces.
- *`Timeout`, `CacheTTL`, `MaxAge`, `Window`* are scaled down to 1 to 3 ticks;
  that keeps their order and lets the boundaries coincide.
- *`revocation_redis`*: one request and one delivery at a time, but any number
  one after the other; every cache call may fail. The concurrent case is in
  `revocation_memory`, where no call fails.
- *`dpop`*: every Get may miss and every Set may be lost, and a restart may come
  at any time and any number of times.
- *`policy_engine`*: one caller. Evaluations share nothing but the
  configuration, which they only read, so a second one adds nothing.
- *`guard`*: three requests are sent and one registry change, refresh, reload or
  restart happens. Requests overlap while all of them are of one tenant, the only one
  whose provider is discovered, and it stays registered, the policies in force
  leave a landing page open, there is a key for cookies, and no event has
  happened or the last request is still to come; they run one after the other
  otherwise (`Overlap`, a state constraint). A single request still interleaves
  with everything that happens to its tenant, and the claims an earlier request
  cached are there. What the constraint leaves out (two requests in flight of
  different tenants, or with the policies reloaded under both) is covered by the
  proofs, which know no such constraint. Of its two configurations the second is
  shorter and has the ACR levels the other way round, so that an evaluation that
  a reload overtakes can panic, and can allow what neither of the two allows.
  One token has no nonce, and reaches FAPI when its tenant is registered again.
- *`middleware`*: tokens live one tick and an introspection may take one, so that
  a token expires under it; one event of the kinds the run names happens at any
  point. Two clients of one user get the same token when they ask in the same
  second. One configuration asks for silver over HTTP and has nothing for RPCs;
  the other wants a recent login, which no token of this server can prove; it is
  shorter and has the levels the other way round, for the same reasons as above.
- *`jwks`*: the bounds of `Converged` and `NotFoundOnlyIfOvertaken` are tight:
  with one tick less, or without the exception, TLC finds a counterexample.
- *Symmetry* permutes requests, callers, deliveries or cookie keys, which no
  definition tells apart.

`CHECK_DEADLOCK FALSE` is set for `DPoP` and `Guard` only, where the bounds end a
behaviour: the proofs are too old, or the requests are used up, and the clock
has stopped.

## 5. Fairness

Only `Middleware` assumes any: `WF_vars(Progress(c))` for a client over HTTP. Go
runs every handler in a goroutine of its own, none of the steps waits for
another request (the lock of the local server is held for a map access), and
introspection ends with an answer or after five seconds (`introspect.go:96`), so a step
that stays possible is taken; that the client goes on with what it began is the
premise of the flow, sending a lost request again included. A process that a
panic has ended is running again by the next request: someone restarts it.
Nothing is assumed of revocations, reloads, failures, the
clock, or the client over gRPC, which may all stop or not happen. There are
bounds on disturbances (`MaxEvents`) and on the clock (`MaxTime`): a server that
fails for ever, or tokens that always expire before they arrive, would be
counterexamples, as they should be, so the property speaks of behaviours in
which these come to an end. `StepUpConverges` has a premise of its own:
from some time on the policies ask for nothing but what the server can put into
a token.

All other properties are safety properties, including the bounds in time, which
say how late something may be seen and not that it happens.

## 6. What is proved

All theorems are for arbitrary sets of tokens, requests, tenants, policies and
so on, any timing constants that satisfy the named assumptions, and any number
of steps.

| Theorem | States | Inductive invariant and why |
|---|---|---|
| `TokenRevocation_proofs!TypeCorrect` | `TypeOK` | itself |
| `StalenessBounded`, `ClampBoundsExpiry` | `BoundedStaleness`, `OutlivesByAtMostLag` | `StaleInv`: a fill holds an answer from before the revocation that is at most MaxLag old, with a TTL that fits; an entry's expiry is bounded by the revocation and by exp. The properties alone say nothing of fills on their way. |
| `EvictionIsTargeted` | `TargetedEviction` | `IndexSound`: index lists, and the copies requests have read, name only tokens with that claim |
| `EvictionIsFinal` | `EvictionHolds` | `EvictInv`: what a delivery has resolved and already deleted is absent and has no fill waiting to write it, or has overlapped; deliveries are about revoked tokens, which get no new answer |
| `HashEventsAreFinal` | a token named by hash in an event answered with 204 is absent, on any cache, unless a fill overlapped an event about it | `HashListed`: the delivery has resolved the event to that token, and its 204 confirms it; the rest is `EvictInv` |
| `CacheImplementsLease` | `ImplementsLease` | `StaleInv` bounds what a fill may write, so a write is a `Grant`; a closed token is revoked and gets no new answer, so it stays closed; every other step is `Withdraw`, `Revoke`, `Tick` or a stutter |
| `JTIIndexIsComplete` | `JTIIndexCovers`, on a cache that does not fail | `JTIInv`: the index entry of a jti outlives the token's or lives to its exp, unless a fill is about to write it or a delivery is about to delete the token too. Presence alone is not inductive: TTLs differ between fills. |
| `TokenEventsTakeEffect` | an event by hash, or by a jti of one token, that was answered with 204 has taken effect, on a cache that does not fail, whatever else is delivered | `SettledInv`: nothing can put the token back and a delivery is about to delete what is left of it, or a fill overlapped; a jti that is not found settles its token too, by `JTIInv` |
| `RevocationIsEffective` | `RevocationEffective`, on a cache that does not fail, if all events are about one token each | `SentInv`: the answered events are among those sent |
| `RateLimiter_proofs!TypeCorrect` | `TypeOK` | itself |
| `SpacedCallsAreAdmitted` | `SpacedCallsAdmitted` | `CreditInv`: a bucket's tokens less its time stamp are at least minus the latest admitted reading, although time stamps go back |
| `RateIsBounded` | `WindowBound`, if `IdleTTL >= Full + 2 * MaxLag` | `DebtInv`: a bucket's content plus what the window spent, less the time stamp, is bounded; an evicted one was full again |
| `DPoP_proofs!TypeCorrect` | `TypeOK` | itself |
| `NonceLivesOneToTwoWindows` | `NonceLifetime` | `HeldInv`, and lemmas on integer division |
| `AcceptsAreSpaced` | `SpacedAccepts` | `SpacedInv`: unless a fault has hit it, the record runs MaxAge from the last acceptance, and a call that found none and was not overtaken began to hold after it ended |
| `AtMostTwoAcceptances` | `AcceptedTwiceAtMost`, if `MaxAge >= Skew + MaxLag` | `CountInv`: the second acceptance is more than MaxAge after the earliest possible first, so a third comes too late to be fresh |
| `OnlyFreshProofsAccepted` | `AcceptedWhileFresh` | `TimelyInv`, `FreshInv`: a call that is about to accept has found the proof fresh at most MaxLag ago |
| `PolicyEngine_proofs!TypeCorrect` | `TypeOK` | part of `IInv` |
| `FirstMatchDecides` | `OneConfigDecides` | the invariant of the next row: with one configuration its reads are all the same, and no policy before the index applies |
| `ReadsAloneDecide` | `ReadsDecide` | `IInv`, with `Loop`: the reads made so far can be placed on the installed configurations, in their order, such that the loop went on after each. The result alone says nothing of reads already made. |
| `AllowIsJustified` | `AllowJustified` | follows: an allowed outcome of any reads is a policy of one of the configurations, in scope (`Applies` implies `InScope`), and met ("allowed" implies `Meets`) |
| `Policy_proofs!ACRIsPartialOrder` | `ACRSatisfies` is reflexive, transitive, antisymmetric | by facts about `IndexOf` |
| `JWTValidator_proofs!TypeCorrect` | `TypeOK` | part of `IInv` |
| `CacheConverges` | `Converged` | `Timely`, `Faithful`: an answer, and the cache, differ from the server only on what it has changed since |
| `RetryFinds` | `NotFoundOnlyIfOvertaken` | `Lasting`: a key published throughout a call is in every answer given since, so only an older answer can remove it |
| `Guard_proofs!TypeCorrect`, `ForwardIsAuthorized`, `TenantIsBound`, `ReplayEnds` | `TypeOK`, `ForwardAuthorized`, `TenantBound`, `ReplayIsOver` | `Inv`: `Progressed` says for every point of ServeHTTP what has been established there (which provider it holds, that the claims are bound to the issuer and conform, that an evaluation under way has been given only configurations in `seen`, and that the request and the saved one were `Authorized`, by `AllowedIsAuthorized` of `Policy_proofs`: an allowed outcome of any reads is); `Numbered`: the number of a request that has not reached the browser in a cookie is known to nobody else, so no replay of it can have been settled |
| `Middleware_proofs!TypeCorrect`, `ServedIsJustified` | `TypeOK`, `ServedJustified` | `Inv`: the types, `Tracked` (below), and `ClientOK`: where a client is agrees with what the server has open for it, an evaluation has been given only configurations installed since the request was sent, and a served request is `Authorized` by them |
| `ServerImplementsAuthServer` | `ImplementsAuthServer` | `Tracked`: whatever the entry an open call holds may say about its token is among the states the token had since the question, also when it left the map; every step of the model is a step of `AuthServer` or a stutter under the mapping of `LocalAS` |

The proofs about `Guard` and `Middleware` hold for any number of requests,
clients, tenants, tokens, configurations and events. `Guard` needs no bound on
overlap. For the refinement the lifetime of a token has to be at least the
longest time from its generation to its registration plus the longest from
lookup to answer (`LocalASAssumption`): the code's hour.

The assumptions are the `ASSUME`s of the modules: types of the constants, that
special values are not members of the sets they are added to, and that cache
keys of tokens and of indexes differ (`KeysDisjoint`: a hex digest never starts
with `idx:`). TLC evaluates them in every run.

## 7. What is only model-checked

`StepUpConverges`: liveness under fairness is out of the prover's reach, as is
what recursive definitions compute, and stays with TLC.

`RevocationEffective` and `JTIIndexCovers` are proved under hypotheses that the
instance `revocation_memory` satisfies, and not beyond, because the code does
not do more: a cache call that fails can leave an index entry unwritten, an
index entry for a jti that several tokens share names the last one cached, and
the list of a subject or a session can lose a token to a concurrent fill
(`revocation_lost_update`) or expire before it (section 8). For those events
`EvictionIsFinal` says that what was deleted stays out, and `StalenessBounded`
for how long the rest is served.

## 8. What is not modelled

- *Cryptography, encodings, JSON, HTTP, headers, wording, logging, metrics,
  tracing*: signatures and digests are taken to be faithful.
- *PAR, PKCE, token exchange*: stateless clients and pure functions.
- *Simulator, telemetry, server*: output and wiring. The audit logger copies
  its list of sinks and writes to each in turn; nothing reads what it writes.
- *claims_mapper.go*, *fapi.ValidateTokenBinding*, *MethodToPath*: pure
  conversions and checks that nothing on the request path calls.
- *The local server's discovery and JWKS*: constants.
- In `Middleware`: which key a proof is made with. The middleware checks that a
  proof is for the token and fresh; the comparison with `cnf.jkt` is the guard's.
- In `Guard`: a nil policy engine or cache, a provider whose discovery document
  names another issuer later, the query and the body of a saved request (the
  code saves the query and not the body).

Disagreements between documents and code met while modelling, without a run of
their own yet:

- `docs/policy-configuration.md:119` and the repository's `README.md:187` say a
  request that no policy matches is allowed; `engine.go:41` denies it.
- `docs/policy-configuration.md:99` says max_age is skipped without auth_time;
  `engine.go:86-94` denies.
- `docs/policy-configuration.md:49` says `/**` matches everything;
  `matcher.go` does not match the root, and takes a `*` before `**` literally.
- `config/policy.example.yaml`: `high-value-transfers` comes after `payments`,
  which matches first.
- A session revocation finds nothing with the built-in introspector, which
  never fills SessionID. With FAPI on, every introspected token is refused for
  want of a nonce, which the introspector does not carry over.
- After a delivery with a failed Delete the list is gone all the same
  (`revocation.go:228`), so a repeated delivery answers 204 without evicting.
- A listed token does not renew the list's expiry (`revocation.go:178`), so the
  subject's list can expire before the token's entry.
- An evaluation that straddles a reload may decide as neither configuration
  does, or index past the end of a shorter list: `engine.go:29` and `:79` read
  `e.config` anew, and `Reload` (`engine.go:125`, "replaces the policy config at
  runtime") assigns it without a lock. `AllowJustified` is what is left. The
  instances of `guard` and `middleware` contain both cases.
- `docs/middleware.md` says of the middleware "no match → pass through"
  (`engine.go:41` denies) and "Introspect token (cache → AS)" (it has no cache).
- `interceptor.go:43` says "EnableDPoP enforces RFC 9449 DPoP
  proof-of-possession"; `authenticate` does not look at it. `interceptor.go:151`
  says a method name is "kept as-is"; `MethodToPath` strips its slash.
- A challenge names the policy's acr also when scopes, max_age, MFA or details
  were what was missing, so a client that follows it is challenged again: the
  premise of `StepUpConverges`.
- `RefreshConfig` (`adapter.go:71`) decodes the body whatever the status, so an
  error in JSON replaces the document and the issuer is not compared until the
  next refresh; introspection fails meanwhile, but cached claims are used.
- `localas.IssueToken` with `ExpiresIn` 0 registers an entry that expires at
  once, while the JWT lives an hour (`factory.go:51`); a token issued again in
  the same second is the same string and is active although it was revoked.

## 9. Plan

Done, most important first: the revocation core and its proofs; DPoP; the rate
limiter; the policy engine and its proofs; the guard with tenants, step-up, DPoP
binding and FAPI, and its proofs; the JWKS cache and its proofs; the middleware
with clients and the local authorization server, its liveness, and the proof
that the server implements the abstract one; the effect of revocation events,
and the proof that cache, requests and webhook implement leases on tokens.

What would come next:

1. *The gateway's own step-up as a liveness property*: with a token that
   satisfies the policy and no other request in between, the saved request is
   replayed.
2. *Revocation by subject*: which cached tokens a list still reaches, as an
   invariant that names the fills that overlapped and the lists that expired.
