------------------------------- MODULE Guard -------------------------------
(***************************************************************************)
(* Guard.ServeHTTP (internal/gateway/guard.go) and the step-up cookie      *)
(* (pkg/core/stepup/statemachine.go): requests of one browser pass through *)
(* the gateway at the same time while policies are reloaded, tenants       *)
(* registered and discovered, claims cached, and time passes.              *)
(*                                                                         *)
(* A denied request leaves a signed cookie with the request in it; when a  *)
(* later request for another path is allowed and the saved one is allowed  *)
(* too, the saved one is forwarded instead.  The state of a flow is the    *)
(* cookie, which only the browser holds: a request carries the cookie the  *)
(* browser had when it was sent, and an answer changes it on arrival.      *)
(*                                                                         *)
(* The rate limiter, DPoP proofs and the writes of the claims cache have   *)
(* modules of their own; here a request may be refused by the first two at *)
(* any time, and cached claims may vanish at any time.                     *)
(***************************************************************************)
EXTENDS Policy

CONSTANTS
  Config,        \* policy configurations
  Tenant,        \* the tenants the registry may hold
  Token,         \* access tokens
  Claims,        \* the claims of tokens; jkt is the key a token is bound to, par and
                 \* nonce whether it has these claims
  Vouches,       \* Vouches[t][k]: what the authorization server of tenant t says of
                 \* token k: claims, or NoClaims when it is inactive or the call fails
  IssuerOf,      \* IssuerOf[t]: the issuer in the discovery document of tenant t
  Input,         \* the requests a browser sends: [hints, token, key, res] with res a
                 \* [method, path], key the one its DPoP proof is signed with, and
                 \* hints the tenant each resolver of the chain finds in it, NoTenant
                 \* when it reports an error
  EnableDPoP,    \* GuardConfig.EnableDPoP
  FAPI,          \* GuardConfig.FAPI: [dpop, requestURI], or NoFAPI
  FAPIMaxAuthAge,
  Secret,        \* CookieSecret, NoSecret when the step-up cookie is off
  Request,       \* requests in flight
  CookieMaxAge,  \* cookieMaxAge
  Timeout,       \* StateMachine.Timeout
  MaxTime,       \* bound: how far time goes
  MaxRequests,   \* bound: how many requests are sent
  MaxEvents,     \* bound: how often a policy is reloaded, the gateway restarted, the
                 \* registry changed or something else than a document discovered
  Keep, Clear,   \* an answer that leaves the cookie alone, or clears it
  Unknown,       \* an absent auth_time
  NoClaims, NoIssuer, NoSecret, NoCookie, NoForward, NoInput, NoPolicy,
  NoTenant, NoKey, NoFAPI

ASSUME GuardAssumption ==
  /\ MaxTime \in Nat /\ MaxRequests \in Nat /\ MaxEvents \in Nat
  /\ CookieMaxAge \in Nat /\ Timeout \in Nat
  /\ EnableDPoP \in BOOLEAN
  /\ NoClaims \notin Claims /\ NoInput \notin Input
  /\ NoTenant \notin Tenant /\ Keep # Clear
  /\ \A i \in Input : i.hints \in Seq(Tenant \cup {NoTenant}) /\ i.token \in Token
  /\ \A t \in Tenant, k \in Token : Vouches[t][k] \in Claims \cup {NoClaims}
  /\ \A cfg \in Config : WellFormed(cfg)
  /\ \A c \in Claims : c.authTime = Unknown \/ c.authTime \in Int

VARIABLES
  now,         \* time
  config,      \* the configuration of the policy engine
  secret,      \* the signing key of the gateway
  provider,    \* [Tenant -> its provider in the registry: absent, new, ready once
               \* it has its discovery document, or blank if it got another one]
  cached,      \* [Token -> the cached claims, or NoClaims]
  cookie,      \* the step-up cookie of the browser
  req,         \* [Request -> the local state of a call to ServeHTTP]
  sent,        \* how many requests were sent; also names the saved ones
  events,      \* how many of the events MaxEvents bounds there were
  settled      \* history: the saved requests whose replay was answered

vars == <<now, config, secret, provider, cached, cookie, req, sent, events, settled>>
gateway == <<config, secret, provider, events>>

-----------------------------------------------------------------------------
\* SavedRequest and the key its cookie is signed with.  The id is StateID.
SavedRequest(id, res, at, key) == [id |-> id, res |-> res, at |-> at, key |-> key]

Resource == {i.res : i \in Input}
Saved == [id : 1..MaxRequests, res : Resource, at : 0..MaxTime, key : Secret]

\* What is forwarded upstream: the request itself (id 0) or a saved one.
Forwarded(id, res, at) == [id |-> id, res |-> res, at |-> at]

\* A call of Engine.Evaluate: the configurations installed since it began, in
\* order, and the time the age of the authentication was taken at.
Call(run, at) == [run |-> run, at |-> at]
NoCall == Call(<<>>, 0)

\* jar is the cookie the request carried; set what its answer does to the
\* cookie; fwd what went upstream; held the provider it got from the registry:
\* the one that is still there, or the state of one that is not; call the
\* evaluation it is in.  from, seen and declared are history: the time it
\* arrived, the configurations since then, and whether its provider has
\* declared its issuer ever since.
Handler(pc, n, in, jar, claims, set, fwd, held, call, from, seen, declared) ==
  [pc |-> pc, n |-> n, in |-> in, jar |-> jar, claims |-> claims, set |-> set, fwd |-> fwd,
   held |-> held, call |-> call, from |-> from, seen |-> seen, declared |-> declared]

\* The handler h further on, in an evaluation, and with another provider.
At(h, pc, claims) ==
  Handler(pc, h.n, h.in, h.jar, claims, h.set, h.fwd, h.held, NoCall, h.from, h.seen,
          h.declared)
In(h, pc, call, seen) ==
  Handler(pc, h.n, h.in, h.jar, h.claims, h.set, h.fwd, h.held, call, h.from, seen,
          h.declared)
With(h, held, declared) ==
  Handler(h.pc, h.n, h.in, h.jar, h.claims, h.set, h.fwd, held, h.call, h.from, h.seen,
          declared)

\* The handler after its last step; of a refused request nothing is left but
\* what its answer does to the cookie.
Done(in, claims, set, fwd, from, seen, declared) ==
  Handler("answer", 0, in, NoCookie, claims, set, fwd, "registered", NoCall, from, seen,
          declared)
Refused(set) == Done(NoInput, NoClaims, set, NoForward, 0, {}, FALSE)

Idle ==
  Handler("idle", 0, NoInput, NoCookie, NoClaims, Keep, NoForward, "registered", NoCall, 0, {},
          FALSE)

HandlerState ==
  [pc : {"idle", "admit", "introspect", "bind", "policy", "evaluate", "cookie", "saved",
         "reevaluate", "complete", "answer"},
   n : 0..MaxRequests, in : Input \cup {NoInput}, jar : Saved \cup {NoCookie},
   claims : Claims \cup {NoClaims}, set : {Keep, Clear} \cup Saved,
   fwd : [id : 0..MaxRequests, res : Resource, at : 0..MaxTime] \cup {NoForward},
   held : {"registered", "new", "ready", "blank"},
   call : [run : Seq(Config), at : 0..MaxTime],
   from : 0..MaxTime, seen : SUBSET Config, declared : BOOLEAN]

TypeOK ==
  /\ now \in 0..MaxTime /\ config \in Config /\ secret \in Secret
  /\ provider \in [Tenant -> {"absent", "new", "ready", "blank"}]
  /\ cached \in [Token -> Claims \cup {NoClaims}]
  /\ cookie \in Saved \cup {NoCookie} /\ req \in [Request -> HandlerState]
  /\ sent \in 0..MaxRequests /\ events \in 0..MaxEvents
  /\ settled \subseteq 1..MaxRequests
  /\ \A r \in Request :
       /\ req[r].pc \notin {"idle", "answer"} =>
            /\ req[r].in \in Input /\ req[r].from <= now /\ req[r].n \in 1..sent
            /\ req[r].fwd = NoForward /\ req[r].set = Keep /\ config \in req[r].seen
       /\ req[r].pc \in {"bind", "policy", "evaluate", "cookie", "saved", "reevaluate",
                        "complete"} => req[r].claims \in Claims
       /\ req[r].pc \in {"saved", "reevaluate", "complete"} => req[r].jar # NoCookie
       /\ req[r].pc \in {"evaluate", "reevaluate"} =>
            LET run == req[r].call.run
            IN  run # <<>> /\ run[Len(run)] = config

Init ==
  /\ now = 0 /\ config \in Config /\ secret \in Secret
  /\ provider = [t \in Tenant |-> "new"] /\ cached = [k \in Token |-> NoClaims]
  /\ cookie = NoCookie /\ req = [r \in Request |-> Idle]
  /\ sent = 0 /\ events = 0 /\ settled = {}

-----------------------------------------------------------------------------
\* The resolvers: the first one of the chain that finds a tenant decides.
Resolve(hints) ==
  LET found == {i \in 1..Len(hints) : hints[i] # NoTenant}
  IN  IF found = {} THEN NoTenant ELSE hints[First(found)]

TenantOf(r) == Resolve(req[r].in.hints)

\* Mutant of Held: the registry is asked again.
HeldAgain(r) == provider[TenantOf(r)]

\* The provider ServeHTTP got from the registry, whatever is there now.
Held(r) == IF req[r].held = "registered" THEN provider[TenantOf(r)] ELSE req[r].held

\* Provider.Issuer: empty until the discovery document has been fetched, and
\* when what was fetched has no issuer.
Issuer(p, t) == IF p = "ready" THEN IssuerOf[t] ELSE NoIssuer

\* CommonClaims.AuthAge: zero when auth_time is absent.
AuthAge(c, t) == IF c.authTime = Unknown THEN 0 ELSE t - c.authTime

\* The policy.Request for a resource and the claims c, at time t.
PolicyRequest(res, c, t) ==
  [method |-> res.method, path |-> res.path, acr |-> c.acr, amr |-> c.amr,
   scopes |-> c.scopes, authAge |-> AuthAge(c, t), details |-> c.details]

\* The browser sends a request, with the cookie it has, and ServeHTTP looks
\* its tenant up in the registry: no tenant or an unknown one is refused.
Send(r, in) ==
  LET t == Resolve(in.hints) IN
  /\ req[r].pc = "idle" /\ sent < MaxRequests
  /\ sent' = sent + 1
  /\ req' = [req EXCEPT ![r] =
       IF t = NoTenant \/ provider[t] = "absent" THEN Idle
       ELSE Handler("admit", sent + 1, in, cookie, NoClaims, Keep, NoForward, "registered",
                    NoCall, now, {config}, Issuer(provider[t], t) # NoIssuer)]
  /\ UNCHANGED <<now, gateway, cached, cookie, settled>>

Goto(r, pc) ==
  /\ req' = [req EXCEPT ![r] = At(req[r], pc, req[r].claims)]
  /\ UNCHANGED cached

\* WriteChallenge: ServeHTTP returns without a call upstream.  An answer that
\* leaves the cookie alone changes nothing when it arrives.
Challenge(r, set) ==
  /\ req' = [req EXCEPT ![r] = IF set = Keep THEN Idle ELSE Refused(set)]
  /\ UNCHANGED cached

\* A gate that is not in this module says no: the rate limiter, a missing
\* bearer token or the DPoP proof.
Refuse(r) == req[r].pc = "admit" /\ Challenge(r, Keep)

\* Mutant of Admit: the found flag of the cache is ignored.
AdmitUnchecked(r) ==
  LET k == req[r].in.token IN
  /\ req[r].pc = "admit"
  /\ req' = [req EXCEPT ![r] = At(req[r], "bind", cached[k])]
  /\ UNCHANGED cached

\* introspect, from the cache.  The key is the hash of the token alone.  That
\* the entry has expired, was revoked or could not be stored shows here.
Admit(r) ==
  LET k == req[r].in.token IN
  /\ req[r].pc = "admit" /\ (EnableDPoP => req[r].in.key # NoKey)
  /\ \/ /\ cached[k] # NoClaims
        /\ req' = [req EXCEPT ![r] = At(req[r], "bind", cached[k])]
        /\ UNCHANGED cached
     \/ /\ req' = [req EXCEPT ![r] = At(req[r], "introspect", NoClaims)]
        /\ cached' = [cached EXCEPT ![k] = NoClaims]

\* introspect, from the provider, which fails until it is discovered.
Introspect(r) ==
  LET t == TenantOf(r)  k == req[r].in.token IN
  /\ req[r].pc = "introspect"
  /\ \/ /\ Held(r) # "ready" \/ Vouches[t][k] = NoClaims
        /\ Challenge(r, Keep)
     \/ /\ Held(r) = "ready" /\ Vouches[t][k] # NoClaims
        /\ cached' = [cached EXCEPT ![k] = Vouches[t][k]]
        /\ req' = [req EXCEPT ![r] = At(req[r], "bind", Vouches[t][k])]

HasDPoP(c) == c.jkt # NoKey

\* VerifyDPoPBinding: the token is bound to the key of the proof.
VerifyDPoPBinding(in, c) == HasDPoP(c) /\ c.jkt = in.key

\* fapi.ValidateRequest at time t; an absent auth_time is let through.
ValidateRequest(c, t) ==
  /\ FAPI.dpop => HasDPoP(c)
  /\ FAPI.requestURI => c.par
  /\ c.nonce
  /\ AuthAge(c, t) <= FAPIMaxAuthAge

\* The gates between the introspection and the policy.
Conforms(in, c, t) ==
  /\ EnableDPoP => VerifyDPoPBinding(in, c)
  /\ FAPI # NoFAPI => ValidateRequest(c, t)

\* The provider is not needed any more.
Bound(r) ==
  /\ req' = [req EXCEPT ![r] =
       At(With(req[r], "registered", req[r].declared), "policy", req[r].claims)]
  /\ UNCHANGED cached

\* The token belongs to the tenant, if its provider declares an issuer, and
\* passes the gates.
Bind(r) ==
  LET iss == Issuer(Held(r), TenantOf(r)) IN
  /\ req[r].pc = "bind"
  /\ IF iss \in {NoIssuer, req[r].claims.iss} /\ Conforms(req[r].in, req[r].claims, now)
     THEN Bound(r) ELSE Challenge(r, Keep)

\* SetStateCookie: the answer carries the saved request, signed.
SetStateCookie(r) == Challenge(r, SavedRequest(req[r].n, req[r].in.res, now, secret))

\* The policy.Request is built and Engine.Evaluate called.
Ask(r, pc) ==
  /\ req' = [req EXCEPT ![r] = In(req[r], pc, Call(<<config>>, now), req[r].seen)]
  /\ UNCHANGED cached

\* What the call of Engine.Evaluate that r is in may return for a resource.
Results(r, res) ==
  Outcomes(req[r].call.run, PolicyRequest(res, req[r].claims, req[r].call.at), NoPolicy)

BeginEvaluate(r) == req[r].pc = "policy" /\ Ask(r, "evaluate")

\* Policy evaluation; handleDenial saves the request in a new cookie.  When
\* Evaluate panics, net/http drops the connection and goes on.
Evaluate(r) ==
  /\ req[r].pc = "evaluate"
  /\ \E out \in Results(r, req[r].in.res) :
       \/ out.reason = "allowed" /\ Goto(r, "cookie")
       \/ out.reason = "panic" /\ Challenge(r, Keep)
       \/ /\ out.reason \notin {"allowed", "panic"}
          /\ IF secret = NoSecret THEN Challenge(r, Keep) ELSE SetStateCookie(r)

\* ReadStateCookie: signed with our key and not too old.
ReadStateCookie(jar) ==
  jar # NoCookie /\ jar.key = secret /\ now - jar.at <= CookieMaxAge

\* Mutant of Forward: the cookie stays.
ForwardKeep(r, id, res) ==
  LET h == req[r] IN
  /\ req' = [req EXCEPT ![r] =
       Done(h.in, h.claims, Keep, Forwarded(id, res, now), h.from, h.seen, h.declared)]
  /\ UNCHANGED cached

\* ClearStateCookie, and the request goes upstream; its number and the cookie
\* it carried are of no further use.
Forward(r, id, res) ==
  LET h == req[r]  set == IF secret = NoSecret THEN Keep ELSE Clear IN
  /\ req' = [req EXCEPT ![r] =
       Done(h.in, h.claims, set, Forwarded(id, res, now), h.from, h.seen, h.declared)]
  /\ UNCHANGED cached

\* Replay the saved request, if there is one for another path.
ReplayOrForward(r) ==
  LET jar == req[r].jar  in == req[r].in IN
  /\ req[r].pc = "cookie"
  /\ IF secret # NoSecret /\ ReadStateCookie(jar) /\ jar.res.path # in.res.path
     THEN Goto(r, "saved") ELSE Forward(r, 0, in.res)

BeginEvaluateSaved(r) == req[r].pc = "saved" /\ Ask(r, "reevaluate")

\* Mutant of EvaluateSaved: the landing request's decision is enough.
EvaluateSavedSkip(r) == req[r].pc = "reevaluate" /\ Goto(r, "complete")

\* completeStepUp, first half: the policy for the saved request.
EvaluateSaved(r) ==
  /\ req[r].pc = "reevaluate"
  /\ \E out \in Results(r, req[r].jar.res) :
       \/ out.reason = "allowed" /\ Goto(r, "complete")
       \/ out.reason = "panic" /\ Challenge(r, Keep)
       \/ out.reason \notin {"allowed", "panic"} /\ Challenge(r, Clear)

\* completeStepUp, second half: StateMachine.Complete, then the replay.
Complete(r) ==
  LET jar == req[r].jar IN
  /\ req[r].pc = "complete"
  /\ IF now - jar.at > Timeout THEN Challenge(r, Clear) ELSE Forward(r, jar.id, jar.res)

\* The answer reaches the browser, which does what Set-Cookie says.
Deliver(r) ==
  /\ req[r].pc = "answer"
  /\ cookie' = CASE req[r].set = Keep -> cookie
                 [] req[r].set = Clear -> NoCookie
                 [] OTHER -> req[r].set
  /\ settled' = IF req[r].fwd # NoForward /\ req[r].fwd.id > 0
                THEN settled \cup {req[r].fwd.id} ELSE settled
  /\ req' = [req EXCEPT ![r] = Idle]
  /\ UNCHANGED cached

\* The connection is gone before the answer arrives.
Lose(r) ==
  /\ req[r].pc = "answer"
  /\ req' = [req EXCEPT ![r] = Idle]
  /\ UNCHANGED cached

\* ServeHTTP, and the way back.
Handle(r) ==
  /\ \/ Admit(r) \/ Introspect(r) \/ Bind(r) \/ Refuse(r)
     \/ BeginEvaluate(r) \/ Evaluate(r) \/ ReplayOrForward(r)
     \/ BeginEvaluateSaved(r) \/ EvaluateSaved(r) \/ Complete(r) \/ Lose(r)
  /\ UNCHANGED <<now, gateway, sent, cookie, settled>>

Receive(r) == Deliver(r) /\ UNCHANGED <<now, gateway, sent>>

-----------------------------------------------------------------------------
\* Requests that need the provider of t they got from the registry: the one
\* that is there, or one that has left it and is still in the snapshot of a
\* RefreshAll.
Holding(t, held) ==
  {r \in Request : /\ req[r].pc \in {"admit", "introspect", "bind"} /\ TenantOf(r) = t
                   /\ req[r].held = held}

\* RefreshConfig of a provider in the registry, or of one that has left it,
\* gets its document, or a body without issuer and endpoint, of an error say:
\* the status is not looked at.
RefreshConfig(t, doc) ==
  /\ doc = "blank" => events < MaxEvents
  /\ events' = IF doc = "blank" THEN events + 1 ELSE events
  /\ \/ /\ provider[t] \notin {"absent", doc}
        /\ provider' = [provider EXCEPT ![t] = doc]
        /\ req' = [r \in Request |->
             IF r \in Holding(t, "registered")
             THEN With(req[r], "registered", req[r].declared /\ doc = "ready") ELSE req[r]]
     \/ \E old \in {"new", "ready", "blank"} \ {doc} :
        /\ Holding(t, old) # {}
        /\ req' = [r \in Request |->
             IF r \in Holding(t, old)
             THEN With(req[r], doc, req[r].declared /\ doc = "ready") ELSE req[r]]
        /\ UNCHANGED provider
  /\ UNCHANGED <<now, config, secret, cached, cookie, sent, settled>>

\* Registry.Register with a new provider, or Registry.Unregister: requests that
\* hold the old provider go on with it.
Replace(t, p) ==
  /\ events < MaxEvents
  /\ events' = events + 1
  /\ provider' = [provider EXCEPT ![t] = p]
  /\ req' = [r \in Request |->
       IF r \in Holding(t, "registered")
       THEN With(req[r], provider[t], req[r].declared) ELSE req[r]]
  /\ UNCHANGED <<now, config, secret, cached, cookie, sent, settled>>

Register(t) == Replace(t, "new")

Unregister(t) == provider[t] # "absent" /\ Replace(t, "absent")

\* Engine.Reload, which no lock keeps from a call of Evaluate in progress.
Reload(cfg) ==
  /\ events < MaxEvents /\ cfg # config
  /\ events' = events + 1
  /\ config' = cfg
  /\ req' = [r \in Request |-> LET h == req[r] IN
       IF h.pc \in {"idle", "answer"} THEN h
       ELSE In(h, h.pc, IF h.pc \in {"evaluate", "reevaluate"}
                        THEN Call(Append(h.call.run, cfg), h.call.at) ELSE h.call,
               h.seen \cup {cfg})]
  /\ UNCHANGED <<now, secret, provider, cached, cookie, sent, settled>>

\* The gateway stops and starts, perhaps with another key, and with the policy
\* file as it is then: requests in flight and the discovered documents are
\* gone.  Cached claims may be (Redis keeps them, memory does not: Admit), the
\* cookie is not.
Restart(key, cfg) ==
  /\ events < MaxEvents
  /\ events' = events + 1
  /\ secret' = key
  /\ config' = cfg
  /\ provider' = [t \in Tenant |-> "new"]
  /\ req' = [r \in Request |-> Idle]
  /\ UNCHANGED <<now, cached, cookie, sent, settled>>

Tick ==
  /\ now < MaxTime
  /\ now' = now + 1
  /\ UNCHANGED <<gateway, cached, cookie, req, sent, settled>>

Next ==
  \/ \E r \in Request : (\E in \in Input : Send(r, in)) \/ Handle(r) \/ Receive(r)
  \/ \E t \in Tenant : Register(t) \/ Unregister(t)
                       \/ \E doc \in {"ready", "blank"} : RefreshConfig(t, doc)
  \/ \E cfg \in Config : Reload(cfg) \/ \E key \in Secret : Restart(key, cfg)
  \/ Tick

Spec == Init /\ [][Next]_vars

-----------------------------------------------------------------------------
\* Everything that goes upstream was authorized, and so was the request that
\* brought it, by the configurations that were installed while ServeHTTP ran and
\* for an age the authentication had meanwhile: without a reload the first
\* policy that applies allowed it, with one a policy of one of them that is for
\* the request and whose requirements the token meets.  A replay is held to the
\* policy of the saved request with the token of the later one, which is bound
\* to the key of the proof that came with it and met the FAPI profile.
ForwardAuthorized ==
  \A r \in Request : LET h == req[r] IN
    h.fwd # NoForward =>
      /\ \A res \in {h.in.res, h.fwd.res} : \E t \in h.from..h.fwd.at :
           Authorized(h.seen, PolicyRequest(res, h.claims, t), NoPolicy)
      /\ \E t \in h.from..h.fwd.at : Conforms(h.in, h.claims, t)

\* "The token's issuer must match the resolved tenant's provider": whoever's
\* answer was cached and whatever happens to the registry, a request whose
\* provider declared its issuer as long as the request needed it does not go
\* upstream with claims of another issuer.
TenantBound ==
  \A r \in Request :
    req[r].fwd # NoForward /\ req[r].declared =>
      req[r].claims.iss = IssuerOf[TenantOf(r)]

\* A saved request whose replay was answered is not replayed by a request sent
\* later, in whatever order other answers arrive or get lost: its cookie is gone.
ReplayIsOver ==
  cookie # NoCookie => cookie.id \notin settled

\* "The cookie survives the redirect to the AS and back, letting the guard
\* replay the original request once the new token satisfies the required ACR":
\* a cookie that has not expired is cleared only by the answer to its request.
ClearedOnceServed ==
  [][cookie # NoCookie /\ cookie' = NoCookie /\ now - cookie.at <= CookieMaxAge =>
       \E r \in Request : /\ req[r].pc = "answer" /\ req'[r].pc = "idle"
                          /\ req[r].fwd # NoForward /\ req[r].fwd.res = cookie.res]_vars
=============================================================================
