----------------------------- MODULE Middleware -----------------------------
(***************************************************************************)
(* A service protected by the middleware packages (pkg/middleware/stdlib,  *)
(* gin, echo and grpc, which run the same sequence of checks), the devkit's *)
(* authorization server behind it (LocalAS), and clients that follow the   *)
(* challenges they get: the step-up flow of RFC 9470 from end to end.      *)
(*                                                                         *)
(* The middleware keeps no state of its own and caches nothing; what makes *)
(* it hard is what happens around a request between two of its calls:      *)
(* tokens expire and are revoked, policies are reloaded even while they    *)
(* are evaluated, introspection fails, and a proof grows old.              *)
(***************************************************************************)
EXTENDS LocalAS, Policy

CONSTANTS
  Transport,       \* Transport[c]: "http", or "grpc" for the interceptors
  Wants,           \* Wants[c]: the [method, path] client c asks for; the method of
                   \* an RPC is "RPC" and its path the full method name
  UserOf,          \* UserOf[c]: the user name client c authenticates with
  Config,          \* policy configurations
  NoEngine,        \* a nil PolicyEngine
  EnableDPoP,      \* Config.EnableDPoP
  ProofAge,        \* DefaultDPoPConfig().MaxAge
  MaxEvents        \* bound: how often a token is revoked, the policies are
                   \* reloaded, introspection fails or a proof is sent again

ASSUME MiddlewareAssumption ==
  /\ Transport \in [Client -> {"http", "grpc"}]
  /\ UserOf \in [Client -> User]
  /\ EnableDPoP \in BOOLEAN /\ ProofAge \in Nat
  /\ MaxEvents \in Nat
  /\ NoEngine \notin Config
  /\ \A cfg \in Config : WellFormed(cfg)

VARIABLES
  engine,       \* the configuration of the policy engine, or NoEngine
  client,       \* [Client -> the client and the request it has under way]
  events        \* how many of the events MaxEvents bounds there were

vars == <<asVars, engine, client, events>>

\* wish is the acr the client will ask a token for; proof the DPoP proof it
\* sends with token: the token it is for (ath) and when it was signed (iat);
\* reply what the middleware answered.  run and seen are history: the
\* configurations installed during the call of Evaluate, in order, and the
\* engines there were since the request was sent.
State(pc, wish, token, proof, reply, run, seen) ==
  [pc |-> pc, wish |-> wish, token |-> token, proof |-> proof, reply |-> reply, run |-> run,
   seen |-> seen]

NoReply == {}
NoProof == [ath |-> NoToken, iat |-> 0]
Proof == [ath : Raw \cup {NoToken}, iat : 0..MaxTime]

\* The client at another point; before or after its requests; in Evaluate.
At(c, pc) ==
  LET k == client[c] IN State(pc, k.wish, k.token, k.proof, k.reply, <<>>, k.seen)
Between(c, pc, wish, token) == State(pc, wish, token, client[c].proof, NoReply, <<>>, {})
In(c, run, seen) ==
  LET k == client[c] IN State("deciding", k.wish, k.token, k.proof, k.reply, run, seen)

-----------------------------------------------------------------------------
\* StepUpChallenge, in a 401 of the HTTP middleware.
StepUpChallenge(error, acr, maxAge) == [error |-> error, acr |-> acr, maxAge |-> maxAge]

\* WWWAuthenticateHeader: the parameters of the header, of which acr_values and
\* max_age are left out when they are empty or not positive.
WWWAuthenticateHeader(ch) ==
  {<<"error", ch.error>>}
    \cup (IF ch.acr # NoACR THEN {<<"acr_values", ch.acr>>} ELSE {})
    \cup (IF ch.maxAge > 0 THEN {<<"max_age", ch.maxAge>>} ELSE {})

\* ParseWWWAuthenticate, one parameter.
Parameter(header, name, absent) ==
  IF \E p \in header : p[1] = name
  THEN (CHOOSE p \in header : p[1] = name)[2] ELSE absent

\* Every answer of the middleware that is not the handler's: a challenge over
\* HTTP, a status over gRPC, whose message is not meant to be parsed.
Header(error, acr, maxAge) == WWWAuthenticateHeader(StepUpChallenge(error, acr, maxAge))

Denial(c, error, acr, maxAge) ==
  IF Transport[c] = "http" THEN Header(error, acr, maxAge)
  ELSE {<<"code", IF error = "invalid_token" THEN "Unauthenticated" ELSE "PermissionDenied">>}

\* The token endpoint issues these scopes whatever is asked for.
Scopes == {"openid", "profile"}

\* introToCommonClaims of what handleIntrospect says of a token, as the request
\* the policy engine is asked about: no amr, no auth_time (so that AuthAge is
\* zero) and no authorization details.
PolicyRequest(c, acr) ==
  [method |-> Wants[c].method, path |-> Wants[c].path, acr |-> acr, amr |-> {},
   scopes |-> Scopes, authAge |-> 0, details |-> {}]

\* Without a matching policy nothing is required.
NoPolicy == [acr |-> NoACR, maxAge |-> 0]

Engines == Config \cup {NoEngine}

\* ValidateDPoP of an honest client: the proof is for this token and fresh.
ValidateDPoP(c) ==
  /\ client[c].proof.ath = client[c].token
  /\ now - client[c].proof.iat <= ProofAge

-----------------------------------------------------------------------------
TypeOK ==
  /\ ASTypeOK
  /\ engine \in Engines
  /\ events \in 0..MaxEvents
  /\ DOMAIN client = Client
  /\ \A c \in Client : LET k == client[c] IN
       /\ k.pc \in {"start", "issuing", "ready", "sent", "asking", "deciding", "lost",
                   "answered", "served", "refused"}
       /\ k.token \in Raw \cup {NoToken} /\ k.proof \in Proof
       /\ k.run \in Seq(Config) /\ k.seen \subseteq Engines
       /\ k.pc = "issuing" <=> issuing[c] # NoToken
       /\ k.pc \in {"start", "issuing", "ready", "sent"} => asking[c] = Quiet
       /\ k.pc \in {"asking", "deciding"} => asking[c].pc # "idle" /\ asking[c].raw = k.token
       /\ k.pc \in {"sent", "asking", "deciding"} => engine \in k.seen
       /\ k.pc = "deciding" => k.run # <<>> /\ k.run[Len(k.run)] = engine
       /\ k.pc = "answered" <=> k.reply # NoReply

\* A client begins without a token or with one it has kept.
Init ==
  /\ ASInit
  /\ engine \in Engines
  /\ client \in [Client ->
       {State("ready", NoACR, token, NoProof, NoReply, <<>>, {}) : token \in {NoToken, Stray}}]
  /\ events = 0

\* Something happens that no one waits for.
Disturb == events < MaxEvents /\ events' = events + 1

\* The client asks for a token, for the acr it was told if it was told one.
RequestToken(c) ==
  /\ client[c].pc = "start"
  /\ HandleToken(c, UserOf[c], client[c].wish)
  /\ client' = [client EXCEPT ![c] = At(c, "issuing")]
  /\ UNCHANGED <<engine, events>>

ReceiveToken(c) ==
  /\ client[c].pc = "issuing"
  /\ IssueToken(c)
  /\ client' = [client EXCEPT ![c] = Between(c, "ready", client[c].wish, issuing[c])]
  /\ UNCHANGED <<engine, events>>

Signs(c) == EnableDPoP /\ Transport[c] = "http"

SendWith(c, proof) ==
  client' = [client EXCEPT ![c] =
    State("sent", client[c].wish, client[c].token, proof, NoReply, <<>>, {engine})]

\* The client sends its request, with a proof if the service wants one.
Send(c) ==
  /\ client[c].pc = "ready"
  /\ SendWith(c, IF Signs(c) THEN [ath |-> client[c].token, iat |-> now] ELSE NoProof)
  /\ UNCHANGED <<asVars, engine, events>>

\* Its library sends the last proof once more instead of a new one.
SendOldProof(c) ==
  /\ client[c].pc = "ready" /\ Signs(c)
  /\ Disturb
  /\ SendWith(c, client[c].proof)
  /\ UNCHANGED <<asVars, engine>>

\* WriteChallenge, or the error of authenticate.
Deny(c, error, acr, maxAge) ==
  LET k == client[c] IN
  client' = [client EXCEPT ![c] =
    State("answered", k.wish, k.token, k.proof, Denial(c, error, acr, maxAge), <<>>, k.seen)]

\* The middleware up to its call to Provider.Introspect: ExtractBearerToken,
\* then over HTTP the proof.  The interceptors do not look at EnableDPoP.
Authenticate(c) ==
  /\ client[c].pc = "sent"
  /\ IF client[c].token = NoToken \/ (Signs(c) /\ ~ValidateDPoP(c))
     THEN /\ Deny(c, "invalid_token", NoACR, 0)
          /\ UNCHANGED asVars
     ELSE /\ Ask(c, client[c].token)
          /\ client' = [client EXCEPT ![c] = At(c, "asking")]
  /\ UNCHANGED <<engine, events>>

\* handleIntrospect.
Serve(c) ==
  /\ client[c].pc = "asking"
  /\ Lookup(c) \/ Answer(c)
  /\ UNCHANGED <<engine, client, events>>

\* Introspector.Introspect fails: the connection, its timeout, the status code
\* or the body.
IntrospectionFails(c) ==
  /\ client[c].pc = "asking"
  /\ Disturb
  /\ Leave(c)
  /\ Deny(c, "invalid_token", NoACR, 0)
  /\ UNCHANGED engine

\* The policy engine is asked, if there is one.
Judge(c) ==
  client' = [client EXCEPT ![c] =
    IF engine = NoEngine THEN At(c, "served") ELSE In(c, <<engine>>, client[c].seen)]

\* Mutant of Decide: the active flag is not looked at.
DecideInactive(c) ==
  /\ client[c].pc = "asking" /\ asking[c].pc = "answered"
  /\ IF client[c].token = Stray THEN Deny(c, "invalid_token", NoACR, 0) ELSE Judge(c)
  /\ UNCHANGED <<asVars, engine, events>>

\* The middleware from the answer on: an inactive token is challenged.
Decide(c) ==
  /\ client[c].pc = "asking" /\ asking[c].pc = "answered"
  /\ IF asking[c].answer THEN Judge(c) ELSE Deny(c, "invalid_token", NoACR, 0)
  /\ UNCHANGED <<asVars, engine, events>>

\* Evaluate panics.  net/http gives up the connection; nobody recovers in a
\* gRPC server, so the process ends with all requests in it, and starts again
\* with the policy file of that time.
Panic(c) ==
  \/ /\ Transport[c] = "http"
     /\ client' = [client EXCEPT ![c] = At(c, "lost")]
     /\ UNCHANGED engine
  \/ /\ Transport[c] = "grpc"
     /\ client' = [d \in Client |->
          IF client[d].pc \in {"sent", "asking", "deciding"} THEN At(d, "lost") ELSE client[d]]
     /\ engine' \in Config

\* What the policy engine returns: the handler runs, or the client is told
\* what the policy requires.
Evaluate(c) ==
  LET k == client[c] IN
  /\ k.pc = "deciding"
  /\ \E out \in Outcomes(k.run, PolicyRequest(c, k.token.acr), NoPolicy) :
       \/ /\ out.reason = "allowed"
          /\ client' = [client EXCEPT ![c] = At(c, "served")]
          /\ UNCHANGED engine
       \/ out.reason = "panic" /\ Panic(c)
       \/ /\ out.reason \notin {"allowed", "panic"}
          /\ Deny(c, "insufficient_user_authentication", out.policy.acr, out.policy.maxAge)
          /\ UNCHANGED engine
  /\ UNCHANGED <<asVars, events>>

\* The client notices that there will be no answer, and sends its request again.
Retry(c) ==
  /\ client[c].pc = "lost"
  /\ client' = [client EXCEPT ![c] = Between(c, "ready", client[c].wish, client[c].token)]
  /\ Leave(c)
  /\ UNCHANGED <<engine, events>>

\* The client reads a denial.  It gets itself another token, for the acr of
\* the challenge if the authentication was insufficient; an RPC that is not
\* permitted ends there.
Follow(c) ==
  LET k == client[c]
      error == Parameter(k.reply, "error", "none")
      wish == IF error = "insufficient_user_authentication"
              THEN Parameter(k.reply, "acr_values", NoACR) ELSE k.wish
      pc == IF <<"code", "PermissionDenied">> \in k.reply THEN "refused" ELSE "start"
      token == IF pc = "refused" THEN k.token ELSE NoToken
  IN
  /\ k.pc = "answered"
  /\ client' = [client EXCEPT ![c] = Between(c, pc, wish, token)]
  /\ Leave(c)
  /\ UNCHANGED <<engine, events>>

\* The client asks once more, with the token it has.
Again(c) ==
  /\ client[c].pc \in {"served", "refused"}
  /\ client' = [client EXCEPT ![c] = Between(c, "ready", client[c].wish, client[c].token)]
  /\ Leave(c)
  /\ UNCHANGED <<engine, events>>

\* Engine.Reload, which no lock keeps from a call of Evaluate in progress.
Reload(cfg) ==
  /\ Disturb
  /\ engine \notin {NoEngine, cfg}
  /\ engine' = cfg
  /\ client' = [c \in Client |->
       LET k == client[c]  seen == k.seen \cup {cfg} IN
       IF k.pc \in {"sent", "asking"}
       THEN State(k.pc, k.wish, k.token, k.proof, k.reply, <<>>, seen)
       ELSE IF k.pc = "deciding" THEN In(c, Append(k.run, cfg), seen) ELSE k]
  /\ UNCHANGED <<asVars>>

Revoke(raw) ==
  /\ Disturb
  /\ HandleRevoke(raw)
  /\ UNCHANGED <<engine, client>>

Tick == ASTick /\ UNCHANGED <<engine, client, events>>

\* What a client, the middleware and the server's handlers do by themselves.
Progress(c) ==
  \/ RequestToken(c) \/ ReceiveToken(c) \/ Send(c) \/ Authenticate(c)
  \/ Serve(c) \/ Decide(c) \/ Evaluate(c) \/ Retry(c) \/ Follow(c)

Next ==
  \/ \E c \in Client : Progress(c) \/ SendOldProof(c) \/ IntrospectionFails(c) \/ Again(c)
  \/ \E cfg \in Config : Reload(cfg)
  \/ \E raw \in Raw : Revoke(raw)
  \/ Tick

\* Every call gets a goroutine of its own, and a client goes on with what it
\* began.  Nothing makes tokens be revoked, policies be reloaded, introspection
\* fail or time pass, and the clients of the interceptors may stop anywhere:
\* no handler waits for another one's.
Fairness == \A c \in Client : Transport[c] = "http" => WF_vars(Progress(c))

Spec == Init /\ [][Next]_vars /\ Fairness

-----------------------------------------------------------------------------
\* Nobody is served on old news: the token of a request that reaches the
\* handler was active at the authorization server at some instant since the
\* request was sent, so one revoked before is refused unless it was issued
\* again, and it is authorized by the policies installed since then: by the
\* first that applies if nothing was reloaded, else by one that is for the
\* request and whose requirements it meets.
ServedJustified ==
  \A c \in Client : client[c].pc = "served" =>
    /\ TRUE \in asking[c].truths
    /\ client[c].seen # {NoEngine} =>
         Authorized(client[c].seen, PolicyRequest(c, client[c].token.acr), NoPolicy)

\* Some token the server issues would be let through, with one configuration
\* and now.
MeetableWith ==
  [cfg \in Config, c \in Client |->
     \E acr \in ACR : EvaluateConfig(cfg, PolicyRequest(c, acr), NoPolicy).reason = "allowed"]
Meetable(c) == engine # NoEngine => MeetableWith[engine, c]

\* The step-up flow comes to its end: a client over HTTP that follows the
\* challenges is served again and again, however tokens expire, are revoked,
\* proofs age, introspection fails and evaluations panic on the way, if from
\* some time on the policies ask for nothing but what the server can put into a
\* token.
StepUpConverges ==
  \A c \in Client : Transport[c] = "http" =>
    (<>[]Meetable(c) => []<>(client[c].pc = "served"))
=============================================================================
