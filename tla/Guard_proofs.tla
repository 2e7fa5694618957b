---------------------------- MODULE Guard_proofs ----------------------------
(***************************************************************************)
(* Proofs about Guard.ServeHTTP, for any number of requests in flight,     *)
(* tenants, tokens, policies, keys and events.                             *)
(*                                                                         *)
(* What goes upstream is judged by what ServeHTTP found out on the way, so *)
(* the invariant says for every point of it what has been established by   *)
(* then.  That a replay is over needs another argument: the number of a    *)
(* saved request that has not reached the browser yet is known to nobody   *)
(* else.                                                                   *)
(***************************************************************************)
EXTENDS Guard, Policy_proofs, SequenceTheorems

\* Zenon proves a leaf unless it names SMT, for arithmetic and records.
USE ZenonT(30)

\* Where ServeHTTP still needs its provider, and where it has the claims.
NeedsProvider == {"admit", "introspect", "bind"}
HasClaims ==
  {"policy", "evaluate", "cookie", "saved", "reevaluate", "complete"}

\* Where Evaluate runs, where it has allowed the request, and where there is a
\* saved one.
Evaluating == {"evaluate", "reevaluate"}
Past == {"cookie", "saved", "reevaluate", "complete"}
Replaying == {"saved", "reevaluate", "complete"}

\* At some time since request r arrived, the configurations authorized res.
WasAllowed(r, res, until) ==
  \E t \in req[r].from..until :
    Authorized(req[r].seen, PolicyRequest(res, req[r].claims, t), NoPolicy)

\* A call of Evaluate began while ServeHTTP ran and reads what was installed then.
Called(r) ==
  LET call == req[r].call IN
  /\ call.at \in req[r].from..now
  /\ \A m \in 1..Len(call.run) : call.run[m] \in req[r].seen

DidConform(r, until) ==
  \E t \in req[r].from..until : Conforms(req[r].in, req[r].claims, t)

BoundTo(r) == req[r].declared => req[r].claims.iss = IssuerOf[TenantOf(r)]

\* What ServeHTTP has established at each of its points.
Progressed(r) ==
  LET h == req[r] IN
  /\ h.pc = "idle" => h = Idle
  /\ h.pc \in NeedsProvider \cup HasClaims => TenantOf(r) \in Tenant
  /\ h.pc \in NeedsProvider => Held(r) # "absent"
  /\ h.pc \in NeedsProvider /\ h.declared =>
       Held(r) = "ready" /\ IssuerOf[TenantOf(r)] # NoIssuer
  /\ h.pc \in HasClaims => BoundTo(r) /\ DidConform(r, now)
  /\ h.pc \in Evaluating => Called(r)
  /\ h.pc \in Past => WasAllowed(r, h.in.res, now)
  /\ h.pc = "complete" => WasAllowed(r, h.jar.res, now)
  /\ h.pc \in Replaying => secret # NoSecret
  /\ h.fwd # NoForward =>
       /\ h.pc = "answer" /\ BoundTo(r) /\ DidConform(r, h.fwd.at)
       /\ WasAllowed(r, h.in.res, h.fwd.at) /\ WasAllowed(r, h.fwd.res, h.fwd.at)
       /\ h.fwd.id > 0 => h.set = Clear

\* The number of a request that no one else knows: it is in flight, or its
\* answer with the cookie is.
Mine(r) ==
  {i \in 1..MaxRequests :
     \/ req[r].pc \notin {"idle", "answer"} /\ i = req[r].n
     \/ req[r].pc = "answer" /\ req[r].set \notin {Keep, Clear} /\ i = req[r].set.id}

\* The numbers that may be known.
Known(i) ==
  \/ i \in settled
  \/ cookie # NoCookie /\ i = cookie.id
  \/ \E r \in Request : \/ req[r].jar # NoCookie /\ i = req[r].jar.id
                        \/ req[r].fwd # NoForward /\ i = req[r].fwd.id

Numbered ==
  /\ \A i \in 1..MaxRequests : Known(i) => i <= sent
  /\ \A r \in Request : \A i \in Mine(r) : i <= sent /\ ~Known(i)
  /\ \A r, x \in Request : r # x => Mine(r) \cap Mine(x) = {}

Inv == TypeOK /\ (\A r \in Request : Progressed(r)) /\ Numbered /\ ReplayIsOver

LEMMA InvImplies == Inv => TypeOK /\ ForwardAuthorized /\ TenantBound /\ ReplayIsOver
<1> SUFFICES ASSUME Inv PROVE ForwardAuthorized /\ TenantBound
  BY DEF Inv
<1>1. ForwardAuthorized
  BY SMT DEF Inv, Progressed, WasAllowed, DidConform, ForwardAuthorized
<1>2. TenantBound
  BY DEF Inv, Progressed, BoundTo, TenantBound
<1> QED BY <1>1, <1>2

-----------------------------------------------------------------------------
\* The resolvers find a tenant that can be in the registry, or none.
LEMMA ResolveFinds ==
  ASSUME NEW in \in Input
  PROVE  Resolve(in.hints) \in Tenant \cup {NoTenant}
<1> DEFINE hints == in.hints
           found == {i \in 1..Len(hints) : hints[i] # NoTenant}
<1>1. hints \in Seq(Tenant \cup {NoTenant})
  BY GuardAssumption
<1>2. \A i \in 1..Len(hints) : hints[i] \in Tenant \cup {NoTenant}
  BY SMT, <1>1
<1>3. CASE found = {}
  BY <1>3 DEF Resolve
<1>4. CASE found # {}
  <2>1. found \subseteq Nat /\ found \subseteq 1..Len(hints)
    BY SMT, <1>1
  <2>2. First(found) \in found
    <3> HIDE DEF found
    <3> QED BY <1>4, <2>1, FirstIsLeast
  <2> QED BY <1>2, <1>4, <2>1, <2>2 DEF Resolve
<1> QED BY <1>3, <1>4

LEMMA CallFields ==
  ASSUME NEW run, NEW at
  PROVE  Call(run, at).run = run /\ Call(run, at).at = at
BY SMT DEF Call

LEMMA CallTyped ==
  ASSUME NEW run \in Seq(Config), NEW at \in 0..MaxTime
  PROVE  Call(run, at) \in [run : Seq(Config), at : 0..MaxTime]
BY SMT DEF Call

LEMMA NoCallTyped == NoCall \in [run : Seq(Config), at : 0..MaxTime]
<1>1. <<>> \in Seq(Config)
  BY EmptySeq
<1>2. 0 \in 0..MaxTime
  BY SMT, GuardAssumption
<1> QED BY <1>1, <1>2, CallTyped DEF NoCall

LEMMA IdleFacts ==
  /\ Idle \in HandlerState /\ Idle.pc = "idle" /\ Idle.set = Keep /\ Idle.jar = NoCookie
  /\ Idle.fwd = NoForward
<1>1. PICK none : none = NoCall
  OBVIOUS
<1>2. none \in [run : Seq(Config), at : 0..MaxTime]
  BY <1>1, NoCallTyped
<1> QED BY SMT, <1>1, <1>2, GuardAssumption DEF Idle, Handler, HandlerState

\* The types of the fields of a handler, by the point it is at.
LEMMA FieldTypes ==
  ASSUME TypeOK, NEW r \in Request
  PROVE  LET h == req[r] IN
         /\ h \in HandlerState
         /\ h.pc \in {"idle", "answer"} \cup NeedsProvider \cup HasClaims
         /\ h.n \in 0..MaxRequests /\ h.in \in Input \cup {NoInput}
         /\ h.jar \in Saved \cup {NoCookie} /\ h.claims \in Claims \cup {NoClaims}
         /\ h.set \in {Keep, Clear} \cup Saved
         /\ h.fwd \in [id : 0..MaxRequests, res : Resource, at : 0..MaxTime] \cup {NoForward}
         /\ h.held \in {"registered", "new", "ready", "blank"} /\ h.from \in 0..MaxTime
         /\ h.call \in [run : Seq(Config), at : 0..MaxTime]
         /\ h.seen \in SUBSET Config /\ h.declared \in BOOLEAN
BY DEF TypeOK, HandlerState, NeedsProvider, HasClaims

\* The clock and the time a request was admitted at are natural numbers.
LEMMA Times ==
  ASSUME TypeOK, NEW r \in Request
  PROVE  now \in Nat /\ req[r].from \in Nat
<1>1. now \in 0..MaxTime /\ req[r].from \in 0..MaxTime
  BY FieldTypes DEF TypeOK
<1>2. MaxTime \in Nat
  BY GuardAssumption
<1> QED BY SMT, <1>1, <1>2

-----------------------------------------------------------------------------
\* What TypeOK says of one handler beyond the types of its fields.
HandlerOK(r) ==
  /\ req[r].pc \notin {"idle", "answer"} =>
       /\ req[r].in \in Input /\ req[r].from <= now /\ req[r].n \in 1..sent
       /\ req[r].fwd = NoForward /\ req[r].set = Keep /\ config \in req[r].seen
  /\ req[r].pc \in {"bind"} \cup HasClaims => req[r].claims \in Claims
  /\ req[r].pc \in Replaying => req[r].jar # NoCookie
  /\ req[r].pc \in Evaluating =>
       req[r].call.run # <<>> /\ req[r].call.run[Len(req[r].call.run)] = config

\* The numbers a handler knows after a step were known before it, and the one
\* only it knew may be forgotten.
Discreet(r) ==
  /\ Mine(r)' \subseteq Mine(r)
  /\ req'[r].jar # NoCookie => req[r].jar # NoCookie /\ req'[r].jar.id = req[r].jar.id
  /\ req'[r].fwd # NoForward =>
       \/ req'[r].fwd.id = 0
       \/ req[r].fwd # NoForward /\ req'[r].fwd.id = req[r].fwd.id
       \/ req[r].jar # NoCookie /\ req'[r].fwd.id = req[r].jar.id

LEMMA NumberedStep ==
  ASSUME Numbered, ReplayIsOver, UNCHANGED <<sent, settled, cookie>>,
         \A r \in Request : Discreet(r)
  PROVE  Numbered' /\ ReplayIsOver'
<1>1. ASSUME NEW i \in 1..MaxRequests, Known(i)'
      PROVE  Known(i)
  <2>1. CASE i \in settled' \/ (cookie' # NoCookie /\ i = cookie'.id)
    BY <2>1 DEF Known
  <2>2. ASSUME NEW r \in Request,
               \/ req'[r].jar # NoCookie /\ i = req'[r].jar.id
               \/ req'[r].fwd # NoForward /\ i = req'[r].fwd.id
        PROVE  Known(i)
    <3>1. i # 0
      BY SMT
    <3> QED BY <2>2, <3>1 DEF Known, Discreet
  <2> QED BY <1>1, <2>1, <2>2 DEF Known
<1>2. \A r \in Request : Mine(r)' \subseteq Mine(r)
  BY DEF Discreet
<1>3. \A i \in 1..MaxRequests : Known(i)' => i <= sent'
  BY <1>1 DEF Numbered
<1>4. \A r \in Request : \A i \in Mine(r)' : i <= sent' /\ ~Known(i)'
  <2> SUFFICES ASSUME NEW r \in Request, NEW i \in Mine(r)'
               PROVE  i <= sent' /\ ~Known(i)'
    OBVIOUS
  <2>1. i \in Mine(r) /\ i \in 1..MaxRequests
    BY <1>2 DEF Mine
  <2> QED BY <1>1, <2>1 DEF Numbered
<1>5. \A r, x \in Request : r # x => Mine(r)' \cap Mine(x)' = {}
  BY <1>2 DEF Numbered
<1>6. Numbered'
  BY <1>3, <1>4, <1>5 DEF Numbered
<1> QED BY <1>6 DEF ReplayIsOver

\* ServeHTTP is where it was, though perhaps with another provider and with
\* one more configuration seen.
Kept(r) ==
  LET h == req[r]  k == req'[r] IN
  /\ k.pc = h.pc /\ k.n = h.n /\ k.in = h.in /\ k.jar = h.jar /\ k.claims = h.claims
  /\ k.set = h.set /\ k.fwd = h.fwd /\ k.from = h.from /\ h.seen \subseteq k.seen
  /\ k.declared => h.declared
  /\ h.pc = "idle" => k = h
  /\ h.pc \in Evaluating => /\ k.call.at = h.call.at
                            /\ \A m \in 1..Len(k.call.run) : k.call.run[m] \in k.seen
  /\ h.pc \in NeedsProvider => Held(r)' # "absent"
  /\ h.pc \in NeedsProvider /\ k.declared => Held(r)' = "ready"

\* It has seen the new configuration, and will read it if Evaluate runs.
Current(r) ==
  /\ req[r].pc \notin {"idle", "answer"} => config' \in req'[r].seen
  /\ req[r].pc \in Evaluating =>
       req'[r].call.run # <<>> /\ req'[r].call.run[Len(req'[r].call.run)] = config'

\* What a handler has established stays, as time goes on.
LEMMA ProgressKept ==
  ASSUME Inv, NEW r \in Request, Kept(r), now' \in Nat, now <= now', secret' = secret
  PROVE  Progressed(r)'
<1> DEFINE h == req[r]
           k == req'[r]
<1>1. Progressed(r) /\ now \in Nat /\ h.from \in Nat
  BY Times DEF Inv
<1>2. /\ k.pc = h.pc /\ k.in = h.in /\ k.jar = h.jar /\ k.claims = h.claims /\ k.set = h.set
      /\ k.fwd = h.fwd /\ k.from = h.from /\ h.seen \subseteq k.seen
      /\ k.declared => h.declared
      /\ h.pc = "idle" => k = h
      /\ h.pc \in NeedsProvider => Held(r)' # "absent"
      /\ h.pc \in NeedsProvider /\ k.declared => Held(r)' = "ready"
      /\ h.pc \in Evaluating => /\ k.call.at = h.call.at
                                /\ \A m \in 1..Len(k.call.run) : k.call.run[m] \in k.seen
  BY DEF Kept
<1>3. TenantOf(r)' = TenantOf(r)
  BY <1>2 DEF TenantOf
<1>4. BoundTo(r) => BoundTo(r)'
  BY <1>2, <1>3 DEF BoundTo
<1>5. \A t \in h.from..now : t \in h.from..now'
  BY SMT, <1>1
<1>6. DidConform(r, now) => DidConform(r, now)'
  BY <1>2, <1>5 DEF DidConform
<1>0. \A q : Authorized(h.seen, q, NoPolicy) => Authorized(k.seen, q, NoPolicy)
  BY <1>2, AuthorizedMore
<1>7. WasAllowed(r, h.in.res, now) => WasAllowed(r, req[r].in.res, now)'
  BY <1>0, <1>2, <1>5 DEF WasAllowed
<1>8. WasAllowed(r, h.jar.res, now) => WasAllowed(r, req[r].jar.res, now)'
  BY <1>0, <1>2, <1>5 DEF WasAllowed
<1>10. h.pc \in Evaluating => Called(r)'
  BY <1>1, <1>2, <1>5 DEF Progressed, Called
<1>9. /\ DidConform(r, h.fwd.at) => DidConform(r, req[r].fwd.at)'
      /\ WasAllowed(r, h.in.res, h.fwd.at) => WasAllowed(r, req[r].in.res, req[r].fwd.at)'
      /\ WasAllowed(r, h.fwd.res, h.fwd.at) => WasAllowed(r, req[r].fwd.res, req[r].fwd.at)'
  BY <1>0, <1>2 DEF DidConform, WasAllowed
<1>11. /\ k.pc = "idle" => k = Idle
       /\ k.pc \in NeedsProvider \cup HasClaims => TenantOf(r)' \in Tenant
       /\ k.pc \in NeedsProvider => Held(r)' # "absent"
       /\ k.pc \in NeedsProvider /\ k.declared =>
            Held(r)' = "ready" /\ IssuerOf[TenantOf(r)'] # NoIssuer
  BY <1>1, <1>2, <1>3 DEF Progressed
<1>12. /\ k.pc \in HasClaims => BoundTo(r)' /\ DidConform(r, now)'
       /\ k.pc \in Past => WasAllowed(r, req[r].in.res, now)'
       /\ k.pc = "complete" => WasAllowed(r, req[r].jar.res, now)'
       /\ k.pc \in Replaying => secret' # NoSecret
  BY <1>1, <1>2, <1>4, <1>6, <1>7, <1>8 DEF Progressed
<1>13. k.fwd # NoForward =>
         /\ k.pc = "answer" /\ BoundTo(r)' /\ DidConform(r, req[r].fwd.at)'
         /\ WasAllowed(r, req[r].in.res, req[r].fwd.at)'
         /\ WasAllowed(r, req[r].fwd.res, req[r].fwd.at)'
         /\ k.fwd.id > 0 => k.set = Clear
  BY <1>1, <1>2, <1>4, <1>9 DEF Progressed
<1> QED BY <1>2, <1>10, <1>11, <1>12, <1>13 DEF Progressed

LEMMA ProgressUntouched ==
  ASSUME Inv, NEW r \in Request, req'[r] = req[r], UNCHANGED <<now, gateway>>
  PROVE  Progressed(r)'
<1>1. now' \in Nat /\ now <= now' /\ secret' = secret
  BY SMT, GuardAssumption DEF Inv, TypeOK, gateway
<1>2. Held(r)' = Held(r)
  BY DEF Held, TenantOf, gateway
<1>3. Kept(r)
  BY <1>2 DEF Kept, Inv, Progressed, Called
<1> QED BY <1>1, <1>3, ProgressKept

\* One request moves on: what has to be shown of it alone.
LEMMA OneStep ==
  ASSUME Inv, NEW r \in Request, NEW h \in HandlerState,
         req' = [req EXCEPT ![r] = h], UNCHANGED <<now, gateway, sent, cookie, settled>>,
         cached' \in [Token -> Claims \cup {NoClaims}],
         HandlerOK(r)', Progressed(r)', Discreet(r)
  PROVE  Inv'
<1>1. \A x \in Request \ {r} : req'[x] = req[x]
  BY DEF Inv, TypeOK
<1>2. ASSUME NEW x \in Request PROVE HandlerOK(x)'
  <2>1. CASE x = r
    BY <2>1
  <2>2. CASE x # r
    BY <1>1, <2>2
       DEF Inv, TypeOK, HandlerOK, HasClaims, Replaying, Evaluating, gateway
  <2> QED BY <2>1, <2>2
<1>3. TypeOK'
  BY <1>2 DEF Inv, TypeOK, HandlerOK, HasClaims, Replaying, Evaluating, gateway
<1>4. ASSUME NEW x \in Request PROVE Progressed(x)'
  <2>1. CASE x = r
    BY <2>1
  <2>2. CASE x # r
    BY <1>1, <2>2, ProgressUntouched
  <2> QED BY <2>1, <2>2
<1>5. ASSUME NEW x \in Request PROVE Discreet(x)
  <2>1. CASE x = r
    BY <2>1
  <2>2. CASE x # r
    BY <1>1, <2>2 DEF Discreet, Mine
  <2> QED BY <2>1, <2>2
<1>6. Numbered' /\ ReplayIsOver'
  BY <1>5, NumberedStep DEF Inv
<1> QED BY <1>3, <1>4, <1>6 DEF Inv

\* The request is over and leaves no trace.
LEMMA IdleStep ==
  ASSUME Inv, NEW r \in Request, req' = [req EXCEPT ![r] = Idle],
         UNCHANGED <<now, gateway, sent, cookie, settled>>,
         cached' \in [Token -> Claims \cup {NoClaims}]
  PROVE  Inv'
<1>1. req'[r] = Idle
  BY DEF Inv, TypeOK
<1>2. HandlerOK(r)'
  BY <1>1, IdleFacts DEF HandlerOK, HasClaims, Replaying, Evaluating
<1>3. Progressed(r)'
  BY <1>1, IdleFacts DEF Progressed, NeedsProvider, HasClaims, Past, Replaying, Evaluating
<1>4. Discreet(r)
  BY <1>1, IdleFacts DEF Discreet, Mine
<1> QED BY <1>2, <1>3, <1>4, IdleFacts, OneStep

\* ServeHTTP goes on to another of its points.
LEMMA AdvanceStep ==
  ASSUME Inv, NEW r \in Request, req[r].pc \in NeedsProvider \cup HasClaims,
         NEW pc \in NeedsProvider \cup HasClaims, NEW claims \in Claims \cup {NoClaims},
         NEW held \in {"registered", "new", "ready", "blank"},
         NEW call \in [run : Seq(Config), at : 0..MaxTime],
         req' = [req EXCEPT ![r] =
                   Handler(pc, req[r].n, req[r].in, req[r].jar, claims, req[r].set, req[r].fwd,
                           held, call, req[r].from, req[r].seen, req[r].declared)],
         UNCHANGED <<now, gateway, sent, cookie, settled>>,
         cached' \in [Token -> Claims \cup {NoClaims}],
         pc \in {"bind"} \cup HasClaims => claims \in Claims,
         pc \in NeedsProvider => req[r].pc \in NeedsProvider /\ held = req[r].held,
         pc \in HasClaims => claims = req[r].claims /\ BoundTo(r) /\ DidConform(r, now),
         pc \in Evaluating => call = Call(<<config>>, now),
         pc \in Past => WasAllowed(r, req[r].in.res, now),
         pc = "complete" => WasAllowed(r, req[r].jar.res, now),
         pc \in Replaying => secret # NoSecret /\ req[r].jar # NoCookie
  PROVE  Inv'
<1> DEFINE h == req[r]
           k == Handler(pc, h.n, h.in, h.jar, claims, h.set, h.fwd, held, call, h.from, h.seen,
                        h.declared)
<1>1. k \in HandlerState
  <2>1. pc \in {"idle", "admit", "introspect", "bind", "policy", "evaluate", "cookie", "saved",
                "reevaluate", "complete", "answer"}
    BY DEF NeedsProvider, HasClaims
  <2>2. /\ h.n \in 0..MaxRequests /\ h.in \in Input \cup {NoInput}
        /\ h.jar \in Saved \cup {NoCookie} /\ h.set \in {Keep, Clear} \cup Saved
        /\ h.fwd \in [id : 0..MaxRequests, res : Resource, at : 0..MaxTime] \cup {NoForward}
        /\ h.from \in 0..MaxTime /\ h.seen \in SUBSET Config /\ h.declared \in BOOLEAN
    BY FieldTypes DEF Inv
  <2> QED BY SMT, <2>1, <2>2 DEF Handler, HandlerState
<1>2. req'[r] = k
  BY DEF Inv, TypeOK
<1>3. /\ k.pc = pc /\ k.n = h.n /\ k.in = h.in /\ k.jar = h.jar /\ k.claims = claims
      /\ k.set = h.set /\ k.fwd = h.fwd /\ k.held = held /\ k.call = call /\ k.from = h.from
      /\ k.seen = h.seen /\ k.declared = h.declared
  BY DEF Handler
<1> HIDE DEF k
<1>4. h.pc \notin {"idle", "answer"} /\ pc \notin {"idle", "answer"}
  BY DEF NeedsProvider, HasClaims
<1>11. pc \in Evaluating => /\ call.at = now /\ call.run # <<>> /\ Len(call.run) = 1
                            /\ call.run[1] = config
  BY SMT, CallFields
<1>12. /\ h.in \in Input /\ h.from <= now /\ h.n \in 1..sent /\ h.fwd = NoForward
       /\ h.set = Keep /\ config \in h.seen
  BY <1>4 DEF Inv, TypeOK
<1>5. HandlerOK(r)'
  <2>1. UNCHANGED <<config, now, sent>>
    BY DEF gateway
  <2> QED BY <1>2, <1>3, <1>11, <1>12, <2>1 DEF HandlerOK
<1>6. /\ TenantOf(r)' = TenantOf(r) /\ (pc \in NeedsProvider => Held(r)' = Held(r))
      /\ pc \in HasClaims => BoundTo(r)'
  <2>1. TenantOf(r)' = TenantOf(r)
    BY <1>2, <1>3 DEF TenantOf
  <2>2. pc \in NeedsProvider => Held(r)' = Held(r)
    BY <1>2, <1>3, <2>1 DEF Held, gateway
  <2>3. pc \in HasClaims => BoundTo(r)'
    BY SMT, <1>2, <1>3, <2>1 DEF BoundTo
  <2> QED BY <2>1, <2>2, <2>3
<1>7. pc \in HasClaims => /\ DidConform(r, now) => DidConform(r, now)'
                          /\ WasAllowed(r, h.in.res, now) => WasAllowed(r, req[r].in.res, now)'
                          /\ WasAllowed(r, h.jar.res, now) => WasAllowed(r, req[r].jar.res, now)'
  <2>1. /\ now' = now /\ req'[r].in = h.in /\ req'[r].jar = h.jar
        /\ req'[r].from = h.from /\ req'[r].seen = h.seen
        /\ pc \in HasClaims => req'[r].claims = h.claims
    BY <1>2, <1>3
  <2>2. pc \in HasClaims /\ DidConform(r, now) => DidConform(r, now)'
    BY <2>1 DEF DidConform
  <2>3. pc \in HasClaims /\ WasAllowed(r, h.in.res, now) => WasAllowed(r, req[r].in.res, now)'
    BY <2>1 DEF WasAllowed
  <2>4. pc \in HasClaims /\ WasAllowed(r, h.jar.res, now) => WasAllowed(r, req[r].jar.res, now)'
    BY <2>1 DEF WasAllowed
  <2> QED BY <2>2, <2>3, <2>4
<1>8. pc \in Evaluating => Called(r)'
  <2>1. h.from \in Nat /\ now \in Nat
    BY Times DEF Inv
  <2>2. now \in h.from..now
    BY SMT, <1>12, <2>1
  <2>3. \A m \in 1..1 : m = 1
    BY SMT
  <2> QED BY <1>2, <1>3, <1>11, <1>12, <2>2, <2>3 DEF Called
<1>9. Progressed(r)'
  <2>1. Progressed(r)
    BY DEF Inv
  <2>2. pc \in Past \cup Replaying \cup Evaluating \cup {"complete"} => pc \in HasClaims
    BY DEF Past, Replaying, Evaluating, HasClaims
  <2> QED BY <1>2, <1>3, <1>4, <1>6, <1>7, <1>8, <1>12, <2>1, <2>2
          DEF Progressed, gateway
<1>10. Discreet(r)
  BY <1>2, <1>3, <1>4, <1>12 DEF Discreet, Mine
<1> QED BY <1>1, <1>5, <1>9, <1>10, OneStep DEF k


\* The points before the policy.
PointFacts(pc) ==
  /\ pc \in NeedsProvider /\ pc # "complete"
  /\ pc \notin HasClaims \cup Past \cup Replaying \cup Evaluating

LEMMA AtStep ==
  ASSUME Inv, NEW r \in Request, req[r].pc \in NeedsProvider \cup HasClaims,
         NEW pc \in NeedsProvider \cup HasClaims, pc \notin Evaluating,
         NEW claims \in Claims \cup {NoClaims},
         req' = [req EXCEPT ![r] = At(req[r], pc, claims)],
         UNCHANGED <<now, gateway, sent, cookie, settled>>,
         cached' \in [Token -> Claims \cup {NoClaims}],
         pc \in {"bind"} \cup HasClaims => claims \in Claims,
         pc \in NeedsProvider => req[r].pc \in NeedsProvider,
         pc \in HasClaims => claims = req[r].claims /\ BoundTo(r) /\ DidConform(r, now),
         pc \in Past => WasAllowed(r, req[r].in.res, now),
         pc = "complete" => WasAllowed(r, req[r].jar.res, now),
         pc \in Replaying => secret # NoSecret /\ req[r].jar # NoCookie
  PROVE  Inv'
<1>1. PICK call : call = NoCall
  OBVIOUS
<1>2. call \in [run : Seq(Config), at : 0..MaxTime]
  BY <1>1, NoCallTyped
<1>3. PICK held : held = req[r].held
  OBVIOUS
<1>4. held \in {"registered", "new", "ready", "blank"}
  BY <1>3, FieldTypes DEF Inv
<1>5. req' = [req EXCEPT ![r] =
                Handler(pc, req[r].n, req[r].in, req[r].jar, claims, req[r].set, req[r].fwd,
                        held, call, req[r].from, req[r].seen, req[r].declared)]
  BY <1>1, <1>3 DEF At
<1> QED BY <1>2, <1>3, <1>4, <1>5, AdvanceStep

\* ServeHTTP answers without a call upstream, and clears the cookie or sets it
\* to the request.
LEMMA RefusedStep ==
  ASSUME Inv, NEW r \in Request, req[r].pc \in NeedsProvider \cup HasClaims,
         NEW set \in {Clear} \cup Saved, set # Clear => set.id = req[r].n,
         req' = [req EXCEPT ![r] = Refused(set)],
         UNCHANGED <<now, gateway, sent, cookie, settled>>,
         cached' \in [Token -> Claims \cup {NoClaims}]
  PROVE  Inv'
<1> DEFINE k == Refused(set)
<1>1. k \in HandlerState
  <2>1. PICK none : none = NoCall
    OBVIOUS
  <2>2. none \in [run : Seq(Config), at : 0..MaxTime]
    BY <2>1, NoCallTyped
  <2> QED BY SMT, <2>1, <2>2, GuardAssumption DEF Refused, Done, Handler, HandlerState
<1>2. req'[r] = k
  BY DEF Inv, TypeOK
<1>3. k.pc = "answer" /\ k.jar = NoCookie /\ k.set = set /\ k.fwd = NoForward
  BY DEF Refused, Done, Handler
<1> HIDE DEF k
<1>4. req[r].pc \notin {"idle", "answer"}
  BY DEF NeedsProvider, HasClaims
<1>5. HandlerOK(r)'
  BY <1>2, <1>3 DEF HandlerOK, HasClaims, Replaying, Evaluating
<1>6. Progressed(r)'
  BY <1>2, <1>3 DEF Progressed, NeedsProvider, HasClaims, Past, Replaying, Evaluating
<1>7. Discreet(r)
  BY <1>2, <1>3, <1>4 DEF Discreet, Mine
<1> QED BY <1>1, <1>5, <1>6, <1>7, OneStep DEF k

LEMMA ChallengeStep ==
  ASSUME Inv, NEW r \in Request, req[r].pc \in NeedsProvider \cup HasClaims,
         NEW set \in {Keep, Clear} \cup Saved, set \notin {Keep, Clear} => set.id = req[r].n,
         Challenge(r, set), UNCHANGED <<now, gateway, sent, cookie, settled>>
  PROVE  Inv'
<1>1. cached' \in [Token -> Claims \cup {NoClaims}]
  BY DEF Challenge, Inv, TypeOK
<1>2. CASE set = Keep
  BY <1>1, <1>2, IdleStep DEF Challenge
<1>3. CASE set # Keep
  BY <1>1, <1>3, RefusedStep DEF Challenge
<1> QED BY <1>2, <1>3

\* The request goes upstream, or the saved one it carried.
LEMMA ForwardStep ==
  ASSUME Inv, NEW r \in Request, req[r].pc \in {"cookie", "complete"},
         NEW id \in 0..MaxRequests, NEW res \in Resource, Forward(r, id, res),
         UNCHANGED <<now, gateway, sent, cookie, settled>>,
         WasAllowed(r, res, now),
         id = 0 \/ (secret # NoSecret /\ req[r].jar # NoCookie /\ id = req[r].jar.id)
  PROVE  Inv'
<1> DEFINE h == req[r]
           set == IF secret = NoSecret THEN Keep ELSE Clear
           fwd == Forwarded(id, res, now)
           k == Done(h.in, h.claims, set, fwd, h.from, h.seen, h.declared)
<1>1. k \in HandlerState
  <2>1. /\ h.in \in Input \cup {NoInput} /\ h.claims \in Claims \cup {NoClaims}
        /\ h.from \in 0..MaxTime /\ h.seen \in SUBSET Config /\ h.declared \in BOOLEAN
    BY FieldTypes DEF Inv
  <2>2. fwd \in [id : 0..MaxRequests, res : Resource, at : 0..MaxTime]
    BY DEF Forwarded, Inv, TypeOK
  <2>3. PICK none : none = NoCall
    OBVIOUS
  <2>4. none \in [run : Seq(Config), at : 0..MaxTime]
    BY <2>3, NoCallTyped
  <2> HIDE DEF fwd
  <2> QED BY SMT, <2>1, <2>2, <2>3, <2>4, GuardAssumption DEF Done, Handler, HandlerState
<1>2. req'[r] = k /\ cached' = cached
  BY DEF Inv, TypeOK, Forward
<1>3. /\ k.pc = "answer" /\ k.in = h.in /\ k.jar = NoCookie /\ k.claims = h.claims
      /\ k.set = set /\ k.fwd = fwd /\ k.from = h.from /\ k.seen = h.seen
      /\ k.declared = h.declared
  BY DEF Done, Handler
<1>4. fwd.id = id /\ fwd.res = res /\ fwd.at = now
  BY DEF Forwarded
<1>5. req' = [req EXCEPT ![r] = k]
  BY DEF Forward
<1> HIDE DEF k, fwd
<1>6. HandlerOK(r)'
  BY <1>2, <1>3 DEF HandlerOK, HasClaims, Replaying, Evaluating
<1>7. Progressed(r)'
  <2>1. /\ BoundTo(r) /\ DidConform(r, now) /\ WasAllowed(r, h.in.res, now)
    BY DEF Inv, Progressed, HasClaims, Past
  <2>2. BoundTo(r)'
    BY <1>2, <1>3, <2>1 DEF BoundTo, TenantOf
  <2>3. DidConform(r, req[r].fwd.at)'
    BY <1>2, <1>3, <1>4, <2>1 DEF DidConform
  <2>4. WasAllowed(r, req[r].in.res, req[r].fwd.at)'
    BY <1>2, <1>3, <1>4, <2>1 DEF WasAllowed
  <2>5. WasAllowed(r, req[r].fwd.res, req[r].fwd.at)'
    BY <1>2, <1>3, <1>4 DEF WasAllowed
  <2>6. req'[r].fwd.id > 0 => req'[r].set = Clear
    BY SMT, <1>2, <1>3, <1>4
  <2> QED BY <1>2, <1>3, <2>2, <2>3, <2>4, <2>5, <2>6
          DEF Progressed, NeedsProvider, HasClaims, Past, Replaying, Evaluating
<1>8. Discreet(r)
  BY <1>2, <1>3, <1>4 DEF Discreet, Mine
<1> QED BY <1>1, <1>2, <1>5, <1>6, <1>7, <1>8, OneStep DEF Inv, TypeOK


-----------------------------------------------------------------------------
\* The points of ServeHTTP, one by one.
LEMMA AdmitStep ==
  ASSUME Inv, NEW r \in Request, Admit(r), UNCHANGED <<now, gateway, sent, cookie, settled>>
  PROVE  Inv'
<1> DEFINE k == req[r].in.token
<1>1. /\ req[r].pc \in NeedsProvider /\ k \in Token
      /\ req[r].held \in {"registered", "new", "ready", "blank"}
  BY GuardAssumption, FieldTypes DEF Admit, Inv, TypeOK, NeedsProvider
<1>2. cached \in [Token -> Claims \cup {NoClaims}]
  BY DEF Inv, TypeOK
<1>3. CASE /\ cached[k] # NoClaims
           /\ req' = [req EXCEPT ![r] = At(req[r], "bind", cached[k])]
           /\ UNCHANGED cached
  <2>1. cached[k] \in Claims /\ cached' \in [Token -> Claims \cup {NoClaims}]
    BY <1>1, <1>2, <1>3
  <2>2. PointFacts("bind")
    BY DEF PointFacts, NeedsProvider, HasClaims, Past, Replaying, Evaluating
  <2> QED BY <1>1, <1>3, <2>1, <2>2, AtStep DEF PointFacts
<1>4. CASE /\ req' = [req EXCEPT ![r] = At(req[r], "introspect", NoClaims)]
           /\ cached' = [cached EXCEPT ![k] = NoClaims]
  <2>1. cached' \in [Token -> Claims \cup {NoClaims}]
    BY <1>1, <1>2, <1>4
  <2>2. PointFacts("introspect")
    BY DEF PointFacts, NeedsProvider, HasClaims, Past, Replaying, Evaluating
  <2> QED BY <1>1, <1>4, <2>1, <2>2, AtStep DEF PointFacts
<1> QED BY <1>3, <1>4 DEF Admit

LEMMA IntrospectStep ==
  ASSUME Inv, NEW r \in Request, Introspect(r), UNCHANGED <<now, gateway, sent, cookie, settled>>
  PROVE  Inv'
<1> DEFINE t == TenantOf(r)
           k == req[r].in.token
<1>1. /\ req[r].pc \in NeedsProvider /\ k \in Token /\ t \in Tenant
      /\ req[r].held \in {"registered", "new", "ready", "blank"}
  BY GuardAssumption, FieldTypes DEF Introspect, Inv, TypeOK, Progressed, NeedsProvider
<1>2. cached \in [Token -> Claims \cup {NoClaims}]
  BY DEF Inv, TypeOK
<1>3. CASE Challenge(r, Keep)
  BY <1>1, <1>3, ChallengeStep
<1>4. CASE /\ Vouches[t][k] # NoClaims
           /\ cached' = [cached EXCEPT ![k] = Vouches[t][k]]
           /\ req' = [req EXCEPT ![r] = At(req[r], "bind", Vouches[t][k])]
  <2>1. Vouches[t][k] \in Claims
    BY <1>1, <1>4, GuardAssumption
  <2>2. cached' \in [Token -> Claims \cup {NoClaims}]
    BY <1>2, <1>4, <2>1
  <2>3. PointFacts("bind")
    BY DEF PointFacts, NeedsProvider, HasClaims, Past, Replaying, Evaluating
  <2> QED BY <1>1, <1>4, <2>1, <2>2, <2>3, AtStep DEF PointFacts
<1> QED BY <1>3, <1>4 DEF Introspect

LEMMA BindStep ==
  ASSUME Inv, NEW r \in Request, Bind(r), UNCHANGED <<now, gateway, sent, cookie, settled>>
  PROVE  Inv'
<1> DEFINE h == req[r]
           iss == Issuer(Held(r), TenantOf(r))
<1>1. h.pc \in NeedsProvider /\ h.claims \in Claims /\ h.from \in Nat /\ h.from <= now
  BY SMT, GuardAssumption, FieldTypes DEF Bind, Inv, TypeOK, NeedsProvider
<1>2. CASE Challenge(r, Keep)
  BY <1>1, <1>2, ChallengeStep
<1>3. CASE /\ iss \in {NoIssuer, h.claims.iss} /\ Conforms(h.in, h.claims, now)
           /\ Bound(r)
  <2>1. BoundTo(r)
    <3>1. h.declared => Held(r) = "ready" /\ IssuerOf[TenantOf(r)] # NoIssuer
      BY <1>1 DEF Inv, Progressed
    <3> QED BY <1>3, <3>1 DEF BoundTo, Issuer
  <2>2. DidConform(r, now)
    <3>1. now \in h.from..now
      BY SMT, <1>1, GuardAssumption DEF Inv, TypeOK
    <3> QED BY <1>3, <3>1 DEF DidConform
  <2>3. req' = [req EXCEPT ![r] =
                  Handler("policy", h.n, h.in, h.jar, h.claims, h.set, h.fwd, "registered",
                          NoCall, h.from, h.seen, h.declared)]
    <3>1. At(With(h, "registered", h.declared), "policy", h.claims) =
            Handler("policy", h.n, h.in, h.jar, h.claims, h.set, h.fwd, "registered",
                    NoCall, h.from, h.seen, h.declared)
      BY DEF At, With, Handler
    <3> QED BY <1>3, <3>1 DEF Bound
  <2>4. cached' \in [Token -> Claims \cup {NoClaims}]
    BY <1>3 DEF Bound, Inv, TypeOK
  <2>5. /\ "policy" \in HasClaims /\ "policy" \notin NeedsProvider
        /\ "policy" \notin Past \cup Replaying \cup Evaluating
    BY DEF NeedsProvider, HasClaims, Past, Replaying, Evaluating
  <2>10. PICK call : call = NoCall
    OBVIOUS
  <2>6. PICK pc : pc = "policy"
    OBVIOUS
  <2>7. PICK held : held = "registered"
    OBVIOUS
  <2>8. /\ pc \in NeedsProvider \cup HasClaims /\ pc \notin NeedsProvider
        /\ pc \notin Past \cup Replaying \cup Evaluating /\ pc # "complete"
        /\ held \in {"registered", "new", "ready", "blank"}
        /\ call \in [run : Seq(Config), at : 0..MaxTime]
    BY <2>5, <2>6, <2>7, <2>10, NoCallTyped
  <2>9. req' = [req EXCEPT ![r] =
                  Handler(pc, req[r].n, req[r].in, req[r].jar, req[r].claims, req[r].set,
                          req[r].fwd, held, call, req[r].from, req[r].seen, req[r].declared)]
    BY <2>3, <2>6, <2>7, <2>10
  <2> QED BY <1>1, <2>1, <2>2, <2>4, <2>8, <2>9, AdvanceStep
<1> QED BY <1>2, <1>3 DEF Bind

\* The policy.Request is built and Evaluate called.
LEMMA AskStep ==
  ASSUME Inv, NEW r \in Request, req[r].pc \in HasClaims, NEW pc \in Evaluating, Ask(r, pc),
         UNCHANGED <<now, gateway, sent, cookie, settled>>,
         pc = "reevaluate" => req[r].pc = "saved"
  PROVE  Inv'
<1>1. pc \in HasClaims /\ pc \notin NeedsProvider /\ pc # "complete"
  BY DEF NeedsProvider, HasClaims, Evaluating
<1>2. req[r].claims \in Claims /\ BoundTo(r) /\ DidConform(r, now)
  BY DEF Inv, TypeOK, Progressed, HasClaims
<1>3. pc \in Past \cup Replaying =>
        WasAllowed(r, req[r].in.res, now) /\ secret # NoSecret /\ req[r].jar # NoCookie
  BY DEF Inv, TypeOK, Progressed, Past, Replaying, Evaluating
<1>4. PICK call : call = Call(<<config>>, now)
  OBVIOUS
<1>5. call \in [run : Seq(Config), at : 0..MaxTime]
  <2>1. now \in 0..MaxTime /\ config \in Config
    BY DEF Inv, TypeOK
  <2>2. <<config>> \in Seq(Config)
    BY SMT, <2>1
  <2> QED BY <1>4, <2>1, <2>2, CallTyped
<1>6. PICK held : held = req[r].held
  OBVIOUS
<1>7. held \in {"registered", "new", "ready", "blank"}
  BY <1>6, FieldTypes DEF Inv
<1>8. req' = [req EXCEPT ![r] =
                Handler(pc, req[r].n, req[r].in, req[r].jar, req[r].claims, req[r].set,
                        req[r].fwd, held, call, req[r].from, req[r].seen, req[r].declared)]
  BY <1>4, <1>6 DEF Ask, In
<1>9. cached' \in [Token -> Claims \cup {NoClaims}]
  BY DEF Ask, Inv, TypeOK
<1> QED BY <1>1, <1>2, <1>3, <1>4, <1>5, <1>7, <1>8, <1>9, AdvanceStep

\* A decision of the policy engine, while ServeHTTP runs.
LEMMA AllowedOut ==
  ASSUME Inv, NEW r \in Request, req[r].pc \in Evaluating, NEW res,
         NEW out \in Results(r, res), out.reason = "allowed"
  PROVE  WasAllowed(r, res, now)
<1> DEFINE h == req[r]
<1>1. PICK run, at : run = h.call.run /\ at = h.call.at
  OBVIOUS
<1>2. PICK q : q = PolicyRequest(res, h.claims, at)
  OBVIOUS
<1>3. h.pc \in HasClaims /\ Called(r)
  BY DEF Inv, Progressed, Evaluating, HasClaims
<1>4. h.claims \in Claims
  BY <1>3 DEF Inv, TypeOK, HasClaims
<1>5. run \in Seq(Config) /\ at \in 0..MaxTime
  <2>1. h.call \in [run : Seq(Config), at : 0..MaxTime]
    BY FieldTypes DEF Inv
  <2> QED BY <1>1, <2>1
<1>6. Len(run) \in Nat /\ \A m \in 1..Len(run) : run[m] \in Config
  BY SMT, <1>5
<1>7. \A m \in 1..Len(run) : WellFormed(run[m])
  BY <1>6, GuardAssumption
<1>8. q.authAge \in Int
  <2>1. q.authAge = AuthAge(h.claims, at)
    BY SMT, <1>2 DEF PolicyRequest
  <2>2. h.claims.authTime = Unknown \/ h.claims.authTime \in Int
    BY <1>4, GuardAssumption
  <2>3. AuthAge(h.claims, at) \in Int
    BY SMT, <1>5, <2>2 DEF AuthAge
  <2> QED BY <2>1, <2>3
<1>9. out \in Outcomes(run, q, NoPolicy)
  BY <1>1, <1>2 DEF Results
<1>10. \A m \in 1..Len(run) : run[m] \in h.seen
  BY <1>1, <1>3 DEF Called
<1>11. Authorized(h.seen, q, NoPolicy)
  BY <1>6, <1>7, <1>8, <1>9, <1>10, AllowedIsAuthorized
<1> QED BY <1>1, <1>2, <1>3, <1>11 DEF WasAllowed, Called

\* Goto: the claims are kept, and so is what was established with them.
LEMMA GotoStep ==
  ASSUME Inv, NEW r \in Request, req[r].pc \in HasClaims,
         NEW pc \in {"cookie", "saved", "complete"}, Goto(r, pc),
         UNCHANGED <<now, gateway, sent, cookie, settled>>,
         WasAllowed(r, req[r].in.res, now),
         pc = "complete" => WasAllowed(r, req[r].jar.res, now),
         pc \in {"saved", "complete"} => secret # NoSecret /\ req[r].jar # NoCookie
  PROVE  Inv'
<1>1. /\ pc \in HasClaims /\ pc \notin NeedsProvider \cup Evaluating
      /\ pc \in Replaying => pc \in {"saved", "complete"}
  BY DEF NeedsProvider, HasClaims, Evaluating, Replaying
<1>2. req[r].claims \in Claims
  BY DEF Inv, TypeOK, HasClaims
<1>3. BoundTo(r) /\ DidConform(r, now)
  BY DEF Inv, Progressed
<1>4. cached' \in [Token -> Claims \cup {NoClaims}]
  BY DEF Goto, Inv, TypeOK
<1> QED BY <1>1, <1>2, <1>3, <1>4, AtStep DEF Goto

LEMMA EvaluateStep ==
  ASSUME Inv, NEW r \in Request, Evaluate(r), UNCHANGED <<now, gateway, sent, cookie, settled>>
  PROVE  Inv'
<1> DEFINE h == req[r]
<1>1. h.pc \in HasClaims /\ h.pc \in Evaluating
  BY DEF Evaluate, HasClaims, Evaluating
<1>2. ASSUME NEW out \in Results(r, h.in.res), out.reason = "allowed", Goto(r, "cookie")
      PROVE  Inv'
  <2>1. WasAllowed(r, h.in.res, now)
    BY <1>1, <1>2, AllowedOut
  <2> QED BY <1>1, <1>2, <2>1, GotoStep
<1>3. CASE Challenge(r, Keep)
  BY <1>1, <1>3, ChallengeStep
<1>4. CASE SetStateCookie(r)
  <2> DEFINE set == SavedRequest(h.n, h.in.res, now, secret)
  <2>1. set \in Saved /\ set.id = h.n
    <3>1. h.in \in Input /\ h.n \in 1..MaxRequests
      <4>1. h.pc \notin {"idle", "answer"}
        BY <1>1 DEF Evaluating
      <4> QED BY SMT, <4>1, GuardAssumption DEF Inv, TypeOK
    <3>2. h.in.res \in Resource
      BY <3>1 DEF Resource
    <3> QED BY <3>1, <3>2 DEF SavedRequest, Saved, Inv, TypeOK
  <2> HIDE DEF set
  <2>2. Challenge(r, set)
    BY <1>4 DEF SetStateCookie, set
  <2> QED BY <1>1, <2>1, <2>2, ChallengeStep
<1> QED BY <1>2, <1>3, <1>4 DEF Evaluate

LEMMA ReplayOrForwardStep ==
  ASSUME Inv, NEW r \in Request, ReplayOrForward(r),
         UNCHANGED <<now, gateway, sent, cookie, settled>>
  PROVE  Inv'
<1> DEFINE h == req[r]
<1>1. h.pc \in HasClaims /\ h.pc = "cookie"
  BY DEF ReplayOrForward, HasClaims
<1>2. WasAllowed(r, h.in.res, now)
  BY <1>1 DEF Inv, Progressed, Past
<1>3. CASE secret # NoSecret /\ ReadStateCookie(h.jar) /\ Goto(r, "saved")
  BY <1>1, <1>2, <1>3, GotoStep DEF ReadStateCookie
<1>4. CASE Forward(r, 0, h.in.res)
  <2>1. h.in.res \in Resource /\ 0 \in 0..MaxRequests
    BY SMT, <1>1, GuardAssumption DEF Inv, TypeOK, Resource
  <2> QED BY <1>1, <1>2, <1>4, <2>1, ForwardStep
<1> QED BY <1>3, <1>4 DEF ReplayOrForward

LEMMA EvaluateSavedStep ==
  ASSUME Inv, NEW r \in Request, EvaluateSaved(r),
         UNCHANGED <<now, gateway, sent, cookie, settled>>
  PROVE  Inv'
<1> DEFINE h == req[r]
<1>1. h.pc \in HasClaims /\ h.pc \in Evaluating /\ h.pc = "reevaluate"
  BY DEF EvaluateSaved, HasClaims, Evaluating
<1>2. /\ WasAllowed(r, h.in.res, now) /\ secret # NoSecret /\ h.jar # NoCookie
  BY <1>1 DEF Inv, TypeOK, Progressed, Past, Replaying
<1>3. ASSUME NEW out \in Results(r, h.jar.res), out.reason = "allowed", Goto(r, "complete")
      PROVE  Inv'
  <2>1. WasAllowed(r, h.jar.res, now)
    BY <1>1, <1>3, AllowedOut
  <2> QED BY <1>1, <1>2, <1>3, <2>1, GotoStep
<1>4. CASE Challenge(r, Clear) \/ Challenge(r, Keep)
  BY <1>1, <1>4, ChallengeStep
<1> QED BY <1>3, <1>4 DEF EvaluateSaved

LEMMA CompleteStep ==
  ASSUME Inv, NEW r \in Request, Complete(r), UNCHANGED <<now, gateway, sent, cookie, settled>>
  PROVE  Inv'
<1> DEFINE h == req[r]
<1>1. h.pc \in HasClaims /\ h.pc = "complete"
  BY DEF Complete, HasClaims
<1>2. /\ WasAllowed(r, h.jar.res, now) /\ secret # NoSecret /\ h.jar # NoCookie
  BY <1>1 DEF Inv, TypeOK, Progressed, Replaying
<1>3. CASE Challenge(r, Clear)
  BY <1>1, <1>3, ChallengeStep
<1>4. CASE Forward(r, h.jar.id, h.jar.res)
  <2>1. h.jar \in Saved
    BY <1>2, FieldTypes DEF Inv
  <2>2. h.jar.id \in 0..MaxRequests /\ h.jar.res \in Resource
    BY SMT, <2>1 DEF Saved
  <2> QED BY <1>1, <1>2, <1>4, <2>2, ForwardStep
<1> QED BY <1>3, <1>4 DEF Complete

LEMMA HandleStep ==
  ASSUME Inv, NEW r \in Request, Handle(r)
  PROVE  Inv'
<1>1. UNCHANGED <<now, gateway, sent, cookie, settled>>
  BY DEF Handle
<1>2. CASE Refuse(r)
  BY <1>1, <1>2, ChallengeStep DEF Refuse, NeedsProvider
<1>3. CASE Lose(r)
  BY <1>1, <1>3, IdleStep DEF Lose, Inv, TypeOK
<1>4. CASE BeginEvaluate(r)
  BY <1>1, <1>4, AskStep DEF BeginEvaluate, HasClaims, Evaluating
<1>5. CASE BeginEvaluateSaved(r)
  BY <1>1, <1>5, AskStep DEF BeginEvaluateSaved, HasClaims, Evaluating
<1> QED BY <1>1, <1>2, <1>3, <1>4, <1>5, AdmitStep, IntrospectStep, BindStep, EvaluateStep,
           ReplayOrForwardStep, EvaluateSavedStep, CompleteStep DEF Handle


-----------------------------------------------------------------------------
\* The gateway changes around the requests.
LEMMA GatewayStep ==
  ASSUME Inv, UNCHANGED <<secret, cookie, sent, settled, cached>>,
         now' \in 0..MaxTime, now <= now', config' \in Config, events' \in 0..MaxEvents,
         provider' \in [Tenant -> {"absent", "new", "ready", "blank"}],
         req' \in [Request -> HandlerState],
         \A r \in Request : Kept(r) /\ Current(r)
  PROVE  Inv'
<1>1. ASSUME NEW r \in Request PROVE HandlerOK(r)'
  <2>1. req[r].from \in Nat /\ now \in Nat /\ now' \in Nat
    BY SMT, FieldTypes, GuardAssumption DEF Inv, TypeOK
  <2>2. req[r].from <= now => req[r].from <= now'
    BY SMT, <2>1
  <2>3. HandlerOK(r)
    BY DEF Inv, TypeOK, HandlerOK, HasClaims, Replaying, Evaluating
  <2> QED BY <2>2, <2>3 DEF Kept, Current, HandlerOK
<1>2. TypeOK'
  BY <1>1 DEF Inv, TypeOK, HandlerOK, HasClaims, Replaying, Evaluating
<1>3. \A r \in Request : Progressed(r)'
  BY SMT, ProgressKept, GuardAssumption
<1>4. \A r \in Request : Discreet(r)
  BY SMT DEF Kept, Discreet, Mine
<1>5. Numbered' /\ ReplayIsOver'
  BY <1>4, NumberedStep DEF Inv
<1> QED BY <1>2, <1>3, <1>5 DEF Inv

\* A handler that keeps its provider.
LEMMA UntouchedKept ==
  ASSUME Inv, NEW r \in Request, req'[r] = req[r], config' = config,
         req[r].pc \in NeedsProvider => Held(r)' = Held(r)
  PROVE  /\ req'[r] \in HandlerState /\ Kept(r) /\ Current(r)
<1>1. req[r].pc \in NeedsProvider =>
        Held(r) # "absent" /\ (req[r].declared => Held(r) = "ready")
  BY DEF Inv, Progressed
<1>2. req[r].pc \in Evaluating =>
        \A m \in 1..Len(req[r].call.run) : req[r].call.run[m] \in req[r].seen
  BY DEF Inv, Progressed, Called
<1>3. Kept(r)
  BY <1>1, <1>2 DEF Kept
<1>4. HandlerOK(r)
  BY DEF Inv, TypeOK, HandlerOK, HasClaims, Replaying, Evaluating
<1>5. Current(r)
  BY <1>4 DEF HandlerOK, Current
<1> QED BY <1>3, <1>5 DEF Inv, TypeOK

LEMMA TickStep ==
  ASSUME Inv, Tick
  PROVE  Inv'
<1>1. now' \in 0..MaxTime /\ now <= now'
  BY SMT, GuardAssumption DEF Tick, Inv, TypeOK
<1>2. \A r \in Request : Kept(r) /\ Current(r)
  BY UntouchedKept DEF Tick, gateway, Held, TenantOf
<1> QED BY <1>1, <1>2, GatewayStep DEF Tick, gateway, Inv, TypeOK

LEMMA ReloadStep ==
  ASSUME Inv, NEW cfg \in Config, Reload(cfg)
  PROVE  Inv'
<1>1. ASSUME NEW r \in Request
      PROVE  /\ req'[r] \in HandlerState /\ Kept(r) /\ Current(r)
  <2> DEFINE h == req[r]
  <2>1. CASE h.pc \in {"idle", "answer"}
    <3>1. req'[r] = h
      BY <2>1 DEF Reload
    <3>2. h.pc \notin NeedsProvider \cup Evaluating
      BY <2>1 DEF NeedsProvider, Evaluating
    <3> QED BY <2>1, <3>1, <3>2, FieldTypes DEF Kept, Current, Inv
  <2>2. CASE h.pc \notin {"idle", "answer"}
    <3>0. PICK run, at : run = h.call.run /\ at = h.call.at
      OBVIOUS
    <3>8. PICK longer : longer = Append(run, cfg)
      OBVIOUS
    <3>1. PICK call : call = IF h.pc \in Evaluating THEN Call(longer, at) ELSE h.call
      OBVIOUS
    <3>2. PICK seen : seen = h.seen \cup {cfg}
      OBVIOUS
    <3>3. PICK k : k = Handler(h.pc, h.n, h.in, h.jar, h.claims, h.set, h.fwd, h.held, call,
                               h.from, seen, h.declared)
      OBVIOUS
    <3>4. req'[r] = k /\ config' = cfg /\ UNCHANGED provider
      BY <2>2, <3>0, <3>1, <3>2, <3>3, <3>8 DEF Reload, In, Evaluating
    <3>5. h.call \in [run : Seq(Config), at : 0..MaxTime]
      BY FieldTypes DEF Inv
    <3>6. run \in Seq(Config) /\ at \in 0..MaxTime
      BY <3>0, <3>5
    <3>7. /\ longer \in Seq(Config) /\ longer # <<>>
          /\ Len(longer) = Len(run) + 1 /\ longer[Len(run) + 1] = cfg
          /\ \A m \in 1..Len(run) : longer[m] = run[m]
      BY SMT, <3>6, <3>8, AppendProperties
    <3>9. call \in [run : Seq(Config), at : 0..MaxTime]
      <4>1. Call(longer, at) \in [run : Seq(Config), at : 0..MaxTime]
        BY <3>6, <3>7, CallTyped
      <4> QED BY <3>1, <3>5, <4>1
    <3>10. h.pc \in Evaluating => call.run = longer /\ call.at = h.call.at
      <4>1. Call(longer, at).run = longer /\ Call(longer, at).at = at
        BY SMT, CallFields
      <4> QED BY <3>0, <3>1, <4>1
    <3>11. k \in HandlerState
      <4>1. seen \in SUBSET Config
        BY <3>2, FieldTypes DEF Inv
      <4> QED BY <3>3, <3>9, <4>1, FieldTypes
              DEF Handler, HandlerState, NeedsProvider, HasClaims, Inv
    <3>12. /\ k.pc = h.pc /\ k.n = h.n /\ k.in = h.in /\ k.jar = h.jar /\ k.claims = h.claims
           /\ k.set = h.set /\ k.fwd = h.fwd /\ k.from = h.from /\ k.held = h.held
           /\ k.call = call /\ k.seen = seen /\ k.declared = h.declared
      BY SMT, <3>3 DEF Handler
    <3>13. Held(r)' = Held(r)
      BY <3>4, <3>12 DEF Held, TenantOf
    <3>14. h.pc \in NeedsProvider => Held(r) # "absent" /\ (h.declared => Held(r) = "ready")
      BY DEF Inv, Progressed
    <3>15. h.pc \in Evaluating => \A m \in 1..Len(longer) : longer[m] \in seen
      <4>1. h.pc \in Evaluating => \A m \in 1..Len(run) : run[m] \in h.seen
        BY <3>0 DEF Inv, Progressed, Called
      <4>2. \A m \in 1..Len(longer) : m \in 1..Len(run) \/ m = Len(run) + 1
        BY SMT, <3>6, <3>7, <3>8
      <4> QED BY <3>2, <3>7, <3>8, <4>1, <4>2
    <3>16. Kept(r)
      BY <2>2, <3>2, <3>4, <3>10, <3>12, <3>13, <3>14, <3>15 DEF Kept
    <3>17. Current(r)
      BY <3>2, <3>4, <3>7, <3>8, <3>10, <3>12 DEF Current
    <3> QED BY <3>4, <3>11, <3>16, <3>17
  <2> QED BY <2>1, <2>2
<1>2. req' \in [Request -> HandlerState]
  <2>1. req' = [r \in Request |-> req'[r]]
    BY DEF Reload
  <2> QED BY <1>1, <2>1
<1>3. now' \in 0..MaxTime /\ now <= now' /\ events' \in 0..MaxEvents
  BY SMT, GuardAssumption DEF Reload, Inv, TypeOK
<1> QED BY <1>1, <1>2, <1>3, GatewayStep DEF Reload, Inv, TypeOK

\* A handler whose provider is replaced or refreshed.
LEMMA WithKept ==
  ASSUME Inv, NEW r \in Request, NEW held \in {"registered", "new", "ready", "blank"},
         NEW declared \in BOOLEAN, declared => req[r].declared,
         req[r].pc \in NeedsProvider,
         req'[r] = With(req[r], held, declared), config' = config,
         Held(r)' # "absent", declared => Held(r)' = "ready"
  PROVE  /\ req'[r] \in HandlerState /\ Kept(r) /\ Current(r)
<1> DEFINE h == req[r]
           k == With(h, held, declared)
<1>1. k \in HandlerState
  BY SMT, FieldTypes DEF With, Handler, HandlerState, NeedsProvider, HasClaims, Inv
<1>2. /\ k.pc = h.pc /\ k.n = h.n /\ k.in = h.in /\ k.jar = h.jar /\ k.claims = h.claims
      /\ k.set = h.set /\ k.fwd = h.fwd /\ k.from = h.from
      /\ k.seen = h.seen /\ k.declared = declared
  BY DEF With, Handler
<1> HIDE DEF k
<1>3. h.pc # "idle" /\ h.pc \notin Evaluating
  BY DEF NeedsProvider, Evaluating
<1>4. req'[r] = k
  BY DEF k
<1>5. Kept(r)
  BY <1>2, <1>3, <1>4 DEF Kept
<1>6. Current(r)
  BY <1>2, <1>3, <1>4 DEF Inv, TypeOK, Current
<1> QED BY <1>1, <1>4, <1>5, <1>6


LEMMA ReplaceStep ==
  ASSUME Inv, NEW t \in Tenant, NEW p \in {"new", "absent"}, Replace(t, p)
  PROVE  Inv'
<1>1. provider \in [Tenant -> {"absent", "new", "ready", "blank"}] /\ config' = config
  BY DEF Inv, TypeOK, Replace
<1>2. provider' = [provider EXCEPT ![t] = p]
  BY DEF Replace
<1>3. ASSUME NEW r \in Request
      PROVE  /\ req'[r] \in HandlerState /\ Kept(r) /\ Current(r)
  <2> DEFINE h == req[r]
  <2>1. CASE r \in Holding(t, "registered")
    <3>1. /\ h.pc \in NeedsProvider /\ TenantOf(r) = t /\ h.held = "registered"
          /\ req'[r] = With(h, provider[t], h.declared)
      BY <2>1 DEF Holding, NeedsProvider, Replace
    <3>2. Held(r) = provider[t] /\ Held(r) # "absent" /\ (h.declared => Held(r) = "ready")
      BY <3>1 DEF Held, Inv, Progressed
    <3>3. provider[t] \in {"registered", "new", "ready", "blank"} /\ h.declared \in BOOLEAN
      BY <1>1, <3>2, FieldTypes DEF Inv
    <3>4. req'[r].held = provider[t] /\ provider[t] # "registered"
      BY SMT, <1>1, <3>1 DEF With, Handler
    <3>5. Held(r)' = provider[t]
      BY <3>4 DEF Held
    <3> QED BY <1>1, <3>1, <3>2, <3>3, <3>5, WithKept
  <2>2. CASE r \notin Holding(t, "registered")
    <3>1. req'[r] = h
      BY <2>2 DEF Replace
    <3>2. h.pc \in NeedsProvider => TenantOf(r) # t \/ h.held # "registered"
      BY <2>2 DEF Holding, NeedsProvider
    <3>3. h.pc \in NeedsProvider => TenantOf(r) \in Tenant
      BY DEF Inv, Progressed
    <3>4. h.pc \in NeedsProvider => Held(r)' = Held(r)
      BY <1>1, <1>2, <3>1, <3>2, <3>3 DEF Held, TenantOf
    <3> QED BY <1>1, <3>1, <3>4, UntouchedKept
  <2> QED BY <2>1, <2>2
<1>4. req' \in [Request -> HandlerState]
  <2>1. req' = [r \in Request |-> req'[r]]
    BY DEF Replace
  <2> QED BY <1>3, <2>1
<1>5. now' \in 0..MaxTime /\ now <= now' /\ events' \in 0..MaxEvents
  BY SMT, GuardAssumption DEF Replace, Inv, TypeOK
<1>6. provider' \in [Tenant -> {"absent", "new", "ready", "blank"}]
  BY <1>1, <1>2
<1> QED BY <1>3, <1>4, <1>5, <1>6, GatewayStep DEF Replace, Inv, TypeOK

LEMMA RefreshStep ==
  ASSUME Inv, NEW t \in Tenant, NEW doc \in {"ready", "blank"}, RefreshConfig(t, doc)
  PROVE  Inv'
<1>1. provider \in [Tenant -> {"absent", "new", "ready", "blank"}] /\ config' = config
  BY DEF Inv, TypeOK, RefreshConfig
<1>2. now' \in 0..MaxTime /\ now <= now' /\ events' \in 0..MaxEvents
  BY SMT, GuardAssumption DEF RefreshConfig, Inv, TypeOK
<1> DEFINE Goal ==
        /\ provider' \in [Tenant -> {"absent", "new", "ready", "blank"}]
        /\ req' = [r \in Request |-> req'[r]]
        /\ \A r \in Request : /\ req'[r] \in HandlerState /\ Kept(r) /\ Current(r)
<1>3. SUFFICES Goal
  <2>1. req' \in [Request -> HandlerState]
    BY <1>3
  <2> QED BY <1>2, <1>3, <2>1, GatewayStep DEF RefreshConfig, Inv, TypeOK
<1>4. ASSUME NEW r \in Request, NEW held \in {"registered", "new", "ready", "blank"},
             r \in Holding(t, held), NEW to \in {"registered", doc},
             req'[r] = With(req[r], to, req[r].declared /\ doc = "ready"),
             Held(r)' = doc
      PROVE  /\ req'[r] \in HandlerState /\ Kept(r) /\ Current(r)
  <2> DEFINE d == req[r].declared /\ doc = "ready"
  <2>1. d \in BOOLEAN /\ (d => req[r].declared) /\ (d => Held(r)' = "ready")
    BY <1>4
  <2>2. req[r].pc \in NeedsProvider /\ to \in {"registered", "new", "ready", "blank"}
    BY <1>4 DEF Holding, NeedsProvider
  <2>3. Held(r)' # "absent" /\ req'[r] = With(req[r], to, d)
    BY <1>4
  <2> HIDE DEF d
  <2> QED BY <1>1, <2>1, <2>2, <2>3, WithKept
<1>5. CASE /\ provider' = [provider EXCEPT ![t] = doc]
           /\ req' = [r \in Request |->
                IF r \in Holding(t, "registered")
                THEN With(req[r], "registered", req[r].declared /\ doc = "ready") ELSE req[r]]
  <2>1. ASSUME NEW r \in Request
        PROVE  /\ req'[r] \in HandlerState /\ Kept(r) /\ Current(r)
    <3>1. CASE r \in Holding(t, "registered")
      <4>1. req'[r] = With(req[r], "registered", req[r].declared /\ doc = "ready")
        BY <1>5, <3>1
      <4>2. req'[r].held = "registered" /\ TenantOf(r)' = t
        BY SMT, <3>1, <4>1 DEF With, Handler, TenantOf, Holding
      <4>3. Held(r)' = doc
        BY <1>1, <1>5, <4>2 DEF Held
      <4> QED BY <1>4, <3>1, <4>1, <4>3
    <3>2. CASE r \notin Holding(t, "registered")
      <4>1. req'[r] = req[r]
        BY <1>5, <3>2
      <4>2. req[r].pc \in NeedsProvider =>
              TenantOf(r) \in Tenant /\ (TenantOf(r) # t \/ req[r].held # "registered")
        BY <3>2 DEF Holding, NeedsProvider, Inv, Progressed
      <4>3. req[r].pc \in NeedsProvider => Held(r)' = Held(r)
        BY <1>1, <1>5, <4>1, <4>2 DEF Held, TenantOf
      <4> QED BY <1>1, <4>1, <4>3, UntouchedKept
    <3> QED BY <3>1, <3>2
  <2> QED BY <1>1, <1>5, <2>1
<1>6. ASSUME NEW old \in {"new", "ready", "blank"} \ {doc}, UNCHANGED provider,
             req' = [r \in Request |->
               IF r \in Holding(t, old)
               THEN With(req[r], doc, req[r].declared /\ doc = "ready") ELSE req[r]]
      PROVE  Goal
  <2>1. ASSUME NEW r \in Request
        PROVE  /\ req'[r] \in HandlerState /\ Kept(r) /\ Current(r)
    <3>1. CASE r \in Holding(t, old)
      <4>1. req'[r] = With(req[r], doc, req[r].declared /\ doc = "ready")
        BY <1>6, <3>1
      <4>2. req'[r].held = doc
        BY SMT, <4>1 DEF With, Handler
      <4>3. Held(r)' = doc
        BY <4>2 DEF Held
      <4> QED BY <1>4, <3>1, <4>1, <4>3
    <3>2. CASE r \notin Holding(t, old)
      BY <1>1, <1>6, <3>2, UntouchedKept DEF Held, TenantOf
    <3> QED BY <3>1, <3>2
  <2> QED BY <1>1, <1>6, <2>1
<1> QED BY <1>5, <1>6 DEF RefreshConfig


LEMMA RestartStep ==
  ASSUME Inv, NEW key \in Secret, NEW cfg \in Config, Restart(key, cfg)
  PROVE  Inv'
<1>1. \A r \in Request : req'[r] = Idle
  BY DEF Restart
<1>2. TypeOK'
  BY SMT, <1>1, IdleFacts, GuardAssumption DEF Restart, Inv, TypeOK
<1>3. \A r \in Request : Progressed(r)'
  BY <1>1, IdleFacts DEF Progressed, NeedsProvider, HasClaims, Past, Replaying, Evaluating
<1>4. \A r \in Request : Discreet(r)
  BY <1>1, IdleFacts DEF Discreet, Mine
<1>5. Numbered' /\ ReplayIsOver'
  BY <1>4, NumberedStep DEF Inv, Restart
<1> QED BY <1>2, <1>3, <1>5 DEF Inv

-----------------------------------------------------------------------------
\* A new request takes a number nobody knows.
LEMMA SendStep ==
  ASSUME Inv, NEW r \in Request, NEW in \in Input, Send(r, in)
  PROVE  Inv'
<1> DEFINE t == Resolve(in.hints)
           d == Issuer(provider[t], t) # NoIssuer
           new == Handler("admit", sent + 1, in, cookie, NoClaims, Keep, NoForward, "registered",
                          NoCall, now, {config}, d)
<1>1. /\ sent \in Nat /\ sent' = sent + 1 /\ sent' \in 0..MaxRequests /\ sent' \in 1..sent'
      /\ UNCHANGED <<now, gateway, cached, cookie, settled>>
  BY SMT, GuardAssumption DEF Send, Inv, TypeOK
<1>2. \A x \in Request \ {r} : req'[x] = req[x]
  BY DEF Send, Inv, TypeOK
<1>3. \/ req'[r] = Idle
      \/ t # NoTenant /\ provider[t] # "absent" /\ req'[r] = new
  BY DEF Send, Inv, TypeOK
<1>4. /\ new.pc = "admit" /\ new.n = sent + 1 /\ new.in = in /\ new.jar = cookie
      /\ new.claims = NoClaims /\ new.set = Keep /\ new.fwd = NoForward
      /\ new.held = "registered" /\ new.from = now /\ new.seen = {config}
      /\ new.declared = d
  BY DEF Handler
<1>5. new \in HandlerState
  <2>1. d \in BOOLEAN /\ sent + 1 \in 0..MaxRequests
    BY <1>1
  <2>2. NoCall \in [run : Seq(Config), at : 0..MaxTime]
    BY NoCallTyped
  <2> HIDE DEF d
  <2> QED BY <2>1, <2>2 DEF Handler, HandlerState, Inv, TypeOK
<1> HIDE DEF new
<1>6. TypeOK'
  <2>1. req' = [req EXCEPT ![r] = req'[r]] /\ req'[r] \in HandlerState
    BY <1>3, <1>5, IdleFacts DEF Send, Inv, TypeOK
  <2>2. req' \in [Request -> HandlerState]
    BY <2>1 DEF Inv, TypeOK
  <2>3. ASSUME NEW x \in Request PROVE HandlerOK(x)'
    <3>1. CASE x # r
      <4>1. req[x].n \in 1..sent => req[x].n \in 1..sent'
        BY SMT, <1>1
      <4> QED BY <1>1, <1>2, <3>1, <4>1 
              DEF HandlerOK, HasClaims, Replaying, Evaluating, Inv, TypeOK, gateway
    <3>2. CASE x = r /\ req'[r] = Idle
      BY <3>2, IdleFacts DEF HandlerOK, HasClaims, Replaying, Evaluating
    <3>3. CASE x = r /\ req'[r] = new
      <4>1. now \in Int /\ now <= now
        BY SMT DEF Inv, TypeOK
      <4>2. /\ req'[x].pc = "admit" /\ req'[x].in \in Input /\ req'[x].n \in 1..sent'
            /\ req'[x].from <= now' /\ req'[x].fwd = NoForward /\ req'[x].set = Keep
            /\ req'[x].seen = {config'}
        BY <1>1, <1>4, <3>3, <4>1 DEF gateway
      <4> QED BY <4>2 DEF HandlerOK, HasClaims, Replaying, Evaluating
    <3> QED BY <1>3, <3>1, <3>2, <3>3
  <2> QED BY <1>1, <2>2, <2>3
          DEF Inv, TypeOK, HandlerOK, HasClaims, Replaying, Evaluating, gateway
<1>7. ASSUME NEW x \in Request PROVE Progressed(x)'
  <2>1. CASE x # r
    BY <1>1, <1>2, <2>1, ProgressUntouched
  <2>2. CASE x = r /\ req'[r] = Idle
    BY <2>2, IdleFacts DEF Progressed, NeedsProvider, HasClaims, Past, Replaying, Evaluating
  <2>3. CASE x = r /\ t # NoTenant /\ provider[t] # "absent" /\ req'[r] = new
    <3>1. TenantOf(r)' = t /\ t \in Tenant
      BY <1>4, <2>3, ResolveFinds DEF TenantOf
    <3>2. Held(r)' = provider[t]
      BY <1>1, <1>4, <2>3, <3>1 DEF Held, gateway
    <3>3. d => provider[t] = "ready" /\ IssuerOf[t] # NoIssuer
      BY DEF Issuer
    <3> HIDE DEF d, t
    <3> QED BY <1>4, <2>3, <3>1, <3>2, <3>3 DEF Progressed, NeedsProvider, HasClaims, Past, Replaying, Evaluating
  <2> QED BY <1>3, <2>1, <2>2, <2>3
<1>8. ASSUME NEW i \in 1..MaxRequests, Known(i)'
      PROVE  Known(i)
  <2>1. ASSUME NEW x \in Request,
               \/ req'[x].jar # NoCookie /\ i = req'[x].jar.id
               \/ req'[x].fwd # NoForward /\ i = req'[x].fwd.id
        PROVE  Known(i)
    BY <1>2, <1>3, <1>4, <2>1, IdleFacts DEF Known
  <2> QED BY <1>1, <1>8, <2>1 DEF Known
<1>9. ASSUME NEW x \in Request, NEW i \in Mine(x)'
      PROVE  i \in 1..MaxRequests /\ (IF x = r THEN i = sent + 1 ELSE i \in Mine(x))
  BY <1>2, <1>3, <1>4, <1>9, IdleFacts DEF Mine
<1>10. Numbered'
  <2>1. \A i \in 1..MaxRequests : Known(i)' => i <= sent'
    <3> SUFFICES ASSUME NEW i \in 1..MaxRequests, Known(i)' PROVE i <= sent'
      OBVIOUS
    <3>1. i <= sent
      BY <1>8 DEF Numbered, Inv
    <3> QED BY SMT, <1>1, <3>1
  <2>2. ASSUME NEW x \in Request, NEW i \in Mine(x)' PROVE i <= sent' /\ ~Known(i)'
    <3>1. i \in 1..MaxRequests /\ (IF x = r THEN i = sent + 1 ELSE i \in Mine(x))
      BY <1>9, <2>2
    <3>2. CASE x = r
      <4>1. ~(i <= sent)
        BY SMT, <1>1, <3>1, <3>2
      <4> QED BY SMT, <1>1, <1>8, <3>1, <3>2, <4>1 DEF Numbered, Inv
    <3>3. CASE x # r
      <4>1. i <= sent /\ ~Known(i)
        BY <3>1, <3>3 DEF Numbered, Inv
      <4> QED BY SMT, <1>1, <1>8, <3>1, <4>1
    <3> QED BY <3>2, <3>3
  <2>3. ASSUME NEW x \in Request, NEW y \in Request, x # y, NEW i \in Mine(x)', i \in Mine(y)'
        PROVE  FALSE
    <3>1. /\ i \in 1..MaxRequests /\ (IF x = r THEN i = sent + 1 ELSE i \in Mine(x))
          /\ (IF y = r THEN i = sent + 1 ELSE i \in Mine(y))
      BY <1>9, <2>3
    <3>2. \A z \in Request : i \in Mine(z) => i <= sent
      BY DEF Numbered, Inv
    <3>3. i \in Mine(x) => i \notin Mine(y)
      BY <2>3 DEF Numbered, Inv
    <3> QED BY SMT, <1>1, <2>3, <3>1, <3>2, <3>3
  <2>4. \A x, y \in Request : x # y => Mine(x)' \cap Mine(y)' = {}
    BY <2>3
  <2> QED BY <2>1, <2>2, <2>4 DEF Numbered
<1>11. ReplayIsOver'
  BY <1>1 DEF ReplayIsOver, Inv
<1> QED BY <1>6, <1>7, <1>10, <1>11 DEF Inv


\* An answer makes its number known: the cookie with it reaches the browser, or
\* the replay is settled and the cookie is gone.
LEMMA ReceiveStep ==
  ASSUME Inv, NEW r \in Request, Receive(r)
  PROVE  Inv'
<1> DEFINE h == req[r]
<1>1. h.pc = "answer" /\ UNCHANGED <<now, gateway, sent, cached>>
  BY DEF Receive, Deliver
<1>2. req'[r] = Idle /\ \A x \in Request \ {r} : req'[x] = req[x]
  BY DEF Receive, Deliver, Inv, TypeOK
<1>3. h.set \in {Keep, Clear} \cup Saved
  BY FieldTypes DEF Inv
<1>4. cookie' = IF h.set = Keep THEN cookie ELSE IF h.set = Clear THEN NoCookie ELSE h.set
  <2>1. cookie' = CASE h.set = Keep -> cookie
                    [] h.set = Clear -> NoCookie
                    [] OTHER -> h.set
    BY DEF Receive, Deliver
  <2>2. CASE h.set = Keep
    BY <2>1, <2>2, GuardAssumption
  <2>3. CASE h.set = Clear
    BY <2>1, <2>3, GuardAssumption
  <2>4. CASE h.set \notin {Keep, Clear}
    BY <2>1, <2>4
  <2> QED BY <2>2, <2>3, <2>4, GuardAssumption
<1>5. /\ settled \subseteq settled'
      /\ \A i \in settled' : i \in settled \/ (h.fwd # NoForward /\ i = h.fwd.id /\ i > 0)
  BY DEF Receive, Deliver
<1>6. TypeOK'
  <2>1. cookie' \in Saved \cup {NoCookie}
    BY <1>3, <1>4 DEF Inv, TypeOK
  <2>2. settled' \subseteq 1..MaxRequests
    <3>1. h.fwd # NoForward => h.fwd.id \in 0..MaxRequests
      BY FieldTypes DEF Inv
    <3>2. settled \subseteq 1..MaxRequests
      BY DEF Inv, TypeOK
    <3>3. ASSUME NEW i \in settled' PROVE i \in 1..MaxRequests
      BY SMT, <1>5, <3>1, <3>2, GuardAssumption
    <3> QED BY <3>3
  <2>3. req' \in [Request -> HandlerState]
    BY IdleFacts DEF Receive, Deliver, Inv, TypeOK
  <2>4. ASSUME NEW x \in Request PROVE HandlerOK(x)'
    BY <1>1, <1>2, IdleFacts
       DEF HandlerOK, HasClaims, Replaying, Evaluating, Inv, TypeOK, gateway
  <2> QED BY <1>1, <2>1, <2>2, <2>3, <2>4
          DEF Inv, TypeOK, HandlerOK, HasClaims, Replaying, Evaluating, gateway
<1>7. ASSUME NEW x \in Request PROVE Progressed(x)'
  <2>1. CASE x # r
    BY <1>1, <1>2, <2>1, ProgressUntouched
  <2>2. CASE x = r
    BY <1>2, <2>2, IdleFacts DEF Progressed, NeedsProvider, HasClaims, Past, Replaying, Evaluating
  <2> QED BY <2>1, <2>2
<1>8. h.set \notin {Keep, Clear} => h.set.id \in Mine(r)
  BY <1>1, <1>3 DEF Mine, Saved
<1>9. ASSUME NEW i \in 1..MaxRequests, Known(i)'
      PROVE  Known(i) \/ i \in Mine(r)
  <2>1. ASSUME NEW x \in Request,
               \/ req'[x].jar # NoCookie /\ i = req'[x].jar.id
               \/ req'[x].fwd # NoForward /\ i = req'[x].fwd.id
        PROVE  Known(i)
    BY <1>2, <2>1, IdleFacts DEF Known
  <2>2. CASE i \in settled'
    BY <1>5, <2>2 DEF Known
  <2>3. CASE cookie' # NoCookie /\ i = cookie'.id
    BY <1>4, <1>8, <2>3 DEF Known
  <2> QED BY <1>9, <2>1, <2>2, <2>3 DEF Known
<1>10. ASSUME NEW x \in Request, NEW i \in Mine(x)'
       PROVE  x # r /\ i \in Mine(x) /\ i \in 1..MaxRequests
  BY <1>2, <1>10, IdleFacts DEF Mine
<1>11. Numbered'
  <2>1. \A i \in 1..MaxRequests : Known(i)' => i <= sent'
    BY <1>1, <1>9 DEF Numbered, Inv
  <2>2. ASSUME NEW x \in Request, NEW i \in Mine(x)' PROVE i <= sent' /\ ~Known(i)'
    <3>1. x # r /\ i \in Mine(x) /\ i \in 1..MaxRequests
      BY <1>10, <2>2
    <3>2. i <= sent /\ ~Known(i) /\ i \notin Mine(r)
      BY <3>1 DEF Numbered, Inv
    <3> QED BY <1>1, <1>9, <3>1, <3>2
  <2>3. \A x, y \in Request : x # y => Mine(x)' \cap Mine(y)' = {}
    BY <1>10 DEF Numbered, Inv
  <2> QED BY <2>1, <2>2, <2>3 DEF Numbered
<1>12. ReplayIsOver'
  <2>1. h.fwd # NoForward /\ h.fwd.id > 0 => h.set = Clear
    BY DEF Inv, Progressed
  <2>2. CASE h.set = Keep
    BY <1>4, <1>5, <2>1, <2>2, GuardAssumption DEF ReplayIsOver, Inv
  <2>3. CASE h.set = Clear
    BY <1>4, <2>3, GuardAssumption DEF ReplayIsOver
  <2>4. CASE h.set \notin {Keep, Clear}
    <3>1. cookie' = h.set /\ ~Known(h.set.id)
      BY <1>4, <1>8, <2>4 DEF Numbered, Inv
    <3>2. settled' = settled
      BY <2>1, <2>4 DEF Receive, Deliver
    <3> QED BY <3>1, <3>2 DEF ReplayIsOver, Known
  <2> QED BY <2>2, <2>3, <2>4
<1> QED BY <1>6, <1>7, <1>11, <1>12 DEF Inv

-----------------------------------------------------------------------------
LEMMA InvInit == Init => Inv
<1> SUFFICES ASSUME Init PROVE Inv
  OBVIOUS
<1>1. \A r \in Request : req[r] = Idle
  BY DEF Init
<1>2. TypeOK
  BY SMT, <1>1, IdleFacts, GuardAssumption DEF Init, TypeOK
<1>3. \A r \in Request : Progressed(r)
  BY <1>1, IdleFacts DEF Progressed, NeedsProvider, HasClaims, Past, Replaying, Evaluating
<1>4. \A r \in Request : Mine(r) = {}
  BY <1>1, IdleFacts DEF Mine
<1>5. \A i \in 1..MaxRequests : ~Known(i)
  BY <1>1, IdleFacts DEF Known, Init
<1>6. Numbered /\ ReplayIsOver
  BY <1>4, <1>5 DEF Numbered, ReplayIsOver, Init
<1> QED BY <1>2, <1>3, <1>6 DEF Inv

LEMMA InvNext == Inv /\ [Next]_vars => Inv'
<1> SUFFICES ASSUME Inv, [Next]_vars PROVE Inv'
  OBVIOUS
<1>1. CASE UNCHANGED vars
  <2>1. \A r \in Request : Kept(r) /\ Current(r)
    BY <1>1, UntouchedKept DEF vars, Held, TenantOf
  <2>2. now' \in 0..MaxTime /\ now <= now'
    BY SMT, <1>1 DEF vars, Inv, TypeOK
  <2> QED BY <1>1, <2>1, <2>2, GatewayStep DEF vars, Inv, TypeOK
<1>2. ASSUME NEW t \in Tenant, Register(t) \/ Unregister(t)
      PROVE  Inv'
  <2>1. Replace(t, "new") \/ Replace(t, "absent")
    BY <1>2 DEF Register, Unregister
  <2> QED BY <2>1, ReplaceStep
<1> QED BY <1>1, <1>2, SendStep, HandleStep, ReceiveStep, RefreshStep, ReloadStep, RestartStep,
           TickStep DEF Next

\* However requests, reloads, refreshes and restarts interleave, the cookie,
\* the claims and the local state of every call of ServeHTTP keep their types,
\* and each of its points has what it relies on.
THEOREM TypeCorrect == Spec => []TypeOK
<1>1. Inv => TypeOK
  BY InvImplies
<1> QED BY InvInit, InvNext, <1>1, PTL DEF Spec

\* Nothing goes upstream without the decisions ServeHTTP has to make for it:
\* the policy for the request and for the saved one, the binding to the key of
\* the proof and the FAPI profile, each at a time while it ran.
THEOREM ForwardIsAuthorized == Spec => []ForwardAuthorized
<1>1. Inv => ForwardAuthorized
  BY InvImplies
<1> QED BY InvInit, InvNext, <1>1, PTL DEF Spec

\* ServeHTTP never goes on with claims of another issuer than its provider's,
\* as long as the provider declares one, whatever happens to the registry.
THEOREM TenantIsBound == Spec => []TenantBound
<1>1. Inv => TenantBound
  BY InvImplies
<1> QED BY InvInit, InvNext, <1>1, PTL DEF Spec

\* The browser never holds the cookie of a replay it has got the answer of.
THEOREM ReplayEnds == Spec => []ReplayIsOver
<1>1. Inv => ReplayIsOver
  BY InvImplies
<1> QED BY InvInit, InvNext, <1>1, PTL DEF Spec
=============================================================================
