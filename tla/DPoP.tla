-------------------------------- MODULE DPoP --------------------------------
(***************************************************************************)
(* DPoP proof validation in the gateway (pkg/core/token/dpop.go, step 3a   *)
(* of Guard.ServeHTTP): freshness, the server nonce, and the jti record    *)
(* that makes a second use of a proof fail.                                *)
(*                                                                         *)
(* A client signs proofs, each with its own jti, and sends them; its       *)
(* library or a proxy may send one again.  The header, signature, method,  *)
(* URI and token-hash checks of ValidateDPoP depend on nothing but the     *)
(* request, so a proof failing one is refused whenever it arrives; the     *)
(* proofs here pass them.                                                  *)
(***************************************************************************)
EXTENDS Integers

CONSTANTS
  Proof,         \* proofs, and their jti
  Request,       \* request goroutines
  MaxAge,        \* DPoPConfig.MaxAge, 60 s unless configured
  Skew,          \* 5 s: how far iat may lie in the future
  Drift,         \* offsets of the clocks proofs are signed by
  Window,        \* NonceProvider.window, 5 minutes
  NonceRequired, \* whether DPoPNonceSecret is set
  Fallible,      \* TRUE: RedisCache, calls may fail; FALSE: MemoryCache
  MaxLag,        \* bound: longest time from the freshness check to the record
  MaxTime        \* bound: the clock stops here

ASSUME DPoPAssumption ==
  /\ MaxAge \in Nat \ {0}
  /\ Skew \in Nat
  /\ Drift \subseteq Int
  /\ Window \in Nat \ {0}
  /\ NonceRequired \in BOOLEAN
  /\ Fallible \in BOOLEAN
  /\ MaxLag \in Nat
  /\ MaxTime \in Nat

VARIABLES
  now,     \* the gateway's clock
  proof,   \* external: the iat and nonce of the proofs signed so far
  held,    \* external: the nonce the client was last given
  heldAt,  \* history: when it was given
  seen,    \* [Proof -> Int]: expiry of the record dpop:jti:<jti>
  req,     \* [Request -> the local state of a call to Validate]
  last,    \* history: when a proof was last accepted
  accepts, \* history: how often a proof was accepted by a call that no other
           \* acceptance of it overtook
  faulted  \* history: the proofs whose record a Get missed, a Set lost or a restart
           \* took away before its time

vars == <<now, proof, held, heldAt, seen, req, last, accepts, faulted>>

NoNonce == -1
Never == -1
Unsigned == [signed |-> FALSE, iat |-> 0, nonce |-> NoNonce]

\* A call between two of its steps: raced says that another call has accepted
\* the proof since this one looked the record up.
NoProof == "none"

Call(pc, p, raced, at) == [pc |-> pc, proof |-> p, raced |-> raced, at |-> at]

Idle == Call("idle", NoProof, FALSE, 0)

CallState ==
  [pc : {"idle", "fresh", "unseen"}, proof : Proof \cup {NoProof},
   raced : BOOLEAN, at : Nat]

-----------------------------------------------------------------------------
\* NonceProvider: a nonce is the HMAC of a window's number, so it stands for
\* that number.
WindowOf(t) == t \div Window

\* Mutant of Current: the window is rounded up.
CurrentCeiling == WindowOf(now + Window)

Current == WindowOf(now)

\* Mutant of NonceValid: only the current window is accepted.
NonceValidNow(nonce) == nonce # NoNonce /\ nonce = WindowOf(now)

NonceValid(nonce) ==
  nonce # NoNonce /\ (nonce = WindowOf(now) \/ nonce = WindowOf(now) - 1)

\* Mutant of Fresh: no upper bound on the age.
FreshAnyAge(iat) == iat <= now + Skew

\* ValidateDPoP: not older than MaxAge, not too far in the future.
Fresh(iat) == now - iat <= MaxAge /\ iat <= now + Skew

\* Mutant of RecordExpiry: the skew is taken for the age.
RecordExpirySkew == now + Skew

\* The expiry Cache.Set gives the record: v.cfg.MaxAge from the write.
RecordExpiry == now + MaxAge

\* The count of acceptances stops at Many, one more than any property allows.
Many == 3
Counted(n) == IF n < Many THEN n + 1 ELSE Many

Recorded(p) == now <= seen[p]

\* Whether a call to the cache does what it should.  The error of a Set is
\* ignored, so one that fails after it was applied is as good as any other.
Outcome == IF Fallible THEN BOOLEAN ELSE {TRUE}

-----------------------------------------------------------------------------
TypeOK ==
  /\ now \in Nat
  /\ proof \in [Proof -> [signed : BOOLEAN, iat : Int, nonce : Int]]
  /\ held \in NoNonce..WindowOf(now)
  /\ heldAt \in Nat
  /\ seen \in [Proof -> Int]
  /\ req \in [Request -> CallState]
  /\ \A r \in Request : req[r].pc # "idle" => req[r].proof \in Proof
  /\ last \in [Proof -> Int]
  /\ accepts \in [Proof -> 0..Many]
  /\ faulted \subseteq Proof

Init ==
  /\ now = 0
  /\ proof = [p \in Proof |-> Unsigned]
  /\ held = NoNonce
  /\ heldAt = 0
  /\ seen = [p \in Proof |-> Never]
  /\ req = [r \in Request |-> Idle]
  /\ last = [p \in Proof |-> Never]
  /\ accepts = [p \in Proof |-> 0]
  /\ faulted = {}

\* External: the client signs a proof, by its own clock and with the nonce it
\* holds.
Sign(p) ==
  /\ ~proof[p].signed
  /\ \E d \in Drift :
       proof' = [proof EXCEPT ![p] = [signed |-> TRUE, iat |-> now + d, nonce |-> held]]
  /\ UNCHANGED <<now, held, heldAt, seen, req, last, accepts, faulted>>

\* ValidateDPoP.  A proof without a valid nonce is answered with the nonce to
\* use next (use_dpop_nonce); the client keeps it.
Present(r, p) ==
  /\ req[r].pc = "idle"
  /\ proof[p].signed
  /\ Fresh(proof[p].iat)
  /\ IF NonceRequired /\ ~NonceValid(proof[p].nonce)
     THEN held' = Current /\ heldAt' = now /\ UNCHANGED req
     ELSE /\ req' = [req EXCEPT ![r] = Call("fresh", p, FALSE, now)]
          /\ UNCHANGED <<held, heldAt>>
  /\ UNCHANGED <<now, proof, seen, last, accepts, faulted>>

\* DPoPValidator.Validate, the Get: a record refuses the proof (ErrDPoPReplay),
\* a failed Get counts as a miss.
LookUp(r) ==
  /\ req[r].pc = "fresh"
  /\ \/ /\ Recorded(req[r].proof)
        /\ req' = [req EXCEPT ![r] = Idle]
        /\ UNCHANGED faulted
     \/ /\ ~Recorded(req[r].proof) \/ Fallible
        /\ req' = [req EXCEPT ![r] = Call("unseen", req[r].proof, FALSE, req[r].at)]
        /\ faulted' = faulted \cup {p \in {req[r].proof} : Recorded(p)}
  /\ UNCHANGED <<now, proof, held, heldAt, seen, last, accepts>>

\* DPoPValidator.Validate, the Set, whose error is ignored, and the return.
Accept(r) ==
  LET p == req[r].proof IN
  /\ req[r].pc = "unseen"
  /\ \E ok \in Outcome :
       /\ seen' = IF ok THEN [seen EXCEPT ![p] = RecordExpiry] ELSE seen
       /\ faulted' = IF ok THEN faulted ELSE faulted \cup {p}
  /\ last' = [last EXCEPT ![p] = now]
  /\ accepts' = IF req[r].raced THEN accepts ELSE [accepts EXCEPT ![p] = Counted(@)]
  /\ req' = [q \in Request |->
       IF q = r THEN Idle
       ELSE IF req[q].pc = "unseen" /\ req[q].proof = p
            THEN Call("unseen", p, TRUE, req[q].at)
       ELSE req[q]]
  /\ UNCHANGED <<now, proof, held, heldAt>>

\* The gateway restarts: the calls under way end without an answer.  A cache
\* in the process starts empty, one in Redis keeps its records.
Restart ==
  /\ req' = [r \in Request |-> Idle]
  /\ \/ UNCHANGED <<seen, faulted>>
     \/ /\ seen' = [p \in Proof |-> Never]
        /\ faulted' = faulted \cup {p \in Proof : Recorded(p)}
  /\ UNCHANGED <<now, proof, held, heldAt, last, accepts>>

Tick ==
  /\ now < MaxTime
  /\ \A r \in Request : req[r].pc # "idle" => now < req[r].at + MaxLag
  /\ now' = now + 1
  /\ UNCHANGED <<proof, held, heldAt, seen, req, last, accepts, faulted>>

Next ==
  \/ \E p \in Proof : Sign(p)
  \/ \E r \in Request, p \in Proof : Present(r, p)
  \/ \E r \in Request : LookUp(r) \/ Accept(r)
  \/ Restart
  \/ Tick

Spec == Init /\ [][Next]_vars

-----------------------------------------------------------------------------
\* What the jti record does give: a call that accepts a proof again without
\* being overtaken does so more than MaxAge after the last acceptance, even
\* with other calls for the same proof under way; where the cache may fail or
\* be lost in a restart, this holds of every proof whose own record was not.
SpacedAccepts ==
  [][\A r \in Request :
       Accept(r) /\ ~req[r].raced =>
         LET p == req[r].proof IN
         last[p] # Never /\ p \notin faulted => now - last[p] > MaxAge]_vars

\* With the freshness check that makes two such acceptances of one proof the
\* most there can be, provided MaxAge exceeds what a clock and a slow call
\* may add.
AcceptedTwiceAtMost ==
  MaxAge >= Skew + MaxLag => \A p \in Proof \ faulted : accepts[p] <= 2

\* Whatever the cache does, the acceptances of a proof all lie between the
\* earliest and the latest time its iat allows: the cache is asked after
\* ValidateDPoP, and it fails open (a Get that fails is a miss, the error of
\* the Set is dropped), so this is what is left when it does.
AcceptedWhileFresh ==
  \A p \in Proof : last[p] # Never =>
    /\ last[p] >= proof[p].iat - Skew
    /\ last[p] <= proof[p].iat + MaxAge + MaxLag

\* "The current and previous windows are both accepted, giving clients
\* between Window and 2xWindow to use a nonce" (NonceProvider).
NonceLifetime ==
  held # NoNonce =>
    /\ now <= heldAt + Window => NonceValid(held)
    /\ now >= heldAt + 2 * Window => ~NonceValid(held)

\* "a second proof with the same jti is rejected" (DPoPValidator).
SecondUseRejected ==
  [][\A r \in Request : Accept(r) => last[req[r].proof] = Never]_vars

=============================================================================
