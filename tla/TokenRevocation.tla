--------------------------- MODULE TokenRevocation ---------------------------
(***************************************************************************)
(* The gateway's request path (Introspection) and its revocation webhook   *)
(* (Webhook) around the one claims cache they share (ClaimsCache), with    *)
(* the authorization server that answers the first and notifies the        *)
(* second, and the clock.                                                  *)
(***************************************************************************)
EXTENDS Introspection, Webhook

VARIABLES
  confirmed,   \* history: tokens a 204 answer reported as evicted
  overlapped   \* history: tokens with a fill under way while a webhook event
               \* about them was being handled

vars == <<now, cache, revokedAt, req, hook, acked, confirmed, overlapped>>

TypeOK ==
  /\ CacheTypeOK
  /\ RequestTypeOK
  /\ HookTypeOK
  /\ confirmed \subseteq Token
  /\ overlapped \subseteq Token

Init ==
  /\ CacheInit
  /\ RequestInit
  /\ HookInit
  /\ confirmed = {}
  /\ overlapped = {}

-----------------------------------------------------------------------------
\* External: the authorization server revokes every token of a reference.
ASRevoke(ref) ==
  /\ \E t \in Covered(ref) : ~Revoked(t)
  /\ revokedAt' = [t \in Token |->
       IF t \in Covered(ref) /\ ~Revoked(t) THEN now ELSE revokedAt[t]]
  /\ UNCHANGED <<now, cache, req, hook, acked, confirmed, overlapped>>

Handle(r) ==
  /\ RequestStep(r)
  /\ UNCHANGED <<hook, acked, confirmed, overlapped>>

\* The fill of t that some request holds an answer for has not ended.
FillUnderWay(t) == \E r \in Request : req[r].tok = t /\ req[r].pc \in Filling

NoteOverlap(ref) ==
  overlapped' = overlapped \cup {t \in Covered(ref) : FillUnderWay(t)}

\* The authorization server notifies the gateway of what it has revoked.  It
\* may do so late, more than once or never.
Notify(h, ev) ==
  /\ Reference(ev) \in Ref
  /\ \A t \in Covered(Reference(ev)) : Revoked(t)
  /\ Receive(h, ev)
  /\ NoteOverlap(Reference(ev))
  /\ UNCHANGED <<revokedAt, req, confirmed>>

ResolveEvent(h) ==
  /\ Resolve(h)
  /\ NoteOverlap(hook[h].ref)
  /\ UNCHANGED <<revokedAt, req, confirmed>>

Evict(h, k) ==
  /\ DeleteKey(h, k)
  /\ NoteOverlap(hook[h].ref)
  /\ UNCHANGED <<revokedAt, req, confirmed>>

ReplyEvent(h) ==
  /\ Reply(h)
  /\ confirmed' = IF hook[h].failed THEN confirmed
                                    ELSE confirmed \cup hook[h].listed
  /\ UNCHANGED <<revokedAt, req, overlapped>>

\* What the cache and the embedding program do on their own.
Housekeeping ==
  /\ \/ (Cleanup \/ Flush) /\ UNCHANGED <<revokedAt, req>>
     \/ \E t \in Token : RevokeCached(t)
  /\ UNCHANGED <<hook, acked, confirmed, overlapped>>

\* Time passes, but never past the timeouts of a fill that holds an answer.
Tick ==
  /\ now < MaxTime
  /\ \A r \in Request : req[r].pc \in Filling => now < req[r].at + MaxLag
  /\ now' = now + 1
  /\ UNCHANGED <<cache, revokedAt, req, hook, acked, confirmed, overlapped>>

Next ==
  \/ \E ref \in Ref : ASRevoke(ref)
  \/ \E r \in Request : Handle(r)
  \/ \E h \in Hook, ev \in Event : Notify(h, ev)
  \/ \E h \in Hook : ResolveEvent(h)
  \/ \E h \in Hook, k \in Key : Evict(h, k)
  \/ \E h \in Hook : ReplyEvent(h)
  \/ Housekeeping
  \/ Tick

Spec == Init /\ [][Next]_vars

-----------------------------------------------------------------------------
\* A revoked token is served from the cache for at most CacheTTL after its
\* revocation plus the time one fill may take, whether or not the webhook is
\* ever delivered: the bound the 30-second TTL of Guard.introspect is there
\* to give, including fills that were under way when the token was revoked.
BoundedStaleness ==
  \A t \in Token :
    Revoked(t) /\ Live(t) => now <= revokedAt[t] + CacheTTL + MaxLag

\* The clamp of the TTL to the token's remaining lifetime works: a cached
\* token is served past its exp for no longer than a fill may take.
OutlivesByAtMostLag ==
  \A t \in Token : ExpOf[t] # 0 /\ Live(t) => now <= ExpOf[t] + MaxLag

\* When process returns nil the tokens it resolved the event to are out of
\* the cache and stay out, even with failing cache calls, concurrent events
\* and later requests; only a fill under way during the event may undo it.
EvictionHolds ==
  \A t \in confirmed \ overlapped : cache[t] = Absent

\* A delivery deletes only tokens its event is about ("Targeted eviction"
\* in process), although requests of other tokens write the same index.
TargetedEviction ==
  \A h \in Hook : hook[h].pc = "delete" =>
    (hook[h].first \cup hook[h].last) \cap Token \subseteq Covered(hook[h].ref)

\* A delivery has resolved its event to t and is about to delete it.
DeletePending(t) ==
  \E h \in Hook : t \in hook[h].first \cup hook[h].last

\* No unexpired token of the reference can be served from the cache.
EffectiveFor(ref) ==
  \A t \in Covered(ref) \ overlapped :
    Live(t) => DeletePending(t) \/ (ExpOf[t] # 0 /\ now > ExpOf[t])

\* An event answered with 204 has taken effect: no unexpired token it is
\* about can be served from the cache, unless a fill overlapped the event or
\* a duplicate of the event, still being handled, is about to delete it.
RevocationEffective == \A ref \in acked : EffectiveFor(ref)

\* RevocationHandler's promise without the exception for overlapping fills:
\* "revocations take effect on the next request".
RevokedOnNextRequest ==
  \A ref \in acked : \A t \in Covered(ref) : ~Live(t)

\* The index outlives the entry: an unexpired cached token whose jti is its
\* own can be found by that jti, except while its fill has yet to write the
\* index or a delivery is between deleting the index and the token.
JTIIndexCovers ==
  \A t \in Token :
    LET k == IndexKeyOf(t, "jti") IN
    /\ HasClaim(t, "jti")
    /\ Covered(k) = {t}
    /\ Live(t)
    /\ ExpOf[t] = 0 \/ now <= ExpOf[t]
    /\ ~\E r \in Request : req[r].pc = "jti" /\ req[r].tok = t
    /\ ~\E h \in Hook : hook[h].pc = "delete" /\ hook[h].ref = k /\ t \in hook[h].last
    => Live(k) /\ t \in cache[k].hashes

-----------------------------------------------------------------------------
\* A revoked token is out of the game when it cannot be served and no fill
\* holds an answer for it.
Closed(t) ==
  /\ Revoked(t)
  /\ ~Live(t)
  /\ ~\E r \in Request : req[r].tok = t /\ req[r].pc \in Waiting

Lease == INSTANCE TokenLease WITH
  until <- [t \in Token |-> cache[t].exp],
  closed <- {t \in Token : Closed(t)}

\* Cache, requests, index and webhook together do nothing with a token but
\* what a lease allows: it is served on an answer at most MaxLag old, for at
\* most CacheTTL, and a revoked token that is out of the cache with no fill
\* of it under way never gets back in, whatever fails, races or is repeated.
ImplementsLease == Lease!Spec
=============================================================================
