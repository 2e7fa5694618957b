----------------------- MODULE TokenRevocation_proofs -----------------------
(***************************************************************************)
(* Proofs about TokenRevocation for every set of tokens, requests,         *)
(* deliveries and events, every TTL and every lag, with a memory or a      *)
(* failing cache.                                                          *)
(***************************************************************************)
EXTENDS TokenRevocation, TLAPS

\* Zenon proves a leaf unless it names SMT, for arithmetic and records.
USE ZenonT(30)

-----------------------------------------------------------------------------
\* IndexKeyOf always yields a key of the cache.
LEMMA IndexKeyOfType ==
  ASSUME NEW t \in Token, NEW kind \in Kind
  PROVE  IndexKeyOf(t, kind) \in IndexKey
BY SMT DEF IndexKeyOf, IndexKey

\* What the cache's Write, Set and Delete may do to it: at most the one key
\* changes, to the given entry.
LEMMA WriteEffect ==
  ASSUME CacheTypeOK, NEW k \in Key, NEW entry \in Entry, NEW ok \in BOOLEAN,
         Write(k, entry, ok)
  PROVE  /\ cache' \in [Key -> Entry]
         /\ cache'[k] = entry \/ cache' = cache
         /\ ok => cache'[k] = entry
         /\ \A k2 \in Key : k2 # k => cache'[k2] = cache[k2]
BY DEF CacheTypeOK, Write

LEMMA SetEffect ==
  ASSUME CacheTypeOK, NEW k \in Key, NEW hs \in SUBSET Token, NEW ttl \in Nat,
         NEW ok \in BOOLEAN, Set(k, hs, ttl, ok)
  PROVE  /\ cache' \in [Key -> Entry]
         /\ cache'[k] = [hashes |-> hs, exp |-> now + ttl] \/ cache' = cache
         /\ ok => cache'[k] = [hashes |-> hs, exp |-> now + ttl]
         /\ \A k2 \in Key : k2 # k => cache'[k2] = cache[k2]
<1>1. [hashes |-> hs, exp |-> now + ttl] \in Entry
  BY SMT DEF Entry, CacheTypeOK
<1> QED BY <1>1, WriteEffect DEF Set

LEMMA DeleteEffect ==
  ASSUME CacheTypeOK, NEW k \in Key, NEW ok \in BOOLEAN, Delete(k, ok)
  PROVE  /\ cache' \in [Key -> Entry]
         /\ cache'[k] = Absent \/ cache' = cache
         /\ ok => cache'[k] = Absent
         /\ \A k2 \in Key : k2 # k => cache'[k2] = cache[k2]
<1>1. Absent \in Entry
  BY SMT DEF Entry, Absent
<1> QED BY <1>1, WriteEffect DEF Delete

LEMMA OutcomeType == \A ok \in Outcome : ok \in BOOLEAN
BY DEF Outcome

-----------------------------------------------------------------------------
\* A request that goes on with the hashes an index list held keeps its types.
LEMMA ListReadType ==
  ASSUME RequestTypeOK, UNCHANGED revokedAt, NEW r \in Request, req[r].tok \in Token,
         NEW pc \in Indexing, NEW hashes \in SUBSET Token,
         req' = [req EXCEPT ![r].pc = pc, ![r].seen = hashes]
  PROVE  RequestTypeOK'
<1>1. req' \in [Request -> RequestState]
  <2>1. req[r] \in RequestState
    BY DEF RequestTypeOK
  <2>2. DOMAIN req' = Request /\ req' = [q \in Request |-> req'[q]]
    BY DEF RequestTypeOK
  <2>3. \A q \in Request : q # r => req'[q] = req[q]
    BY DEF RequestTypeOK
  <2>4. req'[r] = [req[r] EXCEPT !.pc = pc, !.seen = hashes]
    BY SMT DEF RequestTypeOK
  <2>5. [req[r] EXCEPT !.pc = pc, !.seen = hashes] \in RequestState
    <3>1. pc \in {"idle", "asking"} \cup Filling
      BY DEF Filling
    <3>2. [req[r] EXCEPT !.pc = pc] \in RequestState
      BY SMT, <2>1, <3>1 DEF RequestState
    <3>3. ASSUME NEW h \in RequestState PROVE [h EXCEPT !.seen = hashes] \in RequestState
      BY SMT DEF RequestState
    <3> QED BY <3>2, <3>3
  <2> QED BY <2>2, <2>3, <2>4, <2>5 DEF RequestTypeOK
<1>2. \A q \in Request : req'[q].pc # "idle" => req'[q].tok \in Token
  BY SMT DEF RequestTypeOK, RequestState
<1> QED BY <1>1, <1>2 DEF RequestTypeOK

\* A step of a request keeps the types.
LEMMA RequestStepType ==
  ASSUME TypeOK, NEW r \in Request, RequestStep(r)
  PROVE  CacheTypeOK' /\ RequestTypeOK'
<1> USE DEF TypeOK, RequestTypeOK, RequestState, Filling, Waiting, Indexing
<1>0. req[r] \in RequestState
  OBVIOUS
<1>1. ASSUME NEW t \in Token, Lookup(r, t) PROVE CacheTypeOK' /\ RequestTypeOK'
  BY SMT, <1>1 DEF Lookup, CacheTypeOK
<1>2. CASE Answer(r)
  BY SMT, <1>2 DEF Answer, Return, Idle, CacheTypeOK
<1>3. CASE ComputeTTL(r)
  <2>1. ClampedTTL(req[r].tok) \in Int
    BY SMT, <1>3, IntrospectionAssumption DEF ComputeTTL, ClampedTTL, CacheTypeOK
  <2> QED BY SMT, <2>1, <1>3 DEF ComputeTTL, Return, Idle, CacheTypeOK
<1>4. CASE SetClaims(r)
  <2>1. PICK ok \in Outcome : Set(req[r].tok, {}, req[r].ttl, ok)
    BY <1>4 DEF SetClaims
  <2>0. req[r].tok \in Key /\ req[r].ttl \in Nat /\ ok \in BOOLEAN /\ {} \in SUBSET Token
    BY <1>4, OutcomeType DEF SetClaims, Key
  <2>2. cache' \in [Key -> Entry]
    BY <2>0, <2>1, SetEffect DEF Set, Write
  <2> QED BY SMT, <2>2, <1>4 DEF SetClaims, Goto, CacheTypeOK
<1>5. CASE IndexJTI(r)
  <2>1. IndexKeyOf(req[r].tok, "jti") \in Key /\ {req[r].tok} \in SUBSET Token
    BY <1>5, IndexKeyOfType DEF IndexJTI, Key, Kind
  <2>2. req[r].ttl \in Nat
    OBVIOUS
  <2>3. cache' \in [Key -> Entry]
    <3>1. CASE UNCHANGED cache
      BY <3>1 DEF CacheTypeOK
    <3>2. ASSUME NEW ok \in Outcome,
                 Set(IndexKeyOf(req[r].tok, "jti"), {req[r].tok}, req[r].ttl, ok)
          PROVE  cache' \in [Key -> Entry]
      BY <2>1, <2>2, <3>2, SetEffect, OutcomeType DEF Set, Write
    <3> QED BY <1>5, <3>1, <3>2 DEF IndexJTI
  <2> QED BY SMT, <2>3, <1>5 DEF IndexJTI, Goto, CacheTypeOK
<1>6. ASSUME NEW kind \in {"sub", "sid"}, ReadIndex(r, kind)
      PROVE  CacheTypeOK' /\ RequestTypeOK'
  <2>1. PICK ok \in Outcome :
          LET hashes == IndexHashes(IndexKeyOf(req[r].tok, kind), ok) IN
          IF ~HasClaim(req[r].tok, kind) \/ req[r].tok \in hashes
          THEN AfterIndex(r, kind)
          ELSE req' = [req EXCEPT ![r].pc = WritePC(kind), ![r].seen = hashes]
    BY <1>6 DEF ReadIndex
  <2>2. IndexHashes(IndexKeyOf(req[r].tok, kind), ok) \in SUBSET Token
    <3>1. IndexKeyOf(req[r].tok, kind) \in Key
      BY <1>6, IndexKeyOfType DEF ReadIndex, Key, Kind
    <3> QED BY <3>1 DEF IndexHashes, CacheTypeOK, Entry
  <2>3. /\ req[r].pc = kind /\ req[r].tok \in Token
        /\ UNCHANGED <<now, cache, revokedAt>>
    BY <1>6 DEF ReadIndex
  <2>4. CASE AfterIndex(r, kind)
    BY SMT, <2>3, <2>4 DEF AfterIndex, Goto, Return, Idle, CacheTypeOK
  <2>5. ASSUME NEW hashes \in SUBSET Token,
               req' = [req EXCEPT ![r].pc = WritePC(kind), ![r].seen = hashes]
        PROVE  CacheTypeOK' /\ RequestTypeOK'
    <3>1. PICK pc \in Indexing : pc = WritePC(kind)
      BY DEF WritePC
    <3>2. req' = [req EXCEPT ![r].pc = pc, ![r].seen = hashes]
      BY <2>5, <3>1
    <3>3. RequestTypeOK'
      BY <2>3, <2>5, <3>1, <3>2, ListReadType
    <3> QED BY <2>3, <3>3 DEF CacheTypeOK
  <2> QED BY <2>1, <2>2, <2>4, <2>5
<1>7. ASSUME NEW kind \in {"sub", "sid"}, WriteIndex(r, kind)
      PROVE  CacheTypeOK' /\ RequestTypeOK'
  <2>1. PICK ok \in Outcome :
          Set(IndexKeyOf(req[r].tok, kind), req[r].seen \cup {req[r].tok}, req[r].ttl, ok)
    BY <1>7 DEF WriteIndex
  <2>2. req[r].tok \in Token
    BY <1>7 DEF WriteIndex, WritePC
  <2>3. IndexKeyOf(req[r].tok, kind) \in Key
    BY <2>2, IndexKeyOfType DEF Key, Kind
  <2>4. req[r].seen \cup {req[r].tok} \in SUBSET Token /\ req[r].ttl \in Nat
    BY <2>2
  <2>5. cache' \in [Key -> Entry]
    BY <2>1, <2>3, <2>4, SetEffect, OutcomeType DEF Set, Write
  <2> QED BY SMT, <2>2, <2>5, <1>7 DEF WriteIndex, AfterIndex, Goto, Return, Idle, CacheTypeOK
<1> QED BY <1>1, <1>2, <1>3, <1>4, <1>5, <1>6, <1>7 DEF RequestStep

-----------------------------------------------------------------------------
\* A reference other than a hash is an index key, and so a cache key.
LEMMA RefKinds ==
  ASSUME NEW ref \in Ref
  PROVE  \/ ref[1] = "hash" /\ ref[2] \in Token
         \/ ref[1] # "hash" /\ ref \in IndexKey
BY SMT DEF Ref, IndexKey, Kind

LEMMA CoveredType == \A ref \in Ref : Covered(ref) \subseteq Token
BY RefKinds DEF Covered

\* A step of a delivery keeps the types.
LEMMA HookStepType ==
  ASSUME TypeOK, NEW h \in Hook,
         \/ \E ev \in Event : Receive(h, ev)
         \/ Resolve(h)
         \/ \E k \in Key : DeleteKey(h, k)
         \/ Reply(h)
  PROVE  CacheTypeOK' /\ HookTypeOK'
<1> USE DEF TypeOK, HookTypeOK, HookState
<1>0. hook[h] \in HookState
  OBVIOUS
<1>1. ASSUME NEW ev \in Event, Receive(h, ev) PROVE CacheTypeOK' /\ HookTypeOK'
  <2> DEFINE ref == Reference(ev)
  <2>1. ref \in Ref
    BY <1>1 DEF Receive
  <2>2. CASE ref[1] = "hash"
    <3>1. ref[2] \in Token
      BY <2>1, <2>2, RefKinds
    <3> HIDE DEF ref
    <3> QED BY SMT, <1>1, <2>1, <2>2, <3>1 DEF Receive, Delivery, CacheTypeOK, Key, ref
  <2>3. CASE ref[1] # "hash"
    <3>1. ref \in IndexKey
      BY <2>1, <2>3, RefKinds
    <3> HIDE DEF ref
    <3> QED BY <1>1, <2>1, <2>3, <3>1 DEF Receive, Delivery, CacheTypeOK, ref
  <2> QED BY <2>2, <2>3
<1>2. CASE Resolve(h)
  <2> DEFINE ref == hook[h].ref
  <2>1. ref \in IndexKey /\ ref \in Key /\ ref \in Ref
    BY <1>2 DEF Resolve, Key
  <2>2. \A ok : IndexHashes(ref, ok) \in SUBSET Token
    BY <2>1 DEF IndexHashes, CacheTypeOK, Entry
  <2>3. PICK ok \in Outcome, failed \in {~o : o \in Outcome} :
          LET hashes == IndexHashes(ref, ok) IN
          hook' = [hook EXCEPT ![h] =
            IF ref[1] # "jti" THEN Delivery("delete", ref, hashes, {ref}, hashes, FALSE)
            ELSE IF hashes # {} THEN Delivery("delete", ref, {ref}, hashes, hashes, FALSE)
            ELSE Delivery("delete", ref, {}, {}, {}, failed)]
    BY <1>2 DEF Resolve
  <2>4. failed \in BOOLEAN
    BY DEF Outcome
  <2>5. hook' \in [Hook -> HookState]
    BY SMT, <2>1, <2>2, <2>3, <2>4 DEF Key, Delivery
  <2>6. hook'[h].pc = "delete" /\ hook'[h].ref = ref
        /\ \A g \in Hook \ {h} : hook'[g] = hook[g]
    BY <2>3 DEF Delivery
  <2> QED BY <2>1, <2>5, <2>6, <1>2 DEF Resolve, CacheTypeOK
<1>3. ASSUME NEW k \in Key, DeleteKey(h, k) PROVE CacheTypeOK' /\ HookTypeOK'
  <2>1. PICK ok \in Outcome :
          /\ Delete(k, ok)
          /\ hook' = [hook EXCEPT ![h] =
               Delivery("delete", hook[h].ref, hook[h].first \ {k},
                        IF hook[h].first # {} THEN hook[h].last ELSE hook[h].last \ {k},
                        hook[h].listed,
                        hook[h].failed \/ (~ok /\ ~ErrorIgnored(hook[h].ref, k)))]
    BY <1>3 DEF DeleteKey
  <2>2. cache' \in [Key -> Entry]
    BY <2>1, OutcomeType, DeleteEffect DEF Delete, Write
  <2>3. hook' \in [Hook -> HookState]
    BY <1>0, <1>3, <2>1, OutcomeType DEF Delivery, DeleteKey
  <2>4. \A g \in Hook : hook'[g].pc = hook[g].pc /\ hook'[g].ref = hook[g].ref
    BY <1>3, <2>1 DEF Delivery, DeleteKey
  <2> QED BY <2>2, <2>3, <2>4, <1>3 DEF DeleteKey, CacheTypeOK
<1>4. CASE Reply(h)
  <2>1. hook' \in [Hook -> HookState] /\ hook'[h] = Free
        /\ \A g \in Hook \ {h} : hook'[g] = hook[g]
    BY <1>4 DEF Reply, Free, Delivery
  <2>2. acked' \subseteq Ref
    BY <1>4 DEF Reply
  <2> QED BY <2>1, <2>2, <1>4 DEF Reply, Free, Delivery, CacheTypeOK
<1> QED BY <1>1, <1>2, <1>3, <1>4

-----------------------------------------------------------------------------
LEMMA InitType == Init => TypeOK
<1> SUFFICES ASSUME Init PROVE TypeOK
  OBVIOUS
<1>1. CacheTypeOK
  BY SMT DEF Init, CacheInit, CacheTypeOK, Absent, Entry
<1>2. RequestTypeOK
  BY DEF Init, RequestInit, RequestTypeOK, RequestState, Idle, Never
<1>3. HookTypeOK
  BY DEF Init, HookInit, HookTypeOK, HookState, Free, Delivery
<1> QED BY <1>1, <1>2, <1>3 DEF Init, TypeOK

LEMMA NextType == TypeOK /\ [Next]_vars => TypeOK'
<1> SUFFICES ASSUME TypeOK, [Next]_vars PROVE TypeOK'
  OBVIOUS
<1>1. ASSUME NEW ref \in Ref, ASRevoke(ref) PROVE TypeOK'
  BY <1>1 DEF ASRevoke, TypeOK, CacheTypeOK, RequestTypeOK, HookTypeOK
<1>2. ASSUME NEW r \in Request, Handle(r) PROVE TypeOK'
  <2>1. CacheTypeOK' /\ RequestTypeOK'
    BY <1>2, RequestStepType DEF Handle
  <2> QED BY <1>2, <2>1 DEF Handle, TypeOK, HookTypeOK
<1>3. ASSUME NEW h \in Hook, NEW ev \in Event, Notify(h, ev) PROVE TypeOK'
  <2>1. CacheTypeOK' /\ HookTypeOK'
    BY <1>3, HookStepType DEF Notify
  <2>2. overlapped' \subseteq Token
    BY <1>3, CoveredType DEF Notify, NoteOverlap, TypeOK
  <2> QED BY <1>3, <2>1, <2>2 DEF Notify, TypeOK, RequestTypeOK
<1>4. ASSUME NEW h \in Hook, ResolveEvent(h) PROVE TypeOK'
  <2>1. CacheTypeOK' /\ HookTypeOK'
    BY <1>4, HookStepType DEF ResolveEvent
  <2>2. hook[h].ref \in Ref
    BY <1>4 DEF ResolveEvent, Resolve, TypeOK, HookTypeOK
  <2>3. overlapped' \subseteq Token
    BY <1>4, <2>2, CoveredType DEF ResolveEvent, NoteOverlap, TypeOK
  <2> QED BY <1>4, <2>1, <2>3 DEF ResolveEvent, TypeOK, RequestTypeOK
<1>5. ASSUME NEW h \in Hook, NEW k \in Key, Evict(h, k) PROVE TypeOK'
  <2>1. CacheTypeOK' /\ HookTypeOK'
    BY <1>5, HookStepType DEF Evict
  <2>2. hook[h].ref \in Ref
    BY <1>5 DEF Evict, DeleteKey, TypeOK, HookTypeOK
  <2>3. overlapped' \subseteq Token
    BY <1>5, <2>2, CoveredType DEF Evict, NoteOverlap, TypeOK
  <2> QED BY <1>5, <2>1, <2>3 DEF Evict, TypeOK, RequestTypeOK
<1>6. ASSUME NEW h \in Hook, ReplyEvent(h) PROVE TypeOK'
  <2>1. CacheTypeOK' /\ HookTypeOK'
    BY <1>6, HookStepType DEF ReplyEvent
  <2>2. confirmed' \subseteq Token
    BY <1>6 DEF ReplyEvent, TypeOK, HookTypeOK, HookState
  <2> QED BY <1>6, <2>1, <2>2 DEF ReplyEvent, TypeOK, RequestTypeOK
<1>7. CASE Housekeeping
  <2>1. cache' \in [Key -> Entry] /\ now' = now
    <3>1. Absent \in Entry
      BY SMT DEF Absent, Entry
    <3>2. CASE Cleanup \/ Flush
      BY <3>1, <3>2 DEF Cleanup, Flush, TypeOK, CacheTypeOK
    <3>3. ASSUME NEW t \in Token, RevokeCached(t)
          PROVE  cache' \in [Key -> Entry] /\ now' = now
      BY <3>3, OutcomeType, DeleteEffect DEF RevokeCached, Delete, Write, TypeOK, Key
    <3> QED BY <1>7, <3>2, <3>3 DEF Housekeeping
  <2>2. UNCHANGED <<revokedAt, req>>
    BY <1>7 DEF Housekeeping, RevokeCached
  <2> QED BY <1>7, <2>1, <2>2 DEF Housekeeping, TypeOK, CacheTypeOK, RequestTypeOK, HookTypeOK
<1>8. CASE Tick
  BY SMT, <1>8 DEF Tick, TypeOK, CacheTypeOK, RequestTypeOK, HookTypeOK
<1>9. CASE UNCHANGED vars
  BY <1>9 DEF vars, TypeOK, CacheTypeOK, RequestTypeOK, HookTypeOK
<1> QED BY <1>1, <1>2, <1>3, <1>4, <1>5, <1>6, <1>7, <1>8, <1>9 DEF Next

\* Every reachable state of the composed system is well typed.
THEOREM TypeCorrect == Spec => []TypeOK
<1>1. Init => TypeOK
  BY InitType
<1>2. TypeOK /\ [Next]_vars => TypeOK'
  BY NextType
<1> QED BY <1>1, <1>2, PTL DEF Spec

-----------------------------------------------------------------------------
(***************************************************************************)
(* How long an entry may live.  The invariant follows a fill from the      *)
(* authorization server's answer, given at a time when the token was       *)
(* neither revoked nor expired, to the expiry Set gives the entry.         *)
(***************************************************************************)
FillTimely(r) ==
  LET t == req[r].tok IN
  req[r].pc \in Filling =>
    /\ req[r].at <= now
    /\ now <= req[r].at + MaxLag
    /\ Revoked(t) => req[r].at <= revokedAt[t]
    /\ ExpOf[t] # 0 => req[r].at < ExpOf[t]
    /\ req[r].pc # "answered" =>
         /\ req[r].ttl <= CacheTTL
         /\ ExpOf[t] # 0 => req[r].ttl <= ExpOf[t] - req[r].at

EntryBounded(t) ==
  /\ ~Revoked(t) => cache[t].exp <= now + CacheTTL
  /\ Revoked(t) => cache[t].exp <= revokedAt[t] + CacheTTL + MaxLag
  /\ ExpOf[t] # 0 => cache[t].exp <= ExpOf[t] + MaxLag

StaleInv ==
  /\ \A r \in Request : FillTimely(r)
  /\ \A t \in Token : EntryBounded(t)

\* What a step of request r may do to the tokens' own entries: only SetClaims
\* writes one, its own token's.
TokenFrame(r) ==
  \A t \in Token :
    \/ cache'[t] = cache[t]
    \/ /\ req[r].pc = "set" /\ req[r].tok = t
       /\ cache'[t] = [hashes |-> {}, exp |-> now + req[r].ttl]

LEMMA RequestTokenFrame ==
  ASSUME TypeOK, NEW r \in Request, RequestStep(r)
  PROVE  TokenFrame(r)
<1> USE DEF TypeOK, RequestTypeOK, RequestState, Filling, Waiting, Indexing
<1>0. /\ req[r] \in RequestState /\ cache \in [Key -> Entry]
      /\ \A t \in Token : t \in Key
      /\ \A t \in Token, k \in IndexKey : t # k
      /\ \A k \in IndexKey : k \in Key
  BY KeysDisjoint DEF CacheTypeOK, Key
<1>1. CASE UNCHANGED cache
  BY <1>1 DEF TokenFrame
<1>2. ASSUME SetClaims(r) PROVE TokenFrame(r)
  BY <1>0, <1>2 DEF SetClaims, Set, Write, TokenFrame
<1>3. ASSUME NEW k \in IndexKey, NEW e, NEW ok, Write(k, e, ok) PROVE TokenFrame(r)
  BY <1>0, <1>3 DEF Write, TokenFrame
<1>4. ASSUME IndexJTI(r) PROVE TokenFrame(r)
  <2>1. req[r].tok \in Token
    BY <1>4 DEF IndexJTI
  <2>2. IndexKeyOf(req[r].tok, "jti") \in IndexKey
    BY <2>1, IndexKeyOfType DEF Kind
  <2> QED BY <1>1, <1>3, <1>4, <2>2 DEF IndexJTI, Set, Write
<1>5. ASSUME NEW kind \in {"sub", "sid"}, WriteIndex(r, kind) PROVE TokenFrame(r)
  <2>1. req[r].tok \in Token
    BY <1>5 DEF WriteIndex, WritePC
  <2>2. IndexKeyOf(req[r].tok, kind) \in IndexKey
    BY <2>1, IndexKeyOfType DEF Kind
  <2> QED BY <1>3, <1>5, <2>2 DEF WriteIndex, Set, Write
<1> QED BY <1>1, <1>2, <1>4, <1>5
        DEF RequestStep, Lookup, Answer, ComputeTTL, ReadIndex

\* No step of a delivery, and no housekeeping, writes a token's entry; they
\* only remove it.
LEMMA RemovalFrame ==
  ASSUME TypeOK,
         \/ \E h \in Hook, ev \in Event : Receive(h, ev)
         \/ \E h \in Hook : Resolve(h)
         \/ \E h \in Hook, k \in Key : DeleteKey(h, k)
         \/ \E h \in Hook : Reply(h)
         \/ Housekeeping
  PROVE  /\ now' = now
         /\ \A t \in Token : cache'[t] = cache[t] \/ cache'[t] = Absent
<1>0. /\ cache \in [Key -> Entry] /\ \A t \in Token : t \in Key
  BY DEF TypeOK, CacheTypeOK, Key
<1>1. ASSUME NEW h \in Hook, NEW k \in Key, DeleteKey(h, k)
      PROVE  /\ now' = now
             /\ \A t \in Token : cache'[t] = cache[t] \/ cache'[t] = Absent
  BY <1>0, <1>1 DEF DeleteKey, Delete, Write
<1>2. ASSUME Housekeeping
      PROVE  /\ now' = now
             /\ \A t \in Token : cache'[t] = cache[t] \/ cache'[t] = Absent
  BY <1>0, <1>2 DEF Housekeeping, Cleanup, Flush, RevokeCached, Delete, Write
<1> QED BY <1>1, <1>2 DEF Receive, Resolve, Reply

LEMMA InitStale == Init => StaleInv
BY SMT, IntrospectionAssumption
   DEF Init, CacheInit, RequestInit, StaleInv, FillTimely, EntryBounded, Idle,
       Filling, Waiting, Indexing, Absent, Revoked, Key, Never

LEMMA RequestStale ==
  ASSUME TypeOK, StaleInv, NEW r \in Request, RequestStep(r)
  PROVE  StaleInv'
<1> USE IntrospectionAssumption DEF TypeOK, RequestTypeOK, RequestState, Filling, Waiting, Indexing
<1>0. req \in [Request -> RequestState] /\ now \in Nat
  BY DEF CacheTypeOK
<1>1. now' = now /\ revokedAt' = revokedAt
  BY DEF RequestStep, Lookup, Answer, ComputeTTL, SetClaims, IndexJTI, ReadIndex, WriteIndex
<1>2. ASSUME NEW t \in Token PROVE EntryBounded(t)'
  <2>1. EntryBounded(t) /\ FillTimely(r)
    BY DEF StaleInv
  <2>2. CASE cache'[t] = cache[t]
    BY <1>1, <2>1, <2>2 DEF EntryBounded, Revoked
  <2>3. CASE /\ req[r].pc = "set" /\ req[r].tok = t
             /\ cache'[t] = [hashes |-> {}, exp |-> now + req[r].ttl]
    BY SMT, <1>0, <1>1, <2>1, <2>3 DEF EntryBounded, FillTimely, Revoked, Never
  <2> QED BY <2>2, <2>3, RequestTokenFrame DEF TokenFrame
<1>3. ASSUME NEW q \in Request PROVE FillTimely(q)'
  <2>1. FillTimely(q)
    BY DEF StaleInv
  <2>2. CASE req'[q] = req[q]
    BY <1>1, <2>1, <2>2 DEF FillTimely, Revoked
  <2>3. CASE Answer(r) /\ q = r
    BY SMT, <1>0, <1>1, <2>3 DEF Answer, Active, Return, Idle, FillTimely, Revoked
  <2>4. CASE ComputeTTL(r) /\ q = r
    BY SMT, <1>0, <1>1, <2>1, <2>4 DEF ComputeTTL, ClampedTTL, Return, Idle, FillTimely, Revoked
  <2>5. CASE req'[q].pc \notin Filling
    BY <2>5 DEF FillTimely
  <2>6. CASE /\ req'[q].pc # "answered" /\ req[q].pc \in Filling \ {"answered"}
             /\ req'[q].tok = req[q].tok /\ req'[q].at = req[q].at
             /\ req'[q].ttl = req[q].ttl
    BY <1>0, <1>1, <2>1, <2>6 DEF FillTimely, Revoked
  <2> QED
    <3>1. CASE q # r
      BY <1>0, <2>2, <3>1 DEF RequestStep, Lookup, Answer, ComputeTTL, SetClaims, IndexJTI,
         ReadIndex, WriteIndex, Goto, Return, AfterIndex
    <3>2. CASE q = r
      BY SMT, <1>0, <2>2, <2>3, <2>4, <2>5, <2>6, <3>2
         DEF RequestStep, Lookup, SetClaims, IndexJTI, ReadIndex, WriteIndex,
             Goto, Return, AfterIndex, WritePC, Idle
    <3> QED BY <3>1, <3>2
<1> QED BY <1>2, <1>3 DEF StaleInv

LEMMA NextStale == TypeOK /\ StaleInv /\ [Next]_vars => StaleInv'
<1> SUFFICES ASSUME TypeOK, StaleInv, [Next]_vars PROVE StaleInv'
  OBVIOUS
<1> USE IntrospectionAssumption
<1>0. now \in Nat /\ req \in [Request -> RequestState]
  BY DEF TypeOK, CacheTypeOK, RequestTypeOK
<1>1. ASSUME NEW ref \in Ref, ASRevoke(ref) PROVE StaleInv'
  BY SMT, <1>0, <1>1 DEF ASRevoke, StaleInv, FillTimely, EntryBounded, Revoked, TypeOK,
     CacheTypeOK, RequestTypeOK, RequestState, Never, Filling, Waiting, Indexing, Key, Entry
<1>2. ASSUME NEW r \in Request, Handle(r) PROVE StaleInv'
  BY <1>2, RequestStale DEF Handle
<1>3. CASE \/ \E h \in Hook, ev \in Event : Notify(h, ev)
           \/ \E h \in Hook : ResolveEvent(h)
           \/ \E h \in Hook, k \in Key : Evict(h, k)
           \/ \E h \in Hook : ReplyEvent(h)
           \/ Housekeeping
  <2>1. now' = now /\ \A t \in Token : cache'[t] = cache[t] \/ cache'[t] = Absent
    BY <1>3, RemovalFrame DEF Notify, ResolveEvent, Evict, ReplyEvent
  <2>2. UNCHANGED <<revokedAt, req>>
    BY <1>3 DEF Notify, ResolveEvent, Evict, ReplyEvent, Housekeeping, RevokeCached
  <2> QED BY SMT, <1>0, <2>1, <2>2 DEF StaleInv, FillTimely, EntryBounded, Revoked, Absent,
       TypeOK, RequestTypeOK, Never
<1>4. CASE Tick
  BY SMT, <1>0, <1>4 DEF Tick, StaleInv, FillTimely, EntryBounded, Revoked, RequestState,
     TypeOK, CacheTypeOK, Entry, Key, RequestTypeOK
<1>5. CASE UNCHANGED vars
  BY <1>5 DEF vars, StaleInv, FillTimely, EntryBounded, Revoked
<1> QED BY <1>1, <1>2, <1>3, <1>4, <1>5 DEF Next

LEMMA StaleInvariant == Spec => [](TypeOK /\ StaleInv)
<1>1. Init => TypeOK /\ StaleInv
  BY InitType, InitStale
<1>2. TypeOK /\ StaleInv /\ [Next]_vars => (TypeOK /\ StaleInv)'
  BY NextType, NextStale
<1> QED BY <1>1, <1>2, PTL DEF Spec

\* A revoked token is served from the cache for at most CacheTTL plus the
\* length of a fill, for every TTL, lag and number of requests, whether the
\* webhook is delivered or not.
THEOREM StalenessBounded == Spec => []BoundedStaleness
<1>1. TypeOK /\ StaleInv => BoundedStaleness
  BY SMT, IntrospectionAssumption
     DEF TypeOK, CacheTypeOK, RequestTypeOK, Entry, Key, StaleInv, EntryBounded, Live,
         BoundedStaleness, Revoked, Never
<1> QED BY <1>1, StaleInvariant, PTL

\* The TTL clamp of Guard.introspect: a token is served from the cache past
\* its exp for no longer than a fill takes.
THEOREM ClampBoundsExpiry == Spec => []OutlivesByAtMostLag
<1>1. TypeOK /\ StaleInv => OutlivesByAtMostLag
  BY SMT, IntrospectionAssumption
     DEF TypeOK, CacheTypeOK, Entry, Key, StaleInv, EntryBounded, Live,
         OutlivesByAtMostLag
<1> QED BY <1>1, StaleInvariant, PTL

-----------------------------------------------------------------------------
(***************************************************************************)
(* The index names only tokens that carry the claim, in the cache and in   *)
(* the lists that requests have read and not written back yet.             *)
(***************************************************************************)
SeenSound(r) ==
  \A kind \in {"sub", "sid"} :
    req[r].pc = WritePC(kind) =>
      req[r].seen \subseteq Covered(IndexKeyOf(req[r].tok, kind))

IndexSound ==
  /\ \A k \in IndexKey : cache[k].hashes \subseteq Covered(k)
  /\ \A r \in Request : SeenSound(r)

\* A token is among those its own index keys are about.
LEMMA InCovered ==
  ASSUME NEW t \in Token, NEW kind \in Kind
  PROVE  t \in Covered(IndexKeyOf(t, kind))
BY DEF Covered, IndexKeyOf, Kind

LEMMA RequestSound ==
  ASSUME TypeOK, IndexSound, NEW r \in Request, RequestStep(r)
  PROVE  IndexSound'
<1> USE DEF TypeOK, RequestTypeOK, RequestState, Filling, Waiting, Indexing
<1>0. /\ req \in [Request -> RequestState] /\ cache \in [Key -> Entry]
      /\ \A k \in IndexKey : k \in Key /\ k \notin Token
  BY KeysDisjoint DEF CacheTypeOK, Key
<1>1. ASSUME NEW k \in IndexKey PROVE cache'[k].hashes \subseteq Covered(k)
  <2>1. cache[k].hashes \subseteq Covered(k)
    BY DEF IndexSound
  <2>2. CASE UNCHANGED cache
    BY <2>1, <2>2
  <2>3. CASE SetClaims(r)
    BY SMT, <1>0, <2>1, <2>3 DEF SetClaims, Set, Write
  <2>4. CASE IndexJTI(r)
    <3>1. req[r].tok \in Covered(IndexKeyOf(req[r].tok, "jti"))
      BY <2>4, InCovered DEF IndexJTI, Kind
    <3> QED BY SMT, <1>0, <2>1, <2>4, <3>1 DEF IndexJTI, Set, Write
  <2>5. ASSUME NEW kind \in {"sub", "sid"}, WriteIndex(r, kind)
        PROVE  cache'[k].hashes \subseteq Covered(k)
    <3>1. req[r].tok \in Covered(IndexKeyOf(req[r].tok, kind))
      BY <2>5, InCovered DEF WriteIndex, WritePC, Kind
    <3>2. req[r].seen \subseteq Covered(IndexKeyOf(req[r].tok, kind))
      BY <2>5 DEF WriteIndex, IndexSound, SeenSound
    <3> QED BY SMT, <1>0, <2>1, <2>5, <3>1, <3>2 DEF WriteIndex, Set, Write
  <2> QED BY <2>2, <2>3, <2>4, <2>5
          DEF RequestStep, Lookup, Answer, ComputeTTL, ReadIndex
<1>2. ASSUME NEW q \in Request PROVE SeenSound(q)'
  <2>1. SeenSound(q)
    BY DEF IndexSound
  <2>2. CASE req'[q] = req[q]
    BY <2>1, <2>2 DEF SeenSound
  <2>3. CASE req'[q].pc \notin {"subWrite", "sidWrite"}
    BY <2>3 DEF SeenSound, WritePC
  <2>4. ASSUME NEW kind \in {"sub", "sid"}, ReadIndex(r, kind), q = r
        PROVE  SeenSound(q)'
    <3>1. IndexKeyOf(req[r].tok, kind) \in IndexKey
      BY <2>4, IndexKeyOfType DEF ReadIndex, Kind
    <3>2. PICK ok \in Outcome :
            LET hashes == IndexHashes(IndexKeyOf(req[r].tok, kind), ok) IN
            IF ~HasClaim(req[r].tok, kind) \/ req[r].tok \in hashes
            THEN AfterIndex(r, kind)
            ELSE req' = [req EXCEPT ![r].pc = WritePC(kind), ![r].seen = hashes]
      BY <2>4 DEF ReadIndex
    <3>3. IndexHashes(IndexKeyOf(req[r].tok, kind), ok)
            \subseteq Covered(IndexKeyOf(req[r].tok, kind))
      BY <3>1 DEF IndexSound, IndexHashes
    <3>4. CASE AfterIndex(r, kind)
      BY SMT, <1>0, <2>3, <2>4, <3>4 DEF AfterIndex, Goto, Return, Idle
    <3>5. CASE req' = [req EXCEPT ![r].pc = WritePC(kind),
                 ![r].seen = IndexHashes(IndexKeyOf(req[r].tok, kind), ok)]
      BY SMT, <1>0, <2>4, <3>3, <3>5 DEF SeenSound, WritePC
    <3> QED BY <3>2, <3>4, <3>5
  <2>5. CASE q # r
    BY SMT, <1>0, <2>2, <2>5 DEF RequestStep, Lookup, Answer, ComputeTTL, SetClaims, IndexJTI,
       ReadIndex, WriteIndex, Goto, Return, AfterIndex
  <2> QED BY SMT, <1>0, <2>2, <2>3, <2>4, <2>5
          DEF RequestStep, Lookup, Answer, ComputeTTL, SetClaims, IndexJTI, WriteIndex,
              Goto, Return, AfterIndex, Idle
<1> QED BY <1>1, <1>2 DEF IndexSound

\* A delivery's step and housekeeping only ever remove entries.
LEMMA RemovalSound ==
  ASSUME TypeOK, IndexSound, UNCHANGED req,
         \A k \in IndexKey : cache'[k] = cache[k] \/ cache'[k] = Absent
  PROVE  IndexSound'
BY SMT DEF IndexSound, SeenSound, Absent

LEMMA NextSound == TypeOK /\ IndexSound /\ [Next]_vars => IndexSound'
<1> SUFFICES ASSUME TypeOK, IndexSound, [Next]_vars PROVE IndexSound'
  OBVIOUS
<1>0. cache \in [Key -> Entry] /\ \A k \in IndexKey : k \in Key
  BY DEF TypeOK, CacheTypeOK, Key
<1>1. ASSUME NEW r \in Request, Handle(r) PROVE IndexSound'
  BY <1>1, RequestSound DEF Handle
<1>2. ASSUME NEW h \in Hook, NEW k \in Key, Evict(h, k) PROVE IndexSound'
  BY <1>0, <1>2, RemovalSound DEF Evict, DeleteKey, Delete, Write
<1>3. CASE Housekeeping
  BY <1>0, <1>3, RemovalSound
     DEF Housekeeping, Cleanup, Flush, RevokeCached, Delete, Write
<1>4. CASE UNCHANGED <<cache, req>>
  BY <1>4, RemovalSound
<1> QED BY <1>1, <1>2, <1>3, <1>4
        DEF Next, ASRevoke, Notify, ResolveEvent, Receive, Resolve, Reply, ReplyEvent, Tick, vars

LEMMA InitSound == Init => IndexSound
BY SMT DEF Init, CacheInit, RequestInit, IndexSound, SeenSound, Absent, Idle, Key, WritePC

-----------------------------------------------------------------------------
(***************************************************************************)
(* What a delivery has achieved, and that later steps do not undo it.  A   *)
(* token is gone when it is out of the cache and no fill of it holds an    *)
(* answer; once the server has revoked it, no fill can get one any more.   *)
(***************************************************************************)
Gone(t) ==
  \/ t \in overlapped
  \/ /\ cache[t] = Absent
     /\ ~\E r \in Request : req[r].tok = t /\ req[r].pc \in Waiting

DeliverySound(h) ==
  LET d == hook[h] IN
  /\ d.pc # "free" => \A t \in Covered(d.ref) : Revoked(t)
  /\ d.pc = "delete" =>
       /\ d.listed \subseteq Covered(d.ref)
       /\ (d.first \cup d.last) \cap Token \subseteq d.listed
       /\ ~d.failed => \A t \in d.listed \ (d.first \cup d.last) : Gone(t)

EvictInv ==
  /\ \A h \in Hook : DeliverySound(h)
  /\ \A t \in confirmed : Revoked(t) /\ Gone(t)

LEMMA InitEvict == Init => EvictInv
BY SMT DEF Init, HookInit, EvictInv, DeliverySound, Free, Delivery

\* A step of a request leaves a revoked token gone.
LEMMA RequestKeepsGone ==
  ASSUME TypeOK, NEW r \in Request, RequestStep(r), UNCHANGED overlapped,
         NEW t \in Token, Revoked(t), Gone(t)
  PROVE  Gone(t)'
<1> USE DEF TypeOK, RequestTypeOK, RequestState, Filling, Waiting, Indexing
<1>0. req \in [Request -> RequestState]
  OBVIOUS
<1>1. CASE t \in overlapped
  BY <1>1 DEF Gone
<1>2. CASE cache[t] = Absent /\ ~\E q \in Request : req[q].tok = t /\ req[q].pc \in Waiting
  <2>1. cache'[t] = Absent
    BY <1>2, RequestTokenFrame DEF TokenFrame
  <2>2. ASSUME NEW q \in Request, req'[q].tok = t, req'[q].pc \in Waiting
        PROVE  FALSE
    <3>1. q = r
      BY <1>0, <1>2, <2>2 DEF RequestStep, Lookup, Answer, ComputeTTL, SetClaims, IndexJTI,
         ReadIndex, WriteIndex, Goto, Return, AfterIndex
    <3>2. CASE Answer(r)
      BY SMT, <1>0, <2>2, <3>1, <3>2 DEF Answer, Active, Return, Idle
    <3>3. CASE ComputeTTL(r)
      BY SMT, <1>0, <1>2, <2>2, <3>1, <3>3 DEF ComputeTTL, Return, Idle
    <3> QED BY SMT, <1>0, <1>2, <2>2, <3>1, <3>2, <3>3
            DEF RequestStep, Lookup, SetClaims, IndexJTI, ReadIndex, WriteIndex, WritePC,
                Goto, Return, AfterIndex, Idle
  <2> QED BY <2>1, <2>2 DEF Gone
<1> QED BY <1>1, <1>2 DEF Gone

\* So does a step that only removes entries, or that notes an overlap.
LEMMA RemovalKeepsGone ==
  ASSUME UNCHANGED req, overlapped \subseteq overlapped', NEW t \in Token,
         cache'[t] = cache[t] \/ cache'[t] = Absent, Gone(t)
  PROVE  Gone(t)'
BY DEF Gone

\* A token whose deletion succeeded is gone: a fill that could bring it back
\* is noted as overlapping.
LEMMA DeleteMakesGone ==
  ASSUME TypeOK, NEW h \in Hook, NEW k \in Token, Evict(h, k),
         cache'[k] = Absent, k \in Covered(hook[h].ref)
  PROVE  Gone(k)'
BY DEF Evict, NoteOverlap, FillUnderWay, Gone, Filling

\* The other deliveries, and what was confirmed, are left as they were by a
\* step of one delivery.
LEMMA OthersSound ==
  ASSUME TypeOK, EvictInv, UNCHANGED revokedAt,
         \A t \in Token : Revoked(t) /\ Gone(t) => Gone(t)',
         NEW g \in Hook, hook'[g] = hook[g]
  PROVE  DeliverySound(g)'
<1>1. DeliverySound(g)
  BY DEF EvictInv
<1>2. hook[g].listed \subseteq Token
  BY DEF TypeOK, HookTypeOK, HookState
<1> QED BY <1>1, <1>2 DEF DeliverySound, Revoked

LEMMA ConfirmedStays ==
  ASSUME TypeOK, EvictInv, UNCHANGED <<revokedAt, confirmed>>,
         \A t \in Token : Revoked(t) /\ Gone(t) => Gone(t)'
  PROVE  (\A t \in confirmed : Revoked(t) /\ Gone(t))'
BY DEF TypeOK, EvictInv, Revoked

LEMMA NextEvict == TypeOK /\ IndexSound /\ EvictInv /\ [Next]_vars => EvictInv'
<1> SUFFICES ASSUME TypeOK, IndexSound, EvictInv, [Next]_vars PROVE EvictInv'
  OBVIOUS
<1>0. /\ hook \in [Hook -> HookState] /\ confirmed \subseteq Token
      /\ cache \in [Key -> Entry] /\ revokedAt \in [Token -> Nat \cup {Never}]
      /\ \A t \in Token : t \in Key
      /\ \A h \in Hook : hook[h].pc # "free" => hook[h].ref \in Ref
      /\ \A h \in Hook : hook[h].pc = "resolve" => hook[h].ref \in IndexKey
  BY DEF TypeOK, HookTypeOK, CacheTypeOK, RequestTypeOK, Key
<1>1. ASSUME NEW ref \in Ref, ASRevoke(ref) PROVE EvictInv'
  <2>1. \A t \in Token : Revoked(t) => Revoked(t)'
    BY <1>0, <1>1 DEF ASRevoke, Revoked
  <2>2. \A t : Gone(t) => Gone(t)'
    BY <1>1 DEF ASRevoke, Gone
  <2>3. UNCHANGED <<hook, confirmed>>
    BY <1>1 DEF ASRevoke
  <2> QED BY <1>0, <2>1, <2>2, <2>3, CoveredType DEF EvictInv, DeliverySound
<1>2. ASSUME UNCHANGED <<hook, revokedAt, confirmed>>,
             \A t \in Token : Revoked(t) /\ Gone(t) => Gone(t)'
      PROVE  EvictInv'
  BY <1>2, OthersSound, ConfirmedStays DEF EvictInv
<1>3. ASSUME NEW r \in Request, Handle(r) PROVE EvictInv'
  <2>1. \A t \in Token : Revoked(t) /\ Gone(t) => Gone(t)'
    BY <1>3, RequestKeepsGone DEF Handle
  <2>2. UNCHANGED <<hook, revokedAt, confirmed>>
    BY <1>3 DEF Handle, RequestStep, Lookup, Answer, ComputeTTL, SetClaims, IndexJTI,
       ReadIndex, WriteIndex
  <2> QED BY <1>2, <2>1, <2>2
<1>4. CASE Housekeeping
  <2>1. \A t \in Token : cache'[t] = cache[t] \/ cache'[t] = Absent
    BY <1>4, RemovalFrame
  <2>2. UNCHANGED <<req, hook, revokedAt, confirmed, overlapped>>
    BY <1>4 DEF Housekeeping, RevokeCached
  <2>3. \A t \in Token : Revoked(t) /\ Gone(t) => Gone(t)'
    BY <2>1, <2>2, RemovalKeepsGone
  <2> QED BY <1>2, <2>2, <2>3
<1>5. CASE Tick \/ UNCHANGED vars
  BY <1>2, <1>5 DEF Tick, vars, Gone
<1>6. ASSUME NEW h \in Hook,
             \/ \E ev \in Event : Notify(h, ev)
             \/ ResolveEvent(h)
             \/ \E k \in Key : Evict(h, k)
             \/ ReplyEvent(h)
      PROVE  EvictInv'
  <2>1. UNCHANGED <<req, revokedAt>> /\ overlapped \subseteq overlapped'
    BY <1>6 DEF Notify, ResolveEvent, Evict, ReplyEvent, NoteOverlap
  <2>2. \A t \in Token : cache'[t] = cache[t] \/ cache'[t] = Absent
    BY <1>6, RemovalFrame DEF Notify, ResolveEvent, Evict, ReplyEvent
  <2>3. \A t \in Token : Revoked(t) /\ Gone(t) => Gone(t)'
    BY <2>1, <2>2, RemovalKeepsGone
  <2>4. \A g \in Hook : g # h => hook'[g] = hook[g]
    BY <1>0, <1>6 DEF Notify, ResolveEvent, Evict, ReplyEvent, Receive, Resolve, DeleteKey, Reply
  <2>5. \A g \in Hook : g # h => DeliverySound(g)'
    BY <2>1, <2>3, <2>4, OthersSound
  <2>6. DeliverySound(h) /\ \A t \in confirmed : Revoked(t) /\ Gone(t)
    BY DEF EvictInv
  <2>7. DeliverySound(h)'
    <3>1. ASSUME NEW ev \in Event, Notify(h, ev) PROVE DeliverySound(h)'
      <4> DEFINE ref == Reference(ev)
      <4>1. ref \in Ref /\ \A t \in Covered(ref) : Revoked(t)
        BY <3>1 DEF Notify
      <4>2. hook'[h] = IF ref[1] = "hash"
                       THEN Delivery("delete", ref, {ref[2]}, {}, {ref[2]}, FALSE)
                       ELSE Delivery("resolve", ref, {}, {}, {}, FALSE)
        BY <1>0, <3>1 DEF Notify, Receive
      <4> HIDE DEF ref
      <4> QED BY SMT, <2>1, <4>1, <4>2 DEF DeliverySound, Delivery, Covered, Revoked
    <3>2. CASE ResolveEvent(h)
      <4> DEFINE ref == hook[h].ref
      <4>1. ref \in IndexKey /\ ref \notin Token /\ \A t \in Covered(ref) : Revoked(t)
        BY <1>0, <2>6, <3>2, KeysDisjoint DEF ResolveEvent, Resolve, DeliverySound
      <4>2. \A ok : IndexHashes(ref, ok) \subseteq Covered(ref)
        BY <4>1 DEF IndexSound, IndexHashes
      <4>3. PICK hashes \in SUBSET Covered(ref), failed \in BOOLEAN :
              hook'[h] =
                IF ref[1] # "jti" THEN Delivery("delete", ref, hashes, {ref}, hashes, FALSE)
                ELSE IF hashes # {} THEN Delivery("delete", ref, {ref}, hashes, hashes, FALSE)
                ELSE Delivery("delete", ref, {}, {}, {}, failed)
        BY <1>0, <3>2, <4>2 DEF ResolveEvent, Resolve, Outcome
      <4> HIDE DEF ref
      <4>4. /\ hook'[h].ref = ref
            /\ hook'[h].listed \subseteq Covered(ref)
            /\ hook'[h].first \cup hook'[h].last \subseteq hook'[h].listed \cup {ref}
            /\ hook'[h].listed \ (hook'[h].first \cup hook'[h].last) = {}
        BY SMT, <4>3 DEF Delivery
      <4> QED BY <2>1, <4>1, <4>4 DEF DeliverySound, Revoked
    <3>3. ASSUME NEW k \in Key, Evict(h, k) PROVE DeliverySound(h)'
      <4> DEFINE d == hook[h]
      <4>1. PICK ok \in Outcome :
              /\ Delete(k, ok)
              /\ hook'[h] = Delivery("delete", d.ref, d.first \ {k},
                               IF d.first # {} THEN d.last ELSE d.last \ {k}, d.listed,
                               d.failed \/ (~ok /\ ~ErrorIgnored(d.ref, k)))
        BY <1>0, <3>3 DEF Evict, DeleteKey
      <4>2. d.pc = "delete" /\ d.ref \in Ref
        BY <1>0, <3>3 DEF Evict, DeleteKey
      <4>3. /\ hook'[h].ref = d.ref /\ hook'[h].listed = d.listed
            /\ hook'[h].first \cup hook'[h].last \subseteq d.first \cup d.last
            /\ d.first \cup d.last \subseteq hook'[h].first \cup hook'[h].last \cup {k}
        BY SMT, <4>1 DEF Delivery
      <4>4. ASSUME ~hook'[h].failed PROVE ~d.failed /\ (ok \/ ErrorIgnored(d.ref, k))
        <5>1. hook'[h].failed = (d.failed \/ (~ok /\ ~ErrorIgnored(d.ref, k)))
          BY SMT, <4>1 DEF Delivery
        <5> QED BY <4>4, <5>1
      <4>5. ASSUME ~hook'[h].failed,
                   NEW t \in d.listed, t \notin hook'[h].first \cup hook'[h].last
            PROVE  Gone(t)'
        <5>1. t \in Token /\ t \in Covered(d.ref) /\ Revoked(t)
          BY <1>0, <2>6, <4>2, <4>5 DEF DeliverySound, HookState
        <5>2. CASE t # k
          BY <2>3, <2>6, <4>2, <4>3, <4>4, <4>5, <5>1, <5>2 DEF DeliverySound
        <5>3. CASE t = k
          <6>1. ~ErrorIgnored(d.ref, k)
            BY <4>2, <5>1, <5>3, RefKinds, KeysDisjoint DEF ErrorIgnored
          <6>2. ok
            BY <4>4, <4>5, <6>1
          <6>3. cache'[k] = Absent
            BY <1>0, <4>1, <6>2 DEF Delete, Write
          <6> QED BY <3>3, <5>1, <5>3, <6>3, DeleteMakesGone
        <5> QED BY <5>2, <5>3
      <4> HIDE DEF d
      <4> QED BY <2>1, <2>6, <4>2, <4>3, <4>5 DEF DeliverySound, Revoked, d
    <3>4. CASE ReplyEvent(h)
      BY <1>0, <3>4 DEF ReplyEvent, Reply, Free, Delivery, DeliverySound
    <3> QED BY <1>6, <3>1, <3>2, <3>3, <3>4
  <2>8. ASSUME NEW t \in confirmed' PROVE Revoked(t)' /\ Gone(t)'
    <3>1. CASE t \in confirmed
      BY <1>0, <2>1, <2>3, <2>6, <3>1 DEF Revoked
    <3>2. CASE t \notin confirmed
      <4>1. ReplyEvent(h) /\ t \in hook[h].listed /\ ~hook[h].failed
        BY <1>6, <2>8, <3>2 DEF Notify, ResolveEvent, Evict, ReplyEvent
      <4>2. t \in Token /\ Revoked(t) /\ Gone(t)
        BY <1>0, <2>6, <4>1 DEF ReplyEvent, Reply, DeliverySound, HookState
      <4> QED BY <2>1, <2>3, <4>2 DEF Revoked
    <3> QED BY <3>1, <3>2
  <2> QED BY <2>5, <2>7, <2>8 DEF EvictInv
<1> QED BY <1>1, <1>3, <1>4, <1>5, <1>6 DEF Next

LEMMA EvictInvariant == Spec => [](TypeOK /\ IndexSound /\ EvictInv)
<1>1. Init => TypeOK /\ IndexSound /\ EvictInv
  BY InitType, InitSound, InitEvict
<1>2. TypeOK /\ IndexSound /\ EvictInv /\ [Next]_vars => (TypeOK /\ IndexSound /\ EvictInv)'
  BY NextType, NextSound, NextEvict
<1> QED BY <1>1, <1>2, PTL DEF Spec

\* What a 204 answer reported as evicted stays out of the cache, whatever
\* calls fail and whatever else runs, unless a fill overlapped the event.
THEOREM EvictionIsFinal == Spec => []EvictionHolds
<1>1. EvictInv => EvictionHolds
  BY DEF EvictInv, EvictionHolds, Gone
<1> QED BY <1>1, EvictInvariant, PTL

\* A delivery of process deletes no token its event is not about.
THEOREM EvictionIsTargeted == Spec => []TargetedEviction
<1>1. EvictInv => TargetedEviction
  BY DEF EvictInv, DeliverySound, TargetedEviction
<1> QED BY <1>1, EvictInvariant, PTL

-----------------------------------------------------------------------------
\* A hash needs no index: whatever fails, a delivery about one has resolved it
\* to that token, and its answer 204 is about that token.
HashListed ==
  /\ \A h \in Hook : hook[h].pc = "delete" /\ hook[h].ref[1] = "hash" =>
       hook[h].ref[2] \in hook[h].listed
  /\ \A ref \in acked : ref[1] = "hash" => ref[2] \in confirmed

LEMMA NextHashListed == TypeOK /\ HashListed /\ [Next]_vars => HashListed'
<1> SUFFICES ASSUME TypeOK, HashListed, [Next]_vars PROVE HashListed'
  OBVIOUS
<1>0. hook \in [Hook -> HookState]
      /\ \A h \in Hook : hook[h].pc = "resolve" => hook[h].ref \in IndexKey
  BY DEF TypeOK, HookTypeOK
<1>1. ASSUME NEW h \in Hook, \A g \in Hook \ {h} : hook'[g] = hook[g],
             hook'[h].pc = "delete" /\ hook'[h].ref[1] = "hash" =>
               hook'[h].ref[2] \in hook'[h].listed,
             UNCHANGED <<acked, confirmed>>
      PROVE  HashListed'
  BY <1>1 DEF HashListed
<1>2. ASSUME NEW h \in Hook, NEW ev \in Event, Notify(h, ev) PROVE HashListed'
  <2> DEFINE ref == Reference(ev)
  <2>1. /\ hook'[h] = IF ref[1] = "hash"
                      THEN Delivery("delete", ref, {ref[2]}, {}, {ref[2]}, FALSE)
                      ELSE Delivery("resolve", ref, {}, {}, {}, FALSE)
        /\ \A g \in Hook \ {h} : hook'[g] = hook[g]
        /\ UNCHANGED <<acked, confirmed>>
    BY <1>0, <1>2 DEF Notify, Receive
  <2> HIDE DEF ref
  <2>2. hook'[h].pc = "delete" => hook'[h].ref[2] \in hook'[h].listed
    BY SMT, <2>1 DEF Delivery
  <2> QED BY <1>1, <2>1, <2>2
<1>3. ASSUME NEW h \in Hook, ResolveEvent(h) PROVE HashListed'
  <2>1. /\ hook'[h].ref = hook[h].ref
    BY SMT, <1>0, <1>3 DEF ResolveEvent, Resolve, Delivery
  <2>2. /\ hook[h].ref \in IndexKey
        /\ \A g \in Hook \ {h} : hook'[g] = hook[g]
        /\ UNCHANGED <<acked, confirmed>>
    BY <1>0, <1>3 DEF ResolveEvent, Resolve
  <2>3. hook[h].ref[1] # "hash"
    BY SMT, <2>2 DEF IndexKey, Kind
  <2> QED BY <1>1, <2>1, <2>2, <2>3
<1>4. ASSUME NEW h \in Hook, NEW k \in Key, Evict(h, k) PROVE HashListed'
  <2>1. hook'[h].ref = hook[h].ref /\ hook'[h].listed = hook[h].listed
    BY SMT, <1>0, <1>4 DEF Evict, DeleteKey, Delivery
  <2>2. /\ hook[h].pc = "delete" /\ \A g \in Hook \ {h} : hook'[g] = hook[g]
        /\ UNCHANGED <<acked, confirmed>>
    BY <1>0, <1>4 DEF Evict, DeleteKey
  <2> QED BY <1>1, <2>1, <2>2 DEF HashListed
<1>5. ASSUME NEW h \in Hook, ReplyEvent(h) PROVE HashListed'
  <2>1. /\ hook[h].pc = "delete" /\ \A g \in Hook \ {h} : hook'[g] = hook[g]
        /\ hook'[h] = Free
        /\ acked' = IF hook[h].failed THEN acked ELSE acked \cup {hook[h].ref}
        /\ confirmed' = IF hook[h].failed THEN confirmed ELSE confirmed \cup hook[h].listed
    BY <1>0, <1>5 DEF ReplyEvent, Reply
  <2>2. Free.pc # "delete"
    BY SMT DEF Free, Delivery
  <2> QED BY <2>1, <2>2 DEF HashListed
<1>6. CASE UNCHANGED <<hook, acked, confirmed>>
  BY <1>6 DEF HashListed
<1> QED BY <1>2, <1>3, <1>4, <1>5, <1>6
        DEF Next, ASRevoke, Handle, Housekeeping, Tick, vars

\* On any cache, failing ones included: once an event that names a token by
\* its hash was answered with 204, the token is out of the cache and stays out,
\* unless a fill overlapped an event about it.
THEOREM HashEventsAreFinal ==
  Spec => [](\A t \in Token : <<"hash", t>> \in acked /\ t \notin overlapped =>
               cache[t] = Absent)
<1>1. Init => HashListed
  <2>1. Free.pc # "delete"
    BY SMT DEF Free, Delivery
  <2> QED BY <2>1 DEF Init, HookInit, HashListed
<1>2. HashListed => \A t \in Token : <<"hash", t>> \in acked => t \in confirmed
  <2>1. \A t \in Token : <<"hash", t>>[1] = "hash" /\ <<"hash", t>>[2] = t
    BY SMT
  <2> QED BY <2>1 DEF HashListed
<1>3. HashListed /\ EvictInv =>
        \A t \in Token : <<"hash", t>> \in acked /\ t \notin overlapped => cache[t] = Absent
  BY <1>2 DEF EvictInv, Gone
<1> QED BY <1>1, <1>3, NextHashListed, EvictInvariant, PTL DEF Spec

-----------------------------------------------------------------------------
(***************************************************************************)
(* The refinement of TokenLease.  StaleInv bounds the leases that are      *)
(* granted; that a closed token stays closed is Gone once more, with an    *)
(* expired entry as good as none.                                          *)
(***************************************************************************)
LEMMA RequestKeepsClosed ==
  ASSUME TypeOK, NEW r \in Request, RequestStep(r), NEW t \in Token, Closed(t)
  PROVE  Closed(t)'
<1> USE DEF TypeOK, RequestTypeOK, RequestState, Filling, Waiting, Indexing
<1>0. /\ req \in [Request -> RequestState] /\ Revoked(t) /\ ~Live(t)
      /\ \A q \in Request : req[q].tok = t => req[q].pc \notin Waiting
  BY DEF Closed
<1>1. UNCHANGED <<now, revokedAt>> /\ \A q \in Request \ {r} : req'[q] = req[q]
  BY <1>0 DEF RequestStep, Lookup, Answer, ComputeTTL, SetClaims, IndexJTI,
     ReadIndex, WriteIndex, Goto, Return, AfterIndex
<1>2. cache'[t] = cache[t]
  BY <1>0, RequestTokenFrame DEF TokenFrame
<1>3. ASSUME req'[r].tok = t, req'[r].pc \in Waiting PROVE FALSE
  <2>1. CASE Answer(r)
    BY SMT, <1>0, <1>3, <2>1 DEF Answer, Active, Return, Idle
  <2>2. CASE ComputeTTL(r)
    BY SMT, <1>0, <1>3, <2>2 DEF ComputeTTL, Return, Idle
  <2> QED BY SMT, <1>0, <1>3, <2>1, <2>2
          DEF RequestStep, Lookup, SetClaims, IndexJTI, ReadIndex, WriteIndex, WritePC,
              Goto, Return, AfterIndex, Idle
<1> QED BY <1>0, <1>1, <1>2, <1>3 DEF Closed, Revoked, Live

\* The abstract state of the next step closes what Closed says.
LEMMA ClosedStays ==
  ASSUME \A t \in Token : Closed(t) => Closed(t)'
  PROVE  Lease!Close
<1>1. \A t \in Token : Closed(t)' => revokedAt'[t] # Never /\ ~(now' <= cache'[t].exp)
  BY DEF Closed, Revoked, Live
<1> QED BY <1>1 DEF Lease!Close, Lease!Revoked, Lease!Leased, Lease!Never, Never

LEMMA GrantStep ==
  ASSUME TypeOK, StaleInv, NEW r \in Request, RequestStep(r), NEW t \in Token,
         req[r].pc = "set", req[r].tok = t,
         cache'[t] = [hashes |-> {}, exp |-> now + req[r].ttl],
         \A s \in Token \ {t} : cache'[s] = cache[s],
         UNCHANGED <<now, revokedAt>>
  PROVE  Lease!Grant(t)
<1> USE IntrospectionAssumption
<1>1. /\ now \in Nat /\ req[r].at \in Nat /\ req[r].ttl \in Nat
      /\ revokedAt[t] \in Nat \cup {Never} /\ ExpOf[t] \in Nat
  BY DEF TypeOK, CacheTypeOK, RequestTypeOK, RequestState
<1>2. FillTimely(r) /\ req[r].pc \in Filling
  BY DEF StaleInv, Filling, Waiting
<1>3. /\ now <= req[r].at + MaxLag /\ req[r].ttl <= CacheTTL
      /\ revokedAt[t] # Never => req[r].at <= revokedAt[t]
      /\ ExpOf[t] # 0 => req[r].at < ExpOf[t] /\ req[r].ttl <= ExpOf[t] - req[r].at
  BY SMT, <1>2 DEF FillTimely, Revoked
<1>4. t \notin {s \in Token : Closed(s)}
  BY DEF Closed, Waiting
<1>5. Lease!LatelyActive(t)
  BY SMT, <1>1, <1>3 DEF Lease!LatelyActive, Lease!Revoked, Lease!Never, Never
<1> DEFINE end == now + req[r].ttl
<1>6. end \in now..(now + CacheTTL) /\ (ExpOf[t] # 0 => end <= ExpOf[t] + MaxLag)
  BY SMT, <1>1, <1>3
<1>7. cache'[t].exp = end
  BY SMT
<1> HIDE DEF end
<1>8. [s \in Token |-> cache'[s].exp] = [[s \in Token |-> cache[s].exp] EXCEPT ![t] = end]
  BY <1>7
<1> QED BY <1>4, <1>5, <1>6, <1>8 DEF Lease!Grant

\* Steps that change no token's entry, or only remove some.
LEMMA WithdrawStep ==
  ASSUME UNCHANGED <<now, revokedAt>>,
         \A t \in Token : cache'[t] = cache[t] \/ cache'[t] = Absent
  PROVE  \E tokens \in SUBSET Token : Lease!Withdraw(tokens)
<1>1. PICK tokens \in SUBSET Token : tokens = {t \in Token : cache'[t] # cache[t]}
  OBVIOUS
<1>2. Absent.exp = Never
  BY SMT DEF Absent, Never
<1>3. \A t \in Token : cache'[t].exp = IF t \in tokens THEN Never ELSE cache[t].exp
  BY <1>1, <1>2
<1>4. Lease!Withdraw(tokens)
  BY <1>3 DEF Lease!Withdraw, Lease!Never, Never
<1> QED BY <1>4

LEMMA LeaseStep ==
  ASSUME TypeOK, StaleInv, [Next]_vars
  PROVE  [Lease!Next]_(Lease!vars)
<1>0. now \in Nat /\ \A t \in Token : cache[t].exp \in Int
  BY DEF TypeOK, CacheTypeOK, Key, Entry
<1>1. ASSUME NEW ref \in Ref, ASRevoke(ref) PROVE Lease!Next
  <2>1. UNCHANGED <<now, cache, req>>
    BY <1>1 DEF ASRevoke
  <2>2. Lease!Revoke(Covered(ref)) /\ Covered(ref) \in SUBSET Token
    BY <1>1, CoveredType DEF ASRevoke, Lease!Revoke, Lease!Revoked, Lease!Never, Revoked, Never
  <2>3. \A t \in Token : Closed(t) => Closed(t)'
    BY <1>1, <2>1 DEF ASRevoke, Closed, Revoked, Live
  <2> QED BY <2>2, <2>3, ClosedStays DEF Lease!Next
<1>2. ASSUME NEW r \in Request, Handle(r) PROVE Lease!Next
  <2>1. UNCHANGED <<now, revokedAt>>
    BY <1>2 DEF Handle, RequestStep, Lookup, Answer, ComputeTTL, SetClaims, IndexJTI,
       ReadIndex, WriteIndex
  <2>2. Lease!Close
    BY <1>2, RequestKeepsClosed, ClosedStays DEF Handle
  <2>3. CASE \A t \in Token : cache'[t] = cache[t]
    BY <2>1, <2>2, <2>3, WithdrawStep DEF Lease!Next
  <2>4. ASSUME NEW t \in Token, cache'[t] # cache[t] PROVE Lease!Next
    <3>1. TokenFrame(r)
      BY <1>2, RequestTokenFrame DEF Handle
    <3>2. /\ req[r].pc = "set" /\ req[r].tok = t
          /\ cache'[t] = [hashes |-> {}, exp |-> now + req[r].ttl]
          /\ \A s \in Token \ {t} : cache'[s] = cache[s]
      BY <2>4, <3>1 DEF TokenFrame
    <3>3. Lease!Grant(t)
      BY <1>2, <2>1, <3>2, GrantStep DEF Handle
    <3> QED BY <2>2, <3>3 DEF Lease!Next
  <2> QED BY <2>3, <2>4
<1>3. CASE \/ \E h \in Hook, ev \in Event : Notify(h, ev)
           \/ \E h \in Hook : ResolveEvent(h)
           \/ \E h \in Hook, k \in Key : Evict(h, k)
           \/ \E h \in Hook : ReplyEvent(h)
           \/ Housekeeping
  <2>1. now' = now /\ \A t \in Token : cache'[t] = cache[t] \/ cache'[t] = Absent
    BY <1>3, RemovalFrame DEF Notify, ResolveEvent, Evict, ReplyEvent
  <2>2. UNCHANGED <<revokedAt, req>>
    BY <1>3 DEF Notify, ResolveEvent, Evict, ReplyEvent, Housekeeping, RevokeCached
  <2>3. ~(now <= Absent.exp)
    BY SMT, <1>0 DEF Absent
  <2>4. \A t \in Token : Closed(t) => Closed(t)'
    BY <2>1, <2>2, <2>3 DEF Closed, Revoked, Live
  <2> QED BY <2>1, <2>2, <2>4, ClosedStays, WithdrawStep DEF Lease!Next
<1>4. CASE Tick
  <2>1. now' = now + 1 /\ UNCHANGED <<cache, revokedAt, req>>
    BY <1>4 DEF Tick
  <2>2. \A t \in Token : ~(now <= cache[t].exp) => ~(now + 1 <= cache[t].exp)
    BY SMT, <1>0
  <2>3. \A t \in Token : Closed(t) => Closed(t)'
    BY <2>1, <2>2 DEF Closed, Revoked, Live
  <2>4. Lease!Tick
    BY <2>1 DEF Lease!Tick
  <2> QED BY <2>3, <2>4, ClosedStays DEF Lease!Next
<1>5. CASE UNCHANGED vars
  BY <1>5 DEF vars, Lease!vars, Closed, Revoked, Live
<1> QED BY <1>1, <1>2, <1>3, <1>4, <1>5 DEF Next

\* Cache, request path, index and webhook implement leases on tokens, for any
\* tokens, TTL and lag, with failing caches and lost or repeated webhooks: a
\* lease rests on an answer at most MaxLag old and lasts at most CacheTTL, and
\* a revoked token once out of the cache with no fill under way stays out.
THEOREM CacheImplementsLease == Spec => ImplementsLease
<1>1. Init => Lease!Init
  <2> SUFFICES ASSUME Init PROVE Lease!Init
    OBVIOUS
  <2>1. /\ now = 0 /\ cache = [k \in Key |-> Absent] /\ revokedAt = [t \in Token |-> Never]
    BY DEF Init, CacheInit, RequestInit
  <2>2. Absent.exp = Never
    BY SMT DEF Absent, Never
  <2>3. \A t \in Token : cache[t].exp = Never /\ ~Closed(t)
    BY <2>1, <2>2 DEF Closed, Revoked, Key
  <2> QED BY <2>1, <2>3 DEF Lease!Init, Lease!Never, Never
<1>2. TypeOK /\ StaleInv /\ [Next]_vars => [Lease!Next]_(Lease!vars)
  BY LeaseStep
<1> QED BY <1>1, <1>2, StaleInvariant, PTL DEF Spec, ImplementsLease, Lease!Spec

-----------------------------------------------------------------------------
(***************************************************************************)
(* A revocation takes effect when the cache does not fail.  The proofs     *)
(* rest on the invariants above: an index entry names only tokens that     *)
(* carry the claim (IndexSound), and what a delivery has deleted stays     *)
(* gone (EvictInv).                                                        *)
(***************************************************************************)

(***************************************************************************)
(* The jti index on a cache that does not fail.  A jti of one token only   *)
(* is overwritten only by fills of that token, each after the token's own  *)
(* entry; their TTLs differ only when one was clamped, and an entry with a *)
(* clamped TTL lives to the token's exp.  So the index entry outlives the  *)
(* token's, and only the delivery that is about to delete the token too    *)
(* deletes it before that.                                                 *)
(***************************************************************************)
JTIKey(t) == IndexKeyOf(t, "jti")

OwnJTI(t) == HasClaim(t, "jti") /\ Covered(JTIKey(t)) = {t}

Unexpired(t) == ExpOf[t] = 0 \/ now <= ExpOf[t]

\* An entry with expiry exp is there while one with expiry other is and the
\* token has not expired.
Outlives(t, exp, other) == other <= exp \/ (ExpOf[t] # 0 /\ ExpOf[t] <= exp)

FillLasts(r) ==
  req[r].pc \in Filling \ {"answered"} =>
    /\ req[r].ttl <= CacheTTL
    /\ Outlives(req[r].tok, now + req[r].ttl, now + CacheTTL)

\* process deletes one index entry, the event's own, and for a jti before
\* the token it was resolved to.
DeliveryOrder(h) ==
  LET d == hook[h] IN
  d.pc = "delete" =>
    /\ (d.first \cup d.last) \cap IndexKey \subseteq {d.ref}
    /\ d.ref[1] = "jti" =>
         /\ d.ref \notin d.last
         /\ d.ref \in d.first => d.last # {} /\ d.last = d.listed

JTIPending(t) == \E r \in Request : req[r].pc = "jti" /\ req[r].tok = t

JTIGoing(t) ==
  \E h \in Hook : hook[h].pc = "delete" /\ hook[h].ref = JTIKey(t) /\ t \in hook[h].last

IndexLasts(t) ==
  OwnJTI(t) /\ Live(t) /\ Unexpired(t) /\ ~JTIPending(t) /\ ~JTIGoing(t) =>
    /\ t \in cache[JTIKey(t)].hashes
    /\ Outlives(t, cache[JTIKey(t)].exp, cache[t].exp)

JTIInv ==
  /\ \A r \in Request : FillLasts(r)
  /\ \A h \in Hook : DeliveryOrder(h)
  /\ \A t \in Token : cache[t].exp <= now + CacheTTL /\ IndexLasts(t)

\* The key of a token's own jti is an index key, and no other token's.
LEMMA OwnKey ==
  ASSUME NEW t \in Token, OwnJTI(t)
  PROVE  /\ JTIKey(t) \in IndexKey /\ JTIKey(t) \in Key /\ JTIKey(t) \notin Token
         /\ JTIKey(t)[1] = "jti"
         /\ \A s \in Token : JTIKey(s) = JTIKey(t) => s = t
         /\ \A s \in Token, kind \in {"sub", "sid"} : IndexKeyOf(s, kind) # JTIKey(t)
<1>1. JTIKey(t) \in IndexKey
  BY IndexKeyOfType DEF JTIKey, Kind
<1>2. ASSUME NEW s \in Token, JTIKey(s) = JTIKey(t) PROVE s = t
  <2>1. s \in Covered(JTIKey(s))
    BY InCovered DEF JTIKey, Kind
  <2> QED BY <1>2, <2>1 DEF OwnJTI
<1>3. JTIKey(t)[1] = "jti"
  BY SMT DEF JTIKey, IndexKeyOf
<1>4. ASSUME NEW s \in Token, NEW kind \in {"sub", "sid"} PROVE IndexKeyOf(s, kind)[1] = kind
  BY SMT DEF IndexKeyOf
<1>5. "sub" # "jti" /\ "sid" # "jti"
  OBVIOUS
<1> QED BY <1>1, <1>2, <1>3, <1>4, <1>5, KeysDisjoint DEF Key

LEMMA InitJTI == Init => JTIInv
<1> SUFFICES ASSUME Init PROVE JTIInv
  OBVIOUS
<1>1. /\ now = 0 /\ \A t \in Token : cache[t] = Absent
      /\ \A r \in Request : req[r] = Idle
      /\ \A h \in Hook : hook[h] = Free
  BY DEF Init, CacheInit, RequestInit, HookInit, Key
<1>2. Idle.pc = "idle" /\ Free.pc = "free" /\ Absent.exp = -1
  BY SMT DEF Idle, Free, Delivery, Absent
<1>3. \A r \in Request : FillLasts(r)
  BY <1>1, <1>2 DEF FillLasts, Filling, Waiting, Indexing
<1>4. \A h \in Hook : DeliveryOrder(h)
  BY <1>1, <1>2 DEF DeliveryOrder
<1>5. ASSUME NEW t \in Token PROVE cache[t].exp <= now + CacheTTL /\ ~Live(t)
  BY SMT, <1>1, <1>2, IntrospectionAssumption DEF Live
<1> QED BY <1>3, <1>4, <1>5 DEF JTIInv, IndexLasts

\* A request moves at most itself, and within a fill keeps its token and TTL.
LEMMA RequestMoves ==
  ASSUME TypeOK, NEW r \in Request, RequestStep(r)
  PROVE  /\ UNCHANGED <<now, revokedAt>>
         /\ \A q \in Request \ {r} : req'[q] = req[q]
         /\ \/ req'[r] = req[r]
            \/ req'[r].pc \in {"idle", "asking", "answered"}
            \/ ComputeTTL(r) /\ req[r].pc = "answered"
            \/ /\ req[r].pc \in Filling \ {"answered"}
               /\ req'[r].tok = req[r].tok /\ req'[r].ttl = req[r].ttl
<1> USE DEF TypeOK, RequestTypeOK, RequestState, Filling, Waiting, Indexing
<1>0. req \in [Request -> RequestState]
  OBVIOUS
<1>1. UNCHANGED <<now, revokedAt>>
  BY DEF RequestStep, Lookup, Answer, ComputeTTL, SetClaims, IndexJTI, ReadIndex, WriteIndex
<1>2. \A q \in Request \ {r} : req'[q] = req[q]
  BY SMT, <1>0 DEF RequestStep, Lookup, Answer, ComputeTTL, SetClaims, IndexJTI,
     ReadIndex, WriteIndex, Goto, Return, AfterIndex
<1>3. \/ req'[r] = req[r]
      \/ req'[r].pc \in {"idle", "asking", "answered"}
      \/ ComputeTTL(r) /\ req[r].pc = "answered"
      \/ /\ req[r].pc \in Filling \ {"answered"}
         /\ req'[r].tok = req[r].tok /\ req'[r].ttl = req[r].ttl
  BY SMT, <1>0 DEF RequestStep, Lookup, Answer, ComputeTTL, SetClaims, IndexJTI,
     ReadIndex, WriteIndex, WritePC, Goto, Return, AfterIndex, Idle
<1> QED BY <1>1, <1>2, <1>3

\* ClampedTTL: the full TTL, or what is left of the token's lifetime.
LEMMA RequestFillLasts ==
  ASSUME TypeOK, JTIInv, NEW r \in Request, RequestStep(r), NEW q \in Request
  PROVE  FillLasts(q)'
<1>0. req \in [Request -> RequestState] /\ now \in Nat /\ FillLasts(q)
  BY DEF TypeOK, RequestTypeOK, CacheTypeOK, JTIInv
<1>1. now' = now
  BY RequestMoves
<1>2. CASE req'[q] = req[q]
  BY <1>0, <1>1, <1>2 DEF FillLasts, Outlives
<1>3. CASE req'[q].pc \in {"idle", "asking", "answered"}
  BY <1>3 DEF FillLasts, Filling, Waiting, Indexing
<1>4. CASE q = r /\ ComputeTTL(r) /\ req[r].pc = "answered"
  <2> DEFINE t == req[r].tok
             ttl == ClampedTTL(t)
  <2>1. t \in Token
    BY <1>4 DEF TypeOK, RequestTypeOK
  <2>2. ttl <= CacheTTL /\ Outlives(t, now + ttl, now + CacheTTL)
    BY SMT, <1>0, <2>1, IntrospectionAssumption DEF ClampedTTL, Outlives
  <2>3. CASE req'[r] = Idle
    BY SMT, <1>3, <1>4, <2>3 DEF Idle
  <2>4. CASE req' = [req EXCEPT ![r].pc = "set", ![r].ttl = ttl]
    <3>1. req'[r].ttl = ttl /\ req'[r].tok = t
      BY SMT, <1>0, <2>4 DEF RequestState
    <3> HIDE DEF ttl
    <3> QED BY <1>1, <1>4, <2>2, <3>1 DEF FillLasts
  <2> QED BY <1>0, <1>4, <2>3, <2>4 DEF ComputeTTL, Return
<1>5. CASE /\ req[q].pc \in Filling \ {"answered"}
           /\ req'[q].tok = req[q].tok /\ req'[q].ttl = req[q].ttl
  BY <1>0, <1>1, <1>5 DEF FillLasts, Outlives
<1> QED BY <1>2, <1>3, <1>4, <1>5, RequestMoves

\* What a request does to the entries of a token and of its own jti.
LEMMA RequestJTIFrame ==
  ASSUME TypeOK, ~Fallible, NEW r \in Request, RequestStep(r),
         NEW t \in Token, OwnJTI(t)
  PROVE  \/ /\ req[r].pc = "set" /\ req[r].tok = t
            /\ req'[r].pc = "jti" /\ req'[r].tok = t
         \/ /\ req[r].pc = "jti" /\ req[r].tok = t
            /\ cache'[t] = cache[t]
            /\ cache'[JTIKey(t)] = [hashes |-> {t}, exp |-> now + req[r].ttl]
         \/ /\ cache'[t] = cache[t] /\ cache'[JTIKey(t)] = cache[JTIKey(t)]
            /\ ~(req[r].pc = "jti" /\ req[r].tok = t)
<1> USE DEF TypeOK, RequestTypeOK, RequestState, Filling, Waiting, Indexing
<1>0. /\ req \in [Request -> RequestState] /\ cache \in [Key -> Entry]
      /\ t \in Key
      /\ \A s \in Token : s # JTIKey(t)
      /\ Outcome = {TRUE}
  BY OwnKey DEF CacheTypeOK, Key, Outcome
<1>1. ASSUME SetClaims(r), req[r].tok = t
      PROVE  /\ req[r].pc = "set" /\ req[r].tok = t
             /\ req'[r].pc = "jti" /\ req'[r].tok = t
  BY SMT, <1>0, <1>1 DEF SetClaims, Goto
<1>2. ASSUME SetClaims(r), req[r].tok # t
      PROVE  /\ cache'[t] = cache[t] /\ cache'[JTIKey(t)] = cache[JTIKey(t)]
             /\ ~(req[r].pc = "jti" /\ req[r].tok = t)
  <2>1. req[r].tok \in Token /\ req[r].pc = "set"
    BY <1>2 DEF SetClaims
  <2>2. \A k \in Key : k # req[r].tok => cache'[k] = cache[k]
    BY <1>0, <1>2 DEF SetClaims, Set, Write
  <2> QED BY <1>0, <1>2, <2>1, <2>2, OwnKey
<1>3. ASSUME IndexJTI(r), req[r].tok = t
      PROVE  /\ req[r].pc = "jti" /\ req[r].tok = t
             /\ cache'[t] = cache[t]
             /\ cache'[JTIKey(t)] = [hashes |-> {t}, exp |-> now + req[r].ttl]
  <2>1. cache' = [cache EXCEPT ![JTIKey(t)] = [hashes |-> {t}, exp |-> now + req[r].ttl]]
    BY <1>0, <1>3 DEF IndexJTI, OwnJTI, Set, Write, JTIKey
  <2> QED BY <1>0, <1>3, <2>1, OwnKey DEF IndexJTI
<1>4. ASSUME IndexJTI(r), req[r].tok # t
      PROVE  cache'[t] = cache[t] /\ cache'[JTIKey(t)] = cache[JTIKey(t)]
  <2> DEFINE k == JTIKey(req[r].tok)
  <2>1. req[r].tok \in Token
    BY <1>4 DEF IndexJTI
  <2>2. k # JTIKey(t) /\ k \in IndexKey /\ k # t
    BY <1>4, <2>1, OwnKey, IndexKeyOfType, KeysDisjoint DEF JTIKey, Kind
  <2>3. \A k2 \in Key : k2 # k => cache'[k2] = cache[k2]
    BY <1>0, <1>4 DEF IndexJTI, Set, Write, JTIKey
  <2> HIDE DEF k
  <2> QED BY <1>0, <2>2, <2>3, OwnKey
<1>5. ASSUME NEW kind \in {"sub", "sid"}, WriteIndex(r, kind)
      PROVE  /\ cache'[t] = cache[t] /\ cache'[JTIKey(t)] = cache[JTIKey(t)]
             /\ req[r].pc # "jti"
  <2> DEFINE k == IndexKeyOf(req[r].tok, kind)
  <2>1. req[r].tok \in Token /\ req[r].pc # "jti"
    BY <1>5 DEF WriteIndex, WritePC
  <2>2. k # JTIKey(t) /\ k \in IndexKey /\ k # t
    BY <2>1, OwnKey, IndexKeyOfType, KeysDisjoint DEF Kind
  <2>3. \A k2 \in Key : k2 # k => cache'[k2] = cache[k2]
    BY <1>0, <1>5 DEF WriteIndex, Set, Write
  <2> HIDE DEF k
  <2> QED BY <1>0, <2>1, <2>2, <2>3, OwnKey
<1>6. ASSUME \/ \E s \in Token : Lookup(r, s)
             \/ Answer(r) \/ ComputeTTL(r)
             \/ \E kind \in {"sub", "sid"} : ReadIndex(r, kind)
      PROVE  cache' = cache /\ req[r].pc # "jti"
  BY <1>6 DEF Lookup, Answer, ComputeTTL, ReadIndex
<1> QED BY <1>1, <1>2, <1>3, <1>4, <1>5, <1>6 DEF RequestStep

\* The index entry a fill writes outlives the token's entry.
LEMMA RequestIndexLasts ==
  ASSUME TypeOK, JTIInv, ~Fallible, NEW r \in Request, RequestStep(r), UNCHANGED hook,
         NEW t \in Token
  PROVE  IndexLasts(t)'
<1> SUFFICES ASSUME OwnJTI(t), Live(t)', Unexpired(t)', ~JTIPending(t)', ~JTIGoing(t)'
             PROVE  /\ t \in cache'[JTIKey(t)].hashes
                    /\ Outlives(t, cache'[JTIKey(t)].exp, cache'[t].exp)
  BY DEF IndexLasts, OwnJTI, HasClaim, IntroToCommonClaims, Covered, JTIKey, IndexKeyOf, Outlives
<1>0. /\ now' = now /\ ~JTIGoing(t) /\ Unexpired(t)
      /\ \A q \in Request \ {r} : req'[q] = req[q]
      /\ FillLasts(r) /\ IndexLasts(t) /\ cache[t].exp <= now + CacheTTL
  BY RequestMoves DEF JTIGoing, JTIKey, IndexKeyOf, Unexpired, JTIInv
<1>1. CASE req[r].pc = "set" /\ req'[r].pc = "jti" /\ req'[r].tok = t
  BY <1>1 DEF JTIPending
<1>2. CASE /\ req[r].pc = "jti" /\ req[r].tok = t /\ cache'[t] = cache[t]
           /\ cache'[JTIKey(t)] = [hashes |-> {t}, exp |-> now + req[r].ttl]
  <2>1. Outlives(t, now + req[r].ttl, now + CacheTTL)
    BY <1>0, <1>2 DEF FillLasts, Filling, Indexing
  <2>2. /\ now \in Nat /\ req[r].ttl \in Nat /\ cache[t].exp \in Int /\ ExpOf[t] \in Nat
        /\ CacheTTL \in Nat
    BY IntrospectionAssumption
       DEF TypeOK, CacheTypeOK, RequestTypeOK, RequestState, Entry, Key
  <2>3. Outlives(t, now + req[r].ttl, cache[t].exp)
    BY SMT, <1>0, <2>1, <2>2 DEF Outlives
  <2> QED BY SMT, <1>2, <2>3
<1>3. CASE /\ cache'[t] = cache[t] /\ cache'[JTIKey(t)] = cache[JTIKey(t)]
           /\ ~(req[r].pc = "jti" /\ req[r].tok = t)
  <2>1. ~JTIPending(t)
    BY <1>0, <1>3 DEF JTIPending
  <2>2. Live(t)
    BY <1>0, <1>3 DEF Live
  <2> QED BY <1>0, <1>3, <2>1, <2>2 DEF IndexLasts
<1> QED BY <1>1, <1>2, <1>3, RequestJTIFrame

\* The delivery that takes a step.
HookStep(h) ==
  \/ \E ev \in Event : Notify(h, ev)
  \/ ResolveEvent(h)
  \/ \E k \in Key : Evict(h, k)
  \/ ReplyEvent(h)

\* What process has left to delete at each of its steps.
LEMMA HookMoves ==
  ASSUME TypeOK, IndexSound, ~Fallible, NEW h \in Hook, HookStep(h)
  PROVE  /\ UNCHANGED <<now, revokedAt, req>>
         /\ \A g \in Hook \ {h} : hook'[g] = hook[g]
         /\ \/ /\ hook[h].pc = "free" /\ UNCHANGED cache
               /\ \/ hook'[h].pc = "resolve" /\ hook'[h].first = {} /\ hook'[h].last = {}
                  \/ \E t \in Token : hook'[h] = Delivery("delete", <<"hash", t>>, {t}, {}, {t}, FALSE)
            \/ /\ hook[h].pc = "resolve" /\ UNCHANGED cache
               /\ hook[h].ref \in IndexKey
               /\ LET ref == hook[h].ref  hashes == IndexHashes(ref, TRUE) IN
                  hook'[h] =
                    IF ref[1] # "jti" THEN Delivery("delete", ref, hashes, {ref}, hashes, FALSE)
                    ELSE IF hashes # {} THEN Delivery("delete", ref, {ref}, hashes, hashes, FALSE)
                    ELSE Delivery("delete", ref, {}, {}, {}, FALSE)
            \/ /\ hook[h].pc = "delete"
               /\ \E k \in Key :
                    /\ k \in IF hook[h].first # {} THEN hook[h].first ELSE hook[h].last
                    /\ cache' = [cache EXCEPT ![k] = Absent]
                    /\ hook'[h] =
                         Delivery("delete", hook[h].ref, hook[h].first \ {k},
                                  IF hook[h].first # {} THEN hook[h].last ELSE hook[h].last \ {k},
                                  hook[h].listed, hook[h].failed)
            \/ /\ hook[h].pc = "delete" /\ UNCHANGED cache
               /\ hook[h].first = {} /\ hook[h].last = {}
               /\ hook'[h] = Free
<1>0. /\ hook \in [Hook -> HookState] /\ Outcome = {TRUE}
      /\ hook[h].pc = "resolve" => hook[h].ref \in IndexKey
  BY DEF TypeOK, HookTypeOK, Outcome
<1>1. ASSUME NEW ev \in Event, Notify(h, ev)
      PROVE  /\ UNCHANGED <<now, revokedAt, req, cache>> /\ hook[h].pc = "free"
             /\ \A g \in Hook \ {h} : hook'[g] = hook[g]
             /\ \/ hook'[h].pc = "resolve" /\ hook'[h].first = {} /\ hook'[h].last = {}
                \/ \E t \in Token : hook'[h] = Delivery("delete", <<"hash", t>>, {t}, {}, {t}, FALSE)
  <2> DEFINE ref == Reference(ev)
  <2>1. /\ UNCHANGED <<now, revokedAt, req, cache>> /\ hook[h].pc = "free" /\ ref \in Ref
        /\ \A g \in Hook \ {h} : hook'[g] = hook[g]
        /\ hook'[h] = IF ref[1] = "hash"
                      THEN Delivery("delete", ref, {ref[2]}, {}, {ref[2]}, FALSE)
                      ELSE Delivery("resolve", ref, {}, {}, {}, FALSE)
    BY <1>0, <1>1 DEF Notify, Receive
  <2> HIDE DEF ref
  <2>2. CASE ref[1] # "hash"
    BY SMT, <2>1, <2>2 DEF Delivery
  <2>3. CASE ref[1] = "hash"
    <3>1. PICK t \in Token : ref = <<"hash", t>>
      BY SMT, <2>1, <2>3 DEF Ref, IndexKey, Kind
    <3>2. ref[2] = t
      BY SMT, <3>1
    <3> QED BY <2>1, <2>3, <3>1, <3>2
  <2> QED BY <2>1, <2>2, <2>3
<1>2. CASE ResolveEvent(h)
  <2>1. {~o : o \in Outcome} = {FALSE}
    BY <1>0
  <2> DEFINE ref == hook[h].ref
             hashes == IndexHashes(ref, TRUE)
             d == IF ref[1] # "jti" THEN Delivery("delete", ref, hashes, {ref}, hashes, FALSE)
                  ELSE IF hashes # {} THEN Delivery("delete", ref, {ref}, hashes, hashes, FALSE)
                  ELSE Delivery("delete", ref, {}, {}, {}, FALSE)
  <2>2. /\ hook[h].pc = "resolve" /\ UNCHANGED <<now, revokedAt, req, cache>>
        /\ hook' = [hook EXCEPT ![h] = d]
    BY <1>0, <1>2, <2>1 DEF ResolveEvent, Resolve
  <2>3. hook'[h] = d /\ \A g \in Hook \ {h} : hook'[g] = hook[g]
    <3> HIDE DEF d
    <3> QED BY <1>0, <2>2
  <2> QED BY <1>0, <2>2, <2>3
<1>3. ASSUME NEW k \in Key, Evict(h, k)
      PROVE  /\ UNCHANGED <<now, revokedAt, req>> /\ hook[h].pc = "delete"
             /\ \A g \in Hook \ {h} : hook'[g] = hook[g]
             /\ k \in IF hook[h].first # {} THEN hook[h].first ELSE hook[h].last
             /\ cache' = [cache EXCEPT ![k] = Absent]
             /\ hook'[h] =
                  Delivery("delete", hook[h].ref, hook[h].first \ {k},
                           IF hook[h].first # {} THEN hook[h].last ELSE hook[h].last \ {k},
                           hook[h].listed, hook[h].failed)
  <2> DEFINE d == hook[h]
             e(failed) == Delivery("delete", d.ref, d.first \ {k},
                            IF d.first # {} THEN d.last ELSE d.last \ {k}, d.listed, failed)
             f == d.failed \/ (~TRUE /\ ~ErrorIgnored(d.ref, k))
  <2>1. /\ UNCHANGED <<now, revokedAt, req>> /\ d.pc = "delete"
        /\ k \in IF d.first # {} THEN d.first ELSE d.last
        /\ cache' = [cache EXCEPT ![k] = Absent]
        /\ hook' = [hook EXCEPT ![h] = e(f)]
    BY <1>0, <1>3 DEF Evict, DeleteKey, Delete, Write
  <2>2. d.failed \in BOOLEAN
    BY <1>0 DEF HookState
  <2>3. f = d.failed
    BY <2>2
  <2> HIDE DEF f
  <2>4. hook'[h] = e(f) /\ \A g \in Hook \ {h} : hook'[g] = hook[g]
    <3> HIDE DEF e
    <3> QED BY <1>0, <2>1
  <2> QED BY <2>1, <2>3, <2>4
<1>4. CASE ReplyEvent(h)
  BY <1>0, <1>4 DEF ReplyEvent, Reply
<1> QED BY <1>1, <1>2, <1>3, <1>4 DEF HookStep

\* The order of the deletions is kept by every step of a delivery.
LEMMA HookKeepsOrder ==
  ASSUME TypeOK, IndexSound, JTIInv, ~Fallible, NEW h \in Hook, HookStep(h), NEW g \in Hook
  PROVE  DeliveryOrder(g)'
<1>0. DeliveryOrder(g) /\ DeliveryOrder(h)
  BY DEF JTIInv
<1>1. CASE g # h
  BY <1>0, <1>1, HookMoves DEF DeliveryOrder
<1>2. CASE g = h /\ hook'[h].pc # "delete"
  BY <1>2 DEF DeliveryOrder
<1>3. ASSUME NEW t \in Token, g = h,
             hook'[h] = Delivery("delete", <<"hash", t>>, {t}, {}, {t}, FALSE)
      PROVE  DeliveryOrder(g)'
  <2>1. /\ hook'[h].ref = <<"hash", t>> /\ hook'[h].first = {t} /\ hook'[h].last = {}
    BY SMT, <1>3 DEF Delivery
  <2>2. hook'[h].ref[1] # "jti"
    BY SMT, <2>1
  <2> QED BY <1>3, <2>1, <2>2, KeysDisjoint DEF DeliveryOrder
<1>4. ASSUME NEW ref \in IndexKey, NEW hashes \in SUBSET Token, g = h,
             hook'[h] =
               IF ref[1] # "jti" THEN Delivery("delete", ref, hashes, {ref}, hashes, FALSE)
               ELSE IF hashes # {} THEN Delivery("delete", ref, {ref}, hashes, hashes, FALSE)
               ELSE Delivery("delete", ref, {}, {}, {}, FALSE)
      PROVE  DeliveryOrder(g)'
  <2>1. /\ hook'[h].ref = ref
        /\ hook'[h].first \cup hook'[h].last \subseteq hashes \cup {ref}
        /\ ref[1] = "jti" => /\ hook'[h].last = hashes /\ hook'[h].listed = hashes
                             /\ ref \in hook'[h].first => hashes # {}
    BY SMT, <1>4 DEF Delivery
  <2>2. \A t \in hashes : t \notin IndexKey
    BY KeysDisjoint
  <2> QED BY <1>4, <2>1, <2>2 DEF DeliveryOrder
<1>5. ASSUME NEW k \in Key, g = h, hook[h].pc = "delete",
             hook'[h] = Delivery("delete", hook[h].ref, hook[h].first \ {k},
                          IF hook[h].first # {} THEN hook[h].last ELSE hook[h].last \ {k},
                          hook[h].listed, hook[h].failed)
      PROVE  DeliveryOrder(g)'
  <2>1. /\ hook'[h].ref = hook[h].ref /\ hook'[h].listed = hook[h].listed
        /\ hook'[h].first = hook[h].first \ {k}
        /\ hook'[h].last \subseteq hook[h].last
        /\ hook[h].first # {} => hook'[h].last = hook[h].last
    BY SMT, <1>5 DEF Delivery
  <2> QED BY <1>0, <1>5, <2>1 DEF DeliveryOrder
<1>6. \A ref \in IndexKey : IndexHashes(ref, TRUE) \in SUBSET Token
  BY DEF IndexHashes, TypeOK, CacheTypeOK, Entry, Key
<1>7. Free.pc = "free"
  BY SMT DEF Free, Delivery
<1> QED
  <2>1. CASE g = h /\ hook[h].pc = "free"
    <3>1. \/ hook'[h].pc = "resolve"
          \/ \E t \in Token : hook'[h] = Delivery("delete", <<"hash", t>>, {t}, {}, {t}, FALSE)
      BY <2>1, HookMoves
    <3> QED BY <1>2, <1>3, <2>1, <3>1
  <2>2. CASE g = h /\ hook[h].pc = "resolve"
    <3> DEFINE ref == hook[h].ref
               hashes == IndexHashes(ref, TRUE)
    <3>1. /\ ref \in IndexKey
          /\ hook'[h] =
               IF ref[1] # "jti" THEN Delivery("delete", ref, hashes, {ref}, hashes, FALSE)
               ELSE IF hashes # {} THEN Delivery("delete", ref, {ref}, hashes, hashes, FALSE)
               ELSE Delivery("delete", ref, {}, {}, {}, FALSE)
      BY <2>2, HookMoves
    <3> HIDE DEF ref, hashes
    <3>2. hashes \in SUBSET Token
      BY <1>6, <3>1 DEF hashes
    <3> QED BY <1>4, <2>2, <3>1, <3>2
  <2>3. CASE g = h /\ hook[h].pc = "delete"
    <3>1. \/ hook'[h] = Free
          \/ \E k \in Key :
               hook'[h] = Delivery("delete", hook[h].ref, hook[h].first \ {k},
                            IF hook[h].first # {} THEN hook[h].last ELSE hook[h].last \ {k},
                            hook[h].listed, hook[h].failed)
      BY <2>3, HookMoves
    <3> QED BY <1>2, <1>5, <1>7, <2>3, <3>1
  <2>4. hook[h].pc \in {"free", "resolve", "delete"}
    BY DEF TypeOK, HookTypeOK, HookState
  <2> QED BY <1>1, <2>1, <2>2, <2>3, <2>4

\* A step that leaves an entry and its index entry alone, and delays or
\* expires nothing, keeps the index.
LEMMA FrameIndexLasts ==
  ASSUME NEW t \in Token, IndexLasts(t),
         OwnJTI(t) /\ Live(t)' /\ Unexpired(t)' /\ ~JTIPending(t)' /\ ~JTIGoing(t)' =>
           /\ cache'[t] = cache[t] /\ cache'[JTIKey(t)] = cache[JTIKey(t)]
           /\ Live(t) /\ Unexpired(t) /\ ~JTIPending(t) /\ ~JTIGoing(t)
  PROVE  IndexLasts(t)'
BY DEF IndexLasts, OwnJTI, HasClaim, IntroToCommonClaims, Covered, JTIKey, IndexKeyOf, Outlives

\* An index entry is deleted early only by a delivery that goes on to delete
\* the token.
LEMMA HookIndexLasts ==
  ASSUME TypeOK, IndexSound, EvictInv, JTIInv, ~Fallible, NEW h \in Hook, HookStep(h),
         NEW t \in Token
  PROVE  IndexLasts(t)'
<1>0. /\ cache \in [Key -> Entry] /\ t \in Key /\ now \in Nat
      /\ IndexLasts(t) /\ DeliveryOrder(h) /\ DeliverySound(h)
  BY DEF TypeOK, CacheTypeOK, Key, JTIInv, EvictInv
<1>1. /\ now' = now /\ req' = req
      /\ \A g \in Hook \ {h} : hook'[g] = hook[g]
  BY HookMoves
<1>2. /\ Unexpired(t)' <=> Unexpired(t)
      /\ JTIPending(t)' <=> JTIPending(t)
  BY <1>1 DEF Unexpired, JTIPending
<1>3. ASSUME UNCHANGED cache, hook[h].pc = "delete" => t \notin hook[h].last
      PROVE  IndexLasts(t)'
  <2>1. JTIGoing(t) => JTIGoing(t)'
    BY <1>1, <1>3 DEF JTIGoing, JTIKey, IndexKeyOf
  <2>2. Live(t)' <=> Live(t)
    BY <1>1, <1>3 DEF Live
  <2> QED BY <1>0, <1>2, <1>3, <2>1, <2>2, FrameIndexLasts
<1>4. ASSUME NEW k \in Key, hook[h].pc = "delete",
             k \in IF hook[h].first # {} THEN hook[h].first ELSE hook[h].last,
             cache' = [cache EXCEPT ![k] = Absent],
             hook'[h] = Delivery("delete", hook[h].ref, hook[h].first \ {k},
                          IF hook[h].first # {} THEN hook[h].last ELSE hook[h].last \ {k},
                          hook[h].listed, hook[h].failed)
      PROVE  IndexLasts(t)'
  <2>1. /\ hook'[h].pc = "delete" /\ hook'[h].ref = hook[h].ref
        /\ hook[h].last \ {k} \subseteq hook'[h].last
        /\ hook[h].first # {} => hook'[h].last = hook[h].last
    BY SMT, <1>4 DEF Delivery
  <2>2. CASE k = t
    <3>1. cache'[t] = Absent
      BY <1>0, <1>4, <2>2
    <3>2. ~Live(t)'
      BY SMT, <1>0, <1>1, <3>1 DEF Live, Absent
    <3> QED BY <3>2 DEF IndexLasts
  <2>3. CASE OwnJTI(t) /\ k = JTIKey(t)
    <3>1. k \in IndexKey /\ k[1] = "jti" /\ Covered(k) = {t}
      BY <2>3, OwnKey DEF OwnJTI
    <3>2. hook[h].ref = k /\ k \in hook[h].first /\ hook[h].last # {}
          /\ hook[h].last = hook[h].listed
      BY <1>0, <1>4, <3>1 DEF DeliveryOrder
    <3>3. t \in hook[h].last
      BY <1>0, <1>4, <3>1, <3>2 DEF DeliverySound
    <3>4. t \in hook'[h].last
      BY <2>1, <3>2, <3>3
    <3>5. JTIGoing(t)'
      BY <2>1, <2>3, <3>2, <3>4 DEF JTIGoing, JTIKey, IndexKeyOf
    <3> QED BY <3>5 DEF IndexLasts
  <2>4. CASE k # t /\ ~(OwnJTI(t) /\ k = JTIKey(t))
    <3>1. JTIGoing(t) => JTIGoing(t)'
      BY <1>1, <2>1, <2>4 DEF JTIGoing, JTIKey, IndexKeyOf
    <3>2. cache'[t] = cache[t] /\ (OwnJTI(t) => cache'[JTIKey(t)] = cache[JTIKey(t)])
      BY <1>0, <1>4, <2>4, OwnKey
    <3>3. Live(t)' <=> Live(t)
      BY <1>1, <3>2 DEF Live
    <3> QED BY <1>0, <1>2, <3>1, <3>2, <3>3, FrameIndexLasts
  <2> QED BY <2>2, <2>3, <2>4
<1> QED
  <2>1. CASE hook[h].pc # "delete"
    <3>1. UNCHANGED cache
      BY <2>1, HookMoves
    <3> QED BY <1>3, <2>1, <3>1
  <2>2. CASE hook[h].pc = "delete"
    BY <1>3, <1>4, <2>2, HookMoves
  <2> QED BY <2>1, <2>2

\* cleanupLoop, Flush and Revoke: an index entry that is cleaned up had
\* expired, and so had the token or its entry.
LEMMA HousekeepingIndexLasts ==
  ASSUME TypeOK, JTIInv, ~Fallible, Housekeeping, NEW t \in Token
  PROVE  IndexLasts(t)'
<1>0. /\ cache \in [Key -> Entry] /\ t \in Key /\ now \in Nat /\ IndexLasts(t)
      /\ Outcome = {TRUE}
  BY DEF TypeOK, CacheTypeOK, Key, JTIInv, Outcome
<1>1. UNCHANGED <<now, req, hook>>
  BY DEF Housekeeping, Cleanup, Flush, RevokeCached
<1>2. /\ Unexpired(t)' <=> Unexpired(t)
      /\ JTIPending(t)' <=> JTIPending(t)
      /\ JTIGoing(t)' <=> JTIGoing(t)
  BY <1>1 DEF Unexpired, JTIPending, JTIGoing, JTIKey, IndexKeyOf
<1>3. ASSUME cache'[t] = Absent PROVE IndexLasts(t)'
  <2>1. ~Live(t)'
    BY SMT, <1>0, <1>1, <1>3 DEF Live, Absent
  <2> QED BY <2>1 DEF IndexLasts
<1>4. ASSUME cache'[t] = cache[t], OwnJTI(t) => cache'[JTIKey(t)] = cache[JTIKey(t)]
      PROVE  IndexLasts(t)'
  <2>1. Live(t)' <=> Live(t)
    BY <1>1, <1>4 DEF Live
  <2> QED BY <1>0, <1>2, <1>4, <2>1, FrameIndexLasts
<1>5. CASE Cleanup
  <2>1. \A k \in Key : cache'[k] = IF Live(k) THEN cache[k] ELSE Absent
    BY <1>5 DEF Cleanup
  <2>2. CASE ~Live(t)
    BY <1>0, <1>3, <2>1, <2>2
  <2>3. CASE Live(t) /\ ~(OwnJTI(t) /\ Unexpired(t) /\ ~JTIPending(t) /\ ~JTIGoing(t))
    BY <1>2, <2>3
       DEF IndexLasts, OwnJTI, HasClaim, IntroToCommonClaims, Covered, JTIKey, IndexKeyOf
  <2>4. CASE Live(t) /\ OwnJTI(t) /\ Unexpired(t) /\ ~JTIPending(t) /\ ~JTIGoing(t)
    <3> DEFINE k == JTIKey(t)
    <3>1. Outlives(t, cache[k].exp, cache[t].exp) /\ k \in Key
      BY <1>0, <2>4, OwnKey DEF IndexLasts
    <3>2. cache[k].exp \in Int /\ cache[t].exp \in Int /\ ExpOf[t] \in Nat
      BY <1>0, <3>1, IntrospectionAssumption DEF Entry
    <3> HIDE DEF k
    <3>3. Live(k)
      BY SMT, <1>0, <2>4, <3>1, <3>2 DEF Live, Unexpired, Outlives
    <3> QED BY <1>0, <1>4, <2>1, <2>4, <3>1, <3>3 DEF k
  <2> QED BY <2>2, <2>3, <2>4
<1>6. CASE Flush
  BY <1>0, <1>3, <1>6 DEF Flush
<1>7. ASSUME NEW s \in Token, RevokeCached(s) PROVE IndexLasts(t)'
  <2>1. cache' = [cache EXCEPT ![s] = Absent]
    BY <1>0, <1>7 DEF RevokeCached, Delete, Write
  <2>2. CASE s = t
    BY <1>0, <1>3, <2>1, <2>2
  <2>3. CASE s # t
    <3>1. OwnJTI(t) => s # JTIKey(t)
      BY OwnKey
    <3> QED BY <1>0, <1>4, <2>1, <2>3, <3>1, OwnKey
  <2> QED BY <2>2, <2>3
<1> QED BY <1>5, <1>6, <1>7 DEF Housekeeping

LEMMA NextJTI ==
  ASSUME ~Fallible
  PROVE  TypeOK /\ IndexSound /\ EvictInv /\ JTIInv /\ [Next]_vars => JTIInv'
<1> SUFFICES ASSUME TypeOK, IndexSound, EvictInv, JTIInv, [Next]_vars PROVE JTIInv'
  OBVIOUS
<1>0. /\ now \in Nat /\ CacheTTL \in Nat
      /\ \A t \in Token : cache[t].exp \in Int /\ ExpOf[t] \in Nat
      /\ \A r \in Request : /\ req[r].ttl \in Nat
                            /\ req[r].pc \in Filling => req[r].tok \in Token
  BY IntrospectionAssumption
     DEF TypeOK, CacheTypeOK, RequestTypeOK, RequestState, Entry, Key, Filling, Waiting, Indexing
<1>a. /\ \A r \in Request : FillLasts(r)
      /\ \A h \in Hook : DeliveryOrder(h)
      /\ \A t \in Token : cache[t].exp <= now + CacheTTL /\ IndexLasts(t)
  BY DEF JTIInv
<1>1. ASSUME NEW r \in Request, Handle(r) PROVE JTIInv'
  <2>1. RequestStep(r) /\ UNCHANGED hook
    BY <1>1 DEF Handle
  <2>2. \A h \in Hook : DeliveryOrder(h)'
    BY <1>a, <2>1 DEF DeliveryOrder
  <2>3. ASSUME NEW t \in Token PROVE cache'[t].exp <= now' + CacheTTL
    <3>1. now' = now /\ cache[t].exp <= now + CacheTTL
      BY <1>a, <2>1, RequestMoves
    <3>2. CASE cache'[t] = cache[t]
      BY <3>1, <3>2
    <3>3. CASE /\ req[r].pc = "set" /\ req[r].tok = t
               /\ cache'[t] = [hashes |-> {}, exp |-> now + req[r].ttl]
      <4>1. req[r].ttl <= CacheTTL
        BY <1>a, <3>3 DEF FillLasts, Filling, Waiting
      <4> QED BY SMT, <1>0, <3>1, <3>3, <4>1
    <3> QED BY <2>1, <3>2, <3>3, RequestTokenFrame DEF TokenFrame
  <2> QED BY <2>1, <2>2, <2>3, RequestFillLasts, RequestIndexLasts DEF JTIInv
<1>2. ASSUME UNCHANGED <<now, req>>,
             \A t \in Token : cache'[t] = cache[t] \/ cache'[t] = Absent,
             \A h \in Hook : DeliveryOrder(h)', \A t \in Token : IndexLasts(t)'
      PROVE  JTIInv'
  <2>1. \A r \in Request : FillLasts(r)'
    BY <1>a, <1>2 DEF FillLasts, Outlives
  <2>2. ASSUME NEW t \in Token PROVE cache'[t].exp <= now' + CacheTTL
    <3>1. Absent.exp = -1
      BY SMT DEF Absent
    <3>2. cache'[t].exp = cache[t].exp \/ cache'[t].exp = -1
      BY <1>2, <3>1
    <3> QED BY SMT, <1>0, <1>a, <1>2, <3>2
  <2> QED BY <1>2, <2>1, <2>2 DEF JTIInv
<1>3. ASSUME NEW h \in Hook, HookStep(h) PROVE JTIInv'
  <2>1. \A t \in Token : cache'[t] = cache[t] \/ cache'[t] = Absent
    BY <1>3, RemovalFrame DEF HookStep, Notify, ResolveEvent, Evict, ReplyEvent
  <2>2. UNCHANGED <<now, req>>
    BY <1>3, HookMoves
  <2> QED BY <1>2, <1>3, <2>1, <2>2, HookKeepsOrder, HookIndexLasts
<1>4. CASE Housekeeping
  <2>1. \A t \in Token : cache'[t] = cache[t] \/ cache'[t] = Absent
    BY <1>4, RemovalFrame
  <2>2. UNCHANGED <<now, req, hook>>
    BY <1>4 DEF Housekeeping, Cleanup, Flush, RevokeCached
  <2>3. \A h \in Hook : DeliveryOrder(h)'
    BY <1>a, <2>2 DEF DeliveryOrder
  <2> QED BY <1>2, <1>4, <2>1, <2>2, <2>3, HousekeepingIndexLasts
<1>5. CASE Tick
  <2>1. now' = now + 1 /\ UNCHANGED <<cache, req, hook>>
    BY <1>5 DEF Tick
  <2>2. \A h \in Hook : DeliveryOrder(h)'
    BY <1>a, <2>1 DEF DeliveryOrder
  <2>3. ASSUME NEW r \in Request PROVE FillLasts(r)'
    <3>1. ASSUME req[r].pc \in Filling \ {"answered"}
          PROVE  /\ req[r].ttl <= CacheTTL
                 /\ Outlives(req[r].tok, now + 1 + req[r].ttl, now + 1 + CacheTTL)
      <4>1. req[r].tok \in Token /\ ExpOf[req[r].tok] \in Nat
        BY <1>0, <3>1
      <4> QED BY SMT, <1>0, <1>a, <3>1, <4>1 DEF FillLasts, Outlives
    <3> QED BY <2>1, <3>1 DEF FillLasts, Outlives
  <2>4. ASSUME NEW t \in Token PROVE cache'[t].exp <= now' + CacheTTL /\ IndexLasts(t)'
    <3>1. cache'[t].exp <= now' + CacheTTL
      BY SMT, <1>0, <1>a, <2>1
    <3>2. Live(t)' => Live(t)
      BY SMT, <1>0, <2>1 DEF Live
    <3>3. Unexpired(t)' => Unexpired(t)
      BY SMT, <1>0, <2>1 DEF Unexpired
    <3>4. (JTIPending(t)' <=> JTIPending(t)) /\ (JTIGoing(t)' <=> JTIGoing(t))
      BY <2>1 DEF JTIPending, JTIGoing, JTIKey, IndexKeyOf
    <3> QED BY <1>a, <2>1, <3>1, <3>2, <3>3, <3>4, FrameIndexLasts
  <2> QED BY <2>2, <2>3, <2>4 DEF JTIInv
<1>6. CASE UNCHANGED <<now, cache, req, hook>>
  BY <1>6 DEF JTIInv, FillLasts, DeliveryOrder, IndexLasts, Outlives, Live, Unexpired,
     OwnJTI, HasClaim, IntroToCommonClaims, Covered, JTIPending, JTIGoing, JTIKey, IndexKeyOf
<1> QED BY <1>1, <1>3, <1>4, <1>5, <1>6 DEF Next, HookStep, ASRevoke, vars

LEMMA JTIInvariant ==
  ASSUME ~Fallible
  PROVE  Spec => [](TypeOK /\ IndexSound /\ EvictInv /\ JTIInv)
<1>1. Init => TypeOK /\ IndexSound /\ EvictInv /\ JTIInv
  BY InitType, InitSound, InitEvict, InitJTI
<1>2. TypeOK /\ IndexSound /\ EvictInv /\ JTIInv /\ [Next]_vars
        => (TypeOK /\ IndexSound /\ EvictInv /\ JTIInv)'
  BY NextType, NextSound, NextEvict, NextJTI
<1> QED BY <1>1, <1>2, PTL DEF Spec

\* On a cache that does not fail, IndexClaims and process keep the jti index
\* complete: an unexpired cached token with a jti of its own is found by it,
\* whatever fills, deliveries, evictions and cleanups run at the same time.
THEOREM JTIIndexIsComplete ==
  ASSUME ~Fallible
  PROVE  Spec => []JTIIndexCovers
<1>1. TypeOK /\ JTIInv => JTIIndexCovers
  <2> SUFFICES ASSUME TypeOK, JTIInv, NEW t \in Token, OwnJTI(t), Live(t), Unexpired(t),
                      ~JTIPending(t), ~JTIGoing(t)
               PROVE  Live(JTIKey(t)) /\ t \in cache[JTIKey(t)].hashes
    BY DEF JTIIndexCovers, OwnJTI, Unexpired, JTIPending, JTIGoing, JTIKey
  <2> DEFINE k == JTIKey(t)
  <2>1. t \in cache[k].hashes /\ Outlives(t, cache[k].exp, cache[t].exp) /\ k \in Key
    BY OwnKey DEF JTIInv, IndexLasts
  <2>2. /\ now \in Nat /\ ExpOf[t] \in Nat /\ cache[k].exp \in Int /\ cache[t].exp \in Int
    BY <2>1, IntrospectionAssumption DEF TypeOK, CacheTypeOK, Entry, Key
  <2> HIDE DEF k
  <2>3. Live(k)
    BY SMT, <2>1, <2>2 DEF Live, Unexpired, Outlives
  <2> QED BY <2>1, <2>3 DEF k
<1> QED BY <1>1, JTIInvariant, PTL

-----------------------------------------------------------------------------
(***************************************************************************)
(* What a 204 means for an event about one token, on a cache that does not *)
(* fail.  A token is settled when nothing can put it back and a delivery   *)
(* is about to delete what there still is of it.  A jti that process does  *)
(* not find in the index settles its token too, because the index is       *)
(* complete.                                                               *)
(***************************************************************************)
Settled(t) ==
  \/ t \in overlapped
  \/ /\ Revoked(t)
     /\ ~\E r \in Request : req[r].tok = t /\ req[r].pc \in Waiting
     /\ Live(t) /\ Unexpired(t) => DeletePending(t)

HookSettled(h) ==
  LET d == hook[h] IN
  /\ d.pc # "delete" => d.first = {} /\ d.last = {}
  /\ d.pc = "delete" =>
       /\ d.ref[1] = "hash" => Covered(d.ref) \subseteq d.listed
       /\ \A t \in Token :
            OwnJTI(t) /\ d.ref = JTIKey(t) /\ t \notin d.listed => Settled(t)

\* The reference names one token.
NamesToken(ref) ==
  ref[1] = "hash" \/ \E t \in Token : OwnJTI(t) /\ ref = JTIKey(t)

SettledInv ==
  /\ \A h \in Hook : HookSettled(h)
  /\ \A ref \in acked : NamesToken(ref) => \A t \in Covered(ref) : Settled(t)

LEMMA InitSettled == Init => SettledInv
<1>1. Free.pc = "free" /\ Free.first = {} /\ Free.last = {}
  BY SMT DEF Free, Delivery
<1> QED BY <1>1 DEF Init, HookInit, SettledInv, HookSettled

\* An evicted token is settled.
LEMMA GoneIsSettled ==
  ASSUME NEW t \in Token, now \in Nat, Revoked(t), Gone(t)
  PROVE  Settled(t)
<1>1. CASE t \in overlapped
  BY <1>1 DEF Settled
<1>2. CASE cache[t] = Absent /\ ~\E r \in Request : req[r].tok = t /\ req[r].pc \in Waiting
  <2>1. ~Live(t)
    BY SMT, <1>2 DEF Live, Absent
  <2> QED BY <1>2, <2>1 DEF Settled
<1> QED BY <1>1, <1>2 DEF Gone

\* Nothing undoes it: a fill would need an answer the authorization server
\* no longer gives.
LEMMA RequestKeepsSettled ==
  ASSUME TypeOK, NEW r \in Request, RequestStep(r), UNCHANGED <<hook, overlapped>>,
         NEW t \in Token, Settled(t)
  PROVE  Settled(t)'
<1>1. CASE t \in overlapped
  BY <1>1 DEF Settled
<1>2. CASE t \notin overlapped
  <2>1. /\ Revoked(t) /\ ~\E q \in Request : req[q].tok = t /\ req[q].pc \in Waiting
        /\ Live(t) /\ Unexpired(t) => DeletePending(t)
    BY <1>2 DEF Settled
  <2>2. UNCHANGED <<now, revokedAt>> /\ \A q \in Request \ {r} : req'[q] = req[q]
    BY RequestMoves
  <2>3. cache'[t] = cache[t]
    BY <2>1, RequestTokenFrame DEF TokenFrame, Waiting
  <2>4. ASSUME req'[r].tok = t, req'[r].pc \in Waiting PROVE FALSE
    <3> USE DEF TypeOK, RequestTypeOK, RequestState, Filling, Waiting, Indexing
    <3>0. req \in [Request -> RequestState]
      OBVIOUS
    <3>1. CASE Answer(r)
      BY SMT, <2>1, <2>4, <3>0, <3>1 DEF Answer, Active, Return, Idle
    <3>2. CASE ComputeTTL(r)
      BY SMT, <2>1, <2>4, <3>0, <3>2 DEF ComputeTTL, Return, Idle
    <3> QED BY SMT, <2>1, <2>4, <3>0, <3>1, <3>2
            DEF RequestStep, Lookup, SetClaims, IndexJTI, ReadIndex, WriteIndex, WritePC,
                Goto, Return, AfterIndex, Idle
  <2> QED BY <2>1, <2>2, <2>3, <2>4 DEF Settled, Revoked, Live, Unexpired, DeletePending
<1> QED BY <1>1, <1>2

\* Deliveries and housekeeping only remove entries, and a deletion that was
\* pending is still pending or done.
LEMMA RemovalKeepsSettled ==
  ASSUME UNCHANGED <<now, revokedAt, req>>, now \in Nat, overlapped \subseteq overlapped',
         NEW t \in Token, Settled(t),
         cache'[t] = cache[t] \/ cache'[t] = Absent,
         DeletePending(t) => DeletePending(t)' \/ cache'[t] = Absent
  PROVE  Settled(t)'
<1>1. CASE t \in overlapped
  BY <1>1 DEF Settled
<1>2. CASE cache'[t] = Absent
  <2>1. ~Live(t)'
    BY SMT, <1>2 DEF Live, Absent
  <2> QED BY <2>1 DEF Settled, Revoked
<1>3. CASE cache'[t] # Absent
  BY <1>3 DEF Settled, Revoked, Live, Unexpired
<1> QED BY <1>2, <1>3

LEMMA HookKeepsPending ==
  ASSUME TypeOK, IndexSound, SettledInv, ~Fallible, NEW h \in Hook, HookStep(h),
         NEW t \in Token, DeletePending(t)
  PROVE  DeletePending(t)' \/ cache'[t] = Absent
<1>0. cache \in [Key -> Entry] /\ t \in Key
  BY DEF TypeOK, CacheTypeOK, Key
<1>1. PICK g \in Hook : t \in hook[g].first \cup hook[g].last
  BY DEF DeletePending
<1>2. CASE g # h
  BY <1>1, <1>2, HookMoves DEF DeletePending
<1>3. CASE g = h
  <2>1. hook[h].pc = "delete" /\ ~(hook[h].first = {} /\ hook[h].last = {})
    BY <1>1, <1>3 DEF SettledInv, HookSettled
  <2>2. PICK k \in Key :
          /\ cache' = [cache EXCEPT ![k] = Absent]
          /\ hook'[h] = Delivery("delete", hook[h].ref, hook[h].first \ {k},
                          IF hook[h].first # {} THEN hook[h].last ELSE hook[h].last \ {k},
                          hook[h].listed, hook[h].failed)
    BY <2>1, HookMoves
  <2>3. (hook[h].first \cup hook[h].last) \ {k} \subseteq hook'[h].first \cup hook'[h].last
    BY SMT, <2>2 DEF Delivery
  <2>4. CASE k = t
    BY <1>0, <2>2, <2>4
  <2>5. CASE k # t
    BY <1>1, <1>3, <2>3, <2>5 DEF DeletePending
  <2> QED BY <2>4, <2>5
<1> QED BY <1>2, <1>3

\* A jti that is not in the index: the token is not cached, has expired or is
\* being deleted, or a fill of it is under way and noted.
LEMMA MissSettles ==
  ASSUME TypeOK, EvictInv, JTIInv, NEW h \in Hook, ResolveEvent(h),
         NEW t \in Token, OwnJTI(t), hook[h].ref = JTIKey(t),
         t \notin IndexHashes(JTIKey(t), TRUE)
  PROVE  Settled(t)'
<1>0. /\ hook[h].pc = "resolve" /\ UNCHANGED <<now, cache, revokedAt, req>>
      /\ \A g \in Hook \ {h} : hook'[g] = hook[g]
  BY DEF ResolveEvent, Resolve, TypeOK, HookTypeOK
<1>1. Revoked(t)
  BY <1>0 DEF EvictInv, DeliverySound, OwnJTI
<1>2. CASE FillUnderWay(t)
  BY <1>2 DEF ResolveEvent, NoteOverlap, OwnJTI, Settled
<1>3. CASE ~FillUnderWay(t)
  <2>1. ~JTIPending(t)
    BY <1>3 DEF JTIPending, FillUnderWay, Filling, Indexing
  <2>2. ~\E r \in Request : req[r].tok = t /\ req[r].pc \in Waiting
    BY <1>3 DEF FillUnderWay, Filling
  <2>3. ASSUME Live(t), Unexpired(t) PROVE JTIGoing(t)
    <3> SUFFICES ASSUME ~JTIGoing(t) PROVE FALSE
      OBVIOUS
    <3> DEFINE k == JTIKey(t)
    <3>1. t \in cache[k].hashes /\ Outlives(t, cache[k].exp, cache[t].exp) /\ k \in Key
      BY <2>1, <2>3, OwnKey DEF JTIInv, IndexLasts
    <3>2. /\ now \in Nat /\ ExpOf[t] \in Nat /\ cache[k].exp \in Int /\ cache[t].exp \in Int
      BY <3>1, IntrospectionAssumption DEF TypeOK, CacheTypeOK, Entry, Key
    <3> HIDE DEF k
    <3>3. Live(k)
      BY SMT, <2>3, <3>1, <3>2 DEF Live, Unexpired, Outlives
    <3> QED BY <3>1, <3>3 DEF IndexHashes, k
  <2>4. JTIGoing(t) => DeletePending(t)'
    BY <1>0 DEF JTIGoing, DeletePending
  <2> QED BY <1>0, <1>1, <2>2, <2>3, <2>4 DEF Settled, Revoked, Live, Unexpired
<1> QED BY <1>2, <1>3

\* What the acting delivery has settled after its step.
LEMMA HookStepSettles ==
  ASSUME TypeOK, IndexSound, EvictInv, JTIInv, SettledInv, ~Fallible,
         NEW h \in Hook, HookStep(h),
         \A t \in Token : Settled(t) => Settled(t)'
  PROVE  HookSettled(h)'
<1>0. HookSettled(h)
  BY DEF SettledInv
<1>1. ASSUME hook'[h].pc # "delete", hook'[h].first = {}, hook'[h].last = {}
      PROVE  HookSettled(h)'
  BY <1>1 DEF HookSettled
<1>2. ASSUME NEW t \in Token, hook'[h] = Delivery("delete", <<"hash", t>>, {t}, {}, {t}, FALSE)
      PROVE  HookSettled(h)'
  <2>1. hook'[h].pc = "delete" /\ hook'[h].ref = <<"hash", t>> /\ hook'[h].listed = {t}
    BY SMT, <1>2 DEF Delivery
  <2>2. hook'[h].ref[1] = "hash" /\ Covered(hook'[h].ref) = {t}
    BY SMT, <2>1 DEF Covered
  <2>3. \A s \in Token : OwnJTI(s) => hook'[h].ref # JTIKey(s)
    BY <2>2, OwnKey
  <2> QED BY <2>1, <2>2, <2>3
          DEF HookSettled, OwnJTI, HasClaim, IntroToCommonClaims, Covered, JTIKey, IndexKeyOf
<1>3. CASE hook[h].pc = "resolve"
  <2> DEFINE ref == hook[h].ref
             hashes == IndexHashes(ref, TRUE)
  <2>1. /\ ref \in IndexKey /\ ResolveEvent(h)
        /\ hook'[h] =
             IF ref[1] # "jti" THEN Delivery("delete", ref, hashes, {ref}, hashes, FALSE)
             ELSE IF hashes # {} THEN Delivery("delete", ref, {ref}, hashes, hashes, FALSE)
             ELSE Delivery("delete", ref, {}, {}, {}, FALSE)
    BY <1>3, HookMoves DEF HookStep, Notify, Receive, Evict, DeleteKey, ReplyEvent, Reply
  <2>2. /\ hook'[h].pc = "delete" /\ hook'[h].ref = ref /\ hook'[h].listed = hashes
    <3> HIDE DEF ref, hashes
    <3> QED BY SMT, <2>1 DEF Delivery
  <2>3. ref[1] # "hash"
    BY SMT, <2>1 DEF IndexKey, Kind
  <2>4. \A t \in Token : OwnJTI(t) /\ ref = JTIKey(t) /\ t \notin hashes => Settled(t)'
    BY <2>1, MissSettles
  <2> HIDE DEF ref, hashes
  <2> QED BY <2>2, <2>3, <2>4
          DEF HookSettled, OwnJTI, HasClaim, IntroToCommonClaims, Covered, JTIKey, IndexKeyOf
<1>4. ASSUME NEW k \in Key, hook[h].pc = "delete",
             hook'[h] = Delivery("delete", hook[h].ref, hook[h].first \ {k},
                          IF hook[h].first # {} THEN hook[h].last ELSE hook[h].last \ {k},
                          hook[h].listed, hook[h].failed)
      PROVE  HookSettled(h)'
  <2>1. /\ hook'[h].pc = "delete" /\ hook'[h].ref = hook[h].ref
        /\ hook'[h].listed = hook[h].listed
    BY SMT, <1>4 DEF Delivery
  <2> QED BY <1>0, <1>4, <2>1
          DEF HookSettled, OwnJTI, HasClaim, IntroToCommonClaims, Covered, JTIKey, IndexKeyOf
<1>5. Free.pc = "free" /\ Free.first = {} /\ Free.last = {}
  BY SMT DEF Free, Delivery
<1> QED
  <2>1. CASE hook[h].pc = "free"
    BY <1>1, <1>2, <2>1, HookMoves
  <2>2. CASE hook[h].pc = "delete"
    <3>1. \/ hook'[h] = Free
          \/ \E k \in Key :
               hook'[h] = Delivery("delete", hook[h].ref, hook[h].first \ {k},
                            IF hook[h].first # {} THEN hook[h].last ELSE hook[h].last \ {k},
                            hook[h].listed, hook[h].failed)
      BY <2>2, HookMoves
    <3> QED BY <1>1, <1>4, <1>5, <2>2, <3>1
  <2>3. hook[h].pc \in {"free", "resolve", "delete"}
    BY DEF TypeOK, HookTypeOK, HookState
  <2> QED BY <1>3, <2>1, <2>2, <2>3

LEMMA NextSettled ==
  ASSUME ~Fallible
  PROVE  TypeOK /\ IndexSound /\ EvictInv /\ JTIInv /\ SettledInv /\ [Next]_vars => SettledInv'
<1> SUFFICES ASSUME TypeOK, IndexSound, EvictInv, JTIInv, SettledInv, [Next]_vars
             PROVE  SettledInv'
  OBVIOUS
<1>0. /\ now \in Nat /\ acked \subseteq Ref
      /\ \A h \in Hook : HookSettled(h)
      /\ \A ref \in acked : NamesToken(ref) => \A t \in Covered(ref) : Settled(t)
  BY DEF TypeOK, CacheTypeOK, HookTypeOK, SettledInv
<1>1. ASSUME \A t \in Token : Settled(t) => Settled(t)', NEW h \in Hook, hook'[h] = hook[h]
      PROVE  HookSettled(h)'
  BY <1>0, <1>1
     DEF HookSettled, OwnJTI, HasClaim, IntroToCommonClaims, Covered, JTIKey, IndexKeyOf
<1>2. ASSUME \A t \in Token : Settled(t) => Settled(t)', NEW ref \in acked, NamesToken(ref)
      PROVE  \A t \in Covered(ref) : Settled(t)'
  BY <1>0, <1>2, CoveredType
<1>3. ASSUME \A t \in Token : Settled(t) => Settled(t)', UNCHANGED <<hook, acked>>
      PROVE  SettledInv'
  BY <1>1, <1>2, <1>3
     DEF SettledInv, NamesToken, OwnJTI, HasClaim, IntroToCommonClaims, Covered, JTIKey, IndexKeyOf
<1>4. ASSUME NEW ref \in Ref, ASRevoke(ref) PROVE SettledInv'
  <2>1. UNCHANGED <<now, cache, req, hook, acked, overlapped>>
    BY <1>4 DEF ASRevoke
  <2>2. \A t \in Token : Revoked(t) => Revoked(t)'
    BY <1>4 DEF ASRevoke, Revoked, TypeOK, RequestTypeOK
  <2>3. \A t \in Token : Settled(t) => Settled(t)'
    BY <2>1, <2>2 DEF Settled, Live, Unexpired, DeletePending
  <2> QED BY <1>3, <2>1, <2>3
<1>5. ASSUME NEW r \in Request, Handle(r) PROVE SettledInv'
  BY <1>3, <1>5, RequestKeepsSettled DEF Handle
<1>6. CASE Housekeeping
  <2>1. \A t \in Token : cache'[t] = cache[t] \/ cache'[t] = Absent
    BY <1>6, RemovalFrame
  <2>2. UNCHANGED <<now, revokedAt, req, hook, acked, overlapped>>
    BY <1>6 DEF Housekeeping, Cleanup, Flush, RevokeCached
  <2>3. \A t \in Token : DeletePending(t) => DeletePending(t)'
    BY <2>2 DEF DeletePending
  <2>4. \A t \in Token : Settled(t) => Settled(t)'
    BY <1>0, <2>1, <2>2, <2>3, RemovalKeepsSettled
  <2> QED BY <1>3, <2>2, <2>4
<1>7. CASE Tick
  <2>1. now' = now + 1 /\ UNCHANGED <<cache, revokedAt, req, hook, acked, overlapped>>
    BY <1>7 DEF Tick
  <2>2. ASSUME NEW t \in Token PROVE Live(t)' /\ Unexpired(t)' => Live(t) /\ Unexpired(t)
    <3>1. cache[t].exp \in Int /\ ExpOf[t] \in Nat
      BY IntrospectionAssumption DEF TypeOK, CacheTypeOK, Entry, Key
    <3> QED BY SMT, <1>0, <2>1, <3>1 DEF Live, Unexpired
  <2>3. \A t \in Token : Settled(t) => Settled(t)'
    BY <2>1, <2>2 DEF Settled, Revoked, DeletePending
  <2> QED BY <1>3, <2>1, <2>3
<1>8. ASSUME NEW h \in Hook, HookStep(h) PROVE SettledInv'
  <2>1. /\ UNCHANGED <<now, revokedAt, req>>
        /\ \A g \in Hook \ {h} : hook'[g] = hook[g]
    BY <1>8, HookMoves
  <2>2. \A t \in Token : cache'[t] = cache[t] \/ cache'[t] = Absent
    BY <1>8, RemovalFrame DEF HookStep, Notify, ResolveEvent, Evict, ReplyEvent
  <2>3. overlapped \subseteq overlapped'
    BY <1>8 DEF HookStep, Notify, ResolveEvent, Evict, ReplyEvent, NoteOverlap
  <2>4. \A t \in Token : Settled(t) => Settled(t)'
    BY <1>0, <1>8, <2>1, <2>2, <2>3, HookKeepsPending, RemovalKeepsSettled
  <2>5. \A g \in Hook : HookSettled(g)'
    BY <1>1, <1>8, <2>1, <2>4, HookStepSettles
  <2>6. ASSUME NEW ref \in acked', ref \notin acked, NamesToken(ref), NEW t \in Covered(ref)
        PROVE  Settled(t)'
    <3>1. ReplyEvent(h) /\ ref = hook[h].ref /\ ~hook[h].failed
      BY <1>8, <2>6 DEF HookStep, Notify, Receive, ResolveEvent, Resolve, Evict, DeleteKey,
         ReplyEvent, Reply
    <3>2. hook[h].pc = "delete" /\ hook[h].first = {} /\ hook[h].last = {} /\ ref \in Ref
      BY <3>1 DEF ReplyEvent, Reply, TypeOK, HookTypeOK
    <3>3. t \in Token
      BY <3>2, CoveredType
    <3>4. CASE t \in hook[h].listed
      <4>1. Revoked(t) /\ Gone(t)
        BY <3>1, <3>2, <3>4 DEF EvictInv, DeliverySound
      <4> QED BY <1>0, <2>4, <3>3, <4>1, GoneIsSettled
    <3>5. CASE t \notin hook[h].listed
      <4>1. OwnJTI(t) /\ ref = JTIKey(t)
        BY <1>0, <2>6, <3>1, <3>2, <3>5 DEF NamesToken, HookSettled, OwnJTI
      <4> QED BY <1>0, <2>4, <3>1, <3>2, <3>3, <3>5, <4>1 DEF HookSettled
    <3> QED BY <3>4, <3>5
  <2>7. \A ref \in acked' : NamesToken(ref) => \A t \in Covered(ref) : Settled(t)'
    BY <1>2, <2>4, <2>6
  <2> QED BY <2>5, <2>7
          DEF SettledInv, NamesToken, OwnJTI, HasClaim, IntroToCommonClaims, Covered, JTIKey, IndexKeyOf
<1>9. CASE UNCHANGED vars
  <2>1. \A t \in Token : Settled(t) => Settled(t)'
    BY <1>9 DEF vars, Settled, Revoked, Live, Unexpired, DeletePending
  <2> QED BY <1>3, <1>9, <2>1 DEF vars
<1> QED BY <1>4, <1>5, <1>6, <1>7, <1>8, <1>9 DEF Next, HookStep

LEMMA SettledInvariant ==
  ASSUME ~Fallible
  PROVE  Spec => [](TypeOK /\ IndexSound /\ EvictInv /\ JTIInv /\ SettledInv)
<1>1. Init => TypeOK /\ IndexSound /\ EvictInv /\ JTIInv /\ SettledInv
  BY InitType, InitSound, InitEvict, InitJTI, InitSettled
<1>2. TypeOK /\ IndexSound /\ EvictInv /\ JTIInv /\ SettledInv /\ [Next]_vars
        => (TypeOK /\ IndexSound /\ EvictInv /\ JTIInv /\ SettledInv)'
  BY NextType, NextSound, NextEvict, NextJTI, NextSettled
<1> QED BY <1>1, <1>2, PTL DEF Spec

\* The references that are about one token: its hash, or a jti no other
\* token has.
AboutOneToken(ref) ==
  ref[1] = "hash" \/ (ref[1] = "jti" /\ \E t \in Token : Covered(ref) = {t})

LEMMA OneTokenIsNamed ==
  ASSUME NEW ref \in Ref, AboutOneToken(ref)
  PROVE  NamesToken(ref)
<1>1. CASE ref[1] = "hash"
  BY <1>1 DEF NamesToken
<1>2. CASE ref[1] = "jti"
  <2>1. PICK t \in Token : Covered(ref) = {t}
    BY <1>2 DEF AboutOneToken
  <2>2. t \in {s \in Token : <<ref[1], ClaimsOf[s][ref[1]]>> = ref}
    BY <1>2, <2>1 DEF Covered
  <2>3. ref = JTIKey(t)
    BY <1>2, <2>2 DEF JTIKey, IndexKeyOf
  <2>4. ref[2] # None
    BY SMT, <1>2 DEF Ref
  <2>5. ClaimsOf[t]["jti"] # None
    BY SMT, <2>3, <2>4 DEF JTIKey, IndexKeyOf
  <2>6. HasClaim(t, "jti")
    BY SMT, <2>5 DEF HasClaim, IntroToCommonClaims, Kind
  <2> QED BY <2>1, <2>3, <2>6 DEF NamesToken, OwnJTI
<1> QED BY <1>1, <1>2 DEF AboutOneToken

\* Every answer 204 is true of its event when the event is about one token
\* and the cache does not fail: whatever else is delivered and requested, no
\* unexpired token the event is about can be served, but for an overlapping
\* fill or a deletion still to come.
THEOREM TokenEventsTakeEffect ==
  ASSUME ~Fallible
  PROVE  Spec => [](\A ref \in acked : AboutOneToken(ref) => EffectiveFor(ref))
<1>1. TypeOK /\ SettledInv => \A ref \in acked : AboutOneToken(ref) => EffectiveFor(ref)
  <2> SUFFICES ASSUME TypeOK, SettledInv, NEW ref \in acked, AboutOneToken(ref),
                      NEW t \in Covered(ref) \ overlapped, Live(t)
               PROVE  DeletePending(t) \/ (ExpOf[t] # 0 /\ now > ExpOf[t])
    BY DEF EffectiveFor
  <2>1. ref \in Ref /\ t \in Token
    BY CoveredType DEF TypeOK, HookTypeOK
  <2>2. Settled(t)
    BY <2>1, OneTokenIsNamed DEF SettledInv
  <2>3. Unexpired(t) => DeletePending(t)
    BY <2>2 DEF Settled
  <2>4. now \in Nat /\ ExpOf[t] \in Nat
    BY <2>1, IntrospectionAssumption DEF TypeOK, CacheTypeOK
  <2>5. ~Unexpired(t) => ExpOf[t] # 0 /\ now > ExpOf[t]
    BY SMT, <2>4 DEF Unexpired
  <2> QED BY <2>3, <2>5
<1> QED BY <1>1, SettledInvariant, PTL

\* A delivery works on the event it received, and so does its answer.
Sent == {Reference(ev) : ev \in Event}

SentInv == acked \subseteq Sent /\ \A h \in Hook : hook[h].pc # "free" => hook[h].ref \in Sent

LEMMA SentInvariant == Spec => []SentInv
<1>1. Init => SentInv
  <2>1. Free.pc = "free"
    BY SMT DEF Free, Delivery
  <2> QED BY <2>1 DEF Init, HookInit, SentInv
<1>2. TypeOK /\ SentInv /\ [Next]_vars => SentInv'
  <2> SUFFICES ASSUME TypeOK, SentInv, [Next]_vars PROVE SentInv'
    OBVIOUS
  <2>0. hook \in [Hook -> HookState]
    BY DEF TypeOK, HookTypeOK
  <2>1. ASSUME NEW h \in Hook, NEW ev \in Event, Notify(h, ev) PROVE SentInv'
    <3>1. hook'[h].ref = Reference(ev) /\ acked' = acked
      BY SMT, <2>0, <2>1 DEF Notify, Receive, Delivery
    <3>2. \A g \in Hook \ {h} : hook'[g] = hook[g]
      BY <2>0, <2>1 DEF Notify, Receive
    <3> QED BY <2>1, <3>1, <3>2 DEF SentInv, Sent
  <2>2. ASSUME NEW h \in Hook, \A g \in Hook \ {h} : hook'[g] = hook[g],
               hook[h].pc # "free", hook'[h].ref = hook[h].ref \/ hook'[h].pc = "free",
               acked' \subseteq acked \cup {hook[h].ref}
        PROVE  SentInv'
    BY <2>2 DEF SentInv
  <2>3. ASSUME NEW h \in Hook, ResolveEvent(h) PROVE SentInv'
    <3>1. hook'[h].ref = hook[h].ref
      BY SMT, <2>0, <2>3 DEF ResolveEvent, Resolve, Delivery
    <3>2. \A g \in Hook \ {h} : hook'[g] = hook[g]
      BY <2>0, <2>3 DEF ResolveEvent, Resolve
    <3> QED BY <2>2, <2>3, <3>1, <3>2 DEF ResolveEvent, Resolve
  <2>4. ASSUME NEW h \in Hook, NEW k \in Key, Evict(h, k) PROVE SentInv'
    <3>1. hook'[h].ref = hook[h].ref
      BY SMT, <2>0, <2>4 DEF Evict, DeleteKey, Delivery
    <3>2. \A g \in Hook \ {h} : hook'[g] = hook[g]
      BY <2>0, <2>4 DEF Evict, DeleteKey
    <3> QED BY <2>2, <2>4, <3>1, <3>2 DEF Evict, DeleteKey
  <2>5. ASSUME NEW h \in Hook, ReplyEvent(h) PROVE SentInv'
    <3>1. hook'[h].pc = "free"
      BY SMT, <2>0, <2>5 DEF ReplyEvent, Reply, Free, Delivery
    <3>2. \A g \in Hook \ {h} : hook'[g] = hook[g]
      BY <2>0, <2>5 DEF ReplyEvent, Reply
    <3> QED BY <2>2, <2>5, <3>1, <3>2 DEF ReplyEvent, Reply
  <2>6. CASE UNCHANGED <<hook, acked>>
    BY <2>6 DEF SentInv
  <2> QED BY <2>1, <2>3, <2>4, <2>5, <2>6
          DEF Next, ASRevoke, Handle, Housekeeping, Tick, vars
<1> QED BY <1>1, <1>2, TypeCorrect, PTL DEF Spec

\* With a memory cache and an authorization server whose events name tokens,
\* every event answered with 204 has taken effect, for any number of tokens,
\* requests and concurrent or repeated deliveries.
THEOREM RevocationIsEffective ==
  ASSUME ~Fallible, \A ev \in Event : Reference(ev) \in Ref => AboutOneToken(Reference(ev))
  PROVE  Spec => []RevocationEffective
<1>1. /\ TypeOK /\ SentInv
      /\ \A ref \in acked : AboutOneToken(ref) => EffectiveFor(ref)
      => RevocationEffective
  BY DEF TypeOK, HookTypeOK, SentInv, Sent, RevocationEffective, EffectiveFor
<1> QED BY <1>1, TypeCorrect, SentInvariant, TokenEventsTakeEffect, PTL
=============================================================================
