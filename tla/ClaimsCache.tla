---------------------------- MODULE ClaimsCache ----------------------------
(***************************************************************************)
(* The claims cache the gateway shares between its request path and the    *)
(* revocation webhook (pkg/core/token/cache.go): one map from string keys  *)
(* to claims with an expiry.  Two kinds of keys live in it: the SHA-256    *)
(* of a token, holding the token's claims, and the secondary index keys    *)
(* idx:jti:, idx:sub: and idx:sid:, holding a list of token hashes         *)
(* (pkg/core/token/revocation.go).  A token stands for its hash, and the   *)
(* claims a token hash maps to are a function of the token, so an entry is *)
(* its list of hashes (as a set: the code never adds one twice) and its    *)
(* expiry.                                                                 *)
(***************************************************************************)
EXTENDS Integers

CONSTANTS
  Token,     \* bearer tokens; also their cache keys, HashToken(token)
  Id,        \* values of the jti, sub and sid claims
  None,      \* an absent claim ("" in the code)
  ClaimsOf,  \* what the authorization server states about a token
  Fallible,  \* TRUE: RedisCache, calls may fail; FALSE: MemoryCache
  Manual,    \* TRUE: the embedding program also evicts entries by itself
  MaxTime    \* bound: the clock stops here

\* The claims a secondary index is kept for.
Kind == {"jti", "sub", "sid"}

ASSUME ClaimsAssumption ==
  /\ None \notin Id
  /\ ClaimsOf \in [Token -> [Kind -> Id \cup {None}]]

ASSUME CacheAssumption ==
  /\ Fallible \in BOOLEAN
  /\ Manual \in BOOLEAN
  /\ MaxTime \in Nat

\* jtiIndexPrefix+jti, subIndexPrefix+sub, sidIndexPrefix+sid.
IndexKey == {<<kind, ClaimsOf[t][kind]>> : kind \in Kind, t \in Token}

Key == Token \cup IndexKey

\* A hex digest never starts with "idx:".
ASSUME KeysDisjoint == Token \cap IndexKey = {}

VARIABLES
  now,    \* the wall clock, in ticks
  cache   \* [Key -> Entry]: m.entries, or the Redis keyspace

\* A missing key is an entry that expired before time began.
Absent == [hashes |-> {}, exp |-> -1]

Entry == [hashes : SUBSET Token, exp : Int]

CacheTypeOK ==
  /\ now \in Nat
  /\ cache \in [Key -> Entry]

CacheInit ==
  /\ now = 0
  /\ cache = [k \in Key |-> Absent]

\* Whether a call to the cache reports success.  RedisCache.Get turns a
\* failure into a miss; Set and Delete return it.
Outcome == IF Fallible THEN BOOLEAN ELSE {TRUE}

\* Get finds the key: an entry is a hit up to and including its expiry
\* (time.Now().After(expiresAt) is the miss).
Live(k) == now <= cache[k].exp

\* The hashes indexHashes sees under an index key.
IndexHashes(k, ok) == IF Live(k) /\ ok THEN cache[k].hashes ELSE {}

\* A write that reports success was applied; one that reports a failure (a
\* lost connection, a timeout) may have been applied or not.
Write(k, entry, ok) ==
  LET written == [cache EXCEPT ![k] = entry]
  IN  cache' \in IF ok THEN {written} ELSE {written, cache}

\* Cache.Set: the expiry is counted from the clock at the time of the write,
\* not from when the caller computed ttl.
Set(k, hashes, ttl, ok) ==
  Write(k, [hashes |-> hashes, exp |-> now + ttl], ok)

\* Cache.Delete.
Delete(k, ok) == Write(k, Absent, ok)

\* MemoryCache.cleanupLoop, one tick of its ticker: every expired entry goes,
\* under the write lock.  (Redis expires keys by itself.)
Cleanup ==
  /\ \E k \in Key : cache[k] # Absent /\ ~Live(k)
  /\ cache' = [k \in Key |-> IF Live(k) THEN cache[k] ELSE Absent]
  /\ UNCHANGED now

\* Cache.Flush, an operation of the interface for the embedding program.
Flush ==
  /\ Manual
  /\ cache' = [k \in Key |-> Absent]
  /\ UNCHANGED now
=============================================================================
