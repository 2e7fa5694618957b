----------------------------- MODULE RateLimiter -----------------------------
(***************************************************************************)
(* The gateway's token-bucket rate limiter (internal/gateway/ratelimit.go).*)
(*                                                                         *)
(* Time is counted in ticks and a bucket's content in the ticks of refill  *)
(* it stands for: one token is Cost ticks' worth, rps is one token per     *)
(* Cost ticks, and a bucket gains 1 per tick.  That is the code's          *)
(* arithmetic divided by rps, exact where the code rounds floats.          *)
(*                                                                         *)
(* allow reads the clock BEFORE it takes the lock, so calls may be decided *)
(* out of clock order and elapsed may be negative; cleanupLoop reads the   *)
(* clock for its cutoff before the lock as well.                           *)
(***************************************************************************)
EXTENDS Integers

CONSTANTS
  Client,          \* rate-limit keys: clientKey(r), the client's address
  Caller,          \* request goroutines
  Cost,            \* ticks in which rps refills one token
  Second,          \* ticks in a second, so rps = Second / Cost
  RateLimitBurst,  \* the configured burst, 0 or less for the default
  IdleTTL,         \* five minutes, in ticks
  MaxLag,          \* bound: longest wait from reading the clock to the lock
  MaxTime          \* bound: the clock stops here

ASSUME LimiterAssumption ==
  /\ Cost \in Nat \ {0}
  /\ Second \in Nat \ {0}
  /\ RateLimitBurst \in Int
  /\ IdleTTL \in Nat
  /\ MaxLag \in Nat
  /\ MaxTime \in Nat

\* newRateLimiter's burst: the default is int(rps), and at least 1.
EffectiveBurst ==
  IF RateLimitBurst > 0 THEN RateLimitBurst
  ELSE IF Second \div Cost < 1 THEN 1 ELSE Second \div Cost

\* A full bucket.
Full == EffectiveBurst * Cost

VARIABLES
  now,      \* the monotonic clock
  bucket,   \* [Client -> [there, tokens, lastSeen]]: rl.buckets
  call,     \* [Caller -> [key, at]]: an allow waiting for the lock, or Idle
  cutoff,   \* the cutoff of a cleanup waiting for the lock, or Never
  start,    \* history: when the observed window of a client began
  spent,    \* history: Cost times the calls admitted in that window
  latest    \* history: the latest clock reading of an admitted call

vars == <<now, bucket, call, cutoff, start, spent, latest>>

Never == -1
Idle == [pc |-> "idle"]
NoBucket == [there |-> FALSE, tokens |-> 0, lastSeen |-> 0]
Bucket(tokens, at) == [there |-> TRUE, tokens |-> tokens, lastSeen |-> at]
Waiting(k, at) == [pc |-> "waiting", key |-> k, at |-> at]

WaitingCall == [pc : {"waiting"}, key : Client, at : Nat]

TypeOK ==
  /\ now \in Nat
  /\ bucket \in [Client -> [there : BOOLEAN, tokens : Int, lastSeen : Nat]]
  /\ \A k \in Client : bucket[k].tokens <= Full
  /\ call \in [Caller -> {Idle} \cup WaitingCall]
  /\ cutoff \in Int
  /\ start \in [Client -> Nat]
  /\ spent \in [Client -> Nat]
  /\ latest \in [Client -> Int]

\* A limiter that has just been built; no call was admitted before time began.
Init ==
  /\ now = 0
  /\ bucket = [k \in Client |-> NoBucket]
  /\ call = [c \in Caller |-> Idle]
  /\ cutoff = Never
  /\ start = [k \in Client |-> 0]
  /\ spent = [k \in Client |-> 0]
  /\ latest = [k \in Client |-> -Cost]

-----------------------------------------------------------------------------
\* allow, up to rl.mu.Lock(): now := time.Now().
Arrive(c, k) ==
  /\ call[c] = Idle
  /\ call' = [call EXCEPT ![c] = Waiting(k, now)]
  /\ UNCHANGED <<now, bucket, cutoff, start, spent, latest>>

\* Mutant of Refilled: the bucket is not capped at burst.
RefilledUncapped(b, at) == b.tokens + (at - b.lastSeen)

\* Mutant of Refilled: only whole tokens are credited.
RefilledWhole(b, at) ==
  LET tokens == b.tokens + ((at - b.lastSeen) \div Cost) * Cost
  IN  IF tokens > Full THEN Full ELSE tokens

\* b.tokens after the refill for the time since lastSeen, capped at burst.
Refilled(b, at) ==
  LET tokens == b.tokens + (at - b.lastSeen)
  IN  IF tokens > Full THEN Full ELSE tokens

\* Mutant of Settle: a negative elapsed is taken for zero.
SettleMonotonic(b, at) ==
  IF ~b.there THEN Bucket(Full, at)
  ELSE Bucket(Refilled(b, IF at < b.lastSeen THEN b.lastSeen ELSE at), at)

\* The bucket as the decision sees it: a new one is full, an old one is
\* refilled and stamped with this call's reading of the clock.
Settle(b, at) ==
  IF ~b.there THEN Bucket(Full, at) ELSE Bucket(Refilled(b, at), at)

\* A call whose settled bucket holds less than one token is refused.
Admits(b) == b.tokens >= Cost

\* allow, under the lock.
Allow(c) ==
  /\ call[c] # Idle
  /\ LET k == call[c].key
         at == call[c].at
         b == Settle(bucket[k], at)
     IN  IF Admits(b)
         THEN /\ bucket' = [bucket EXCEPT ![k] = Bucket(b.tokens - Cost, at)]
              /\ spent' = [spent EXCEPT ![k] = @ + Cost]
              /\ latest' = [latest EXCEPT ![k] = IF at > @ THEN at ELSE @]
         ELSE bucket' = [bucket EXCEPT ![k] = b] /\ UNCHANGED <<spent, latest>>
  /\ call' = [call EXCEPT ![c] = Idle]
  /\ UNCHANGED <<now, cutoff, start>>

\* cleanupLoop, up to the lock.  The ticker's period is left open.  Before
\* the first IdleTTL is over there is nothing to evict.
StartCleanup ==
  /\ cutoff = Never
  /\ now >= IdleTTL
  /\ cutoff' = now - IdleTTL
  /\ UNCHANGED <<now, bucket, call, start, spent, latest>>

\* cleanupLoop, under the lock.
Cleanup ==
  /\ cutoff # Never
  /\ bucket' = [k \in Client |->
       IF bucket[k].there /\ bucket[k].lastSeen < cutoff THEN NoBucket ELSE bucket[k]]
  /\ cutoff' = Never
  /\ UNCHANGED <<now, call, start, spent, latest>>

\* An observer starts counting a client's admitted calls anew.
Observe(k) ==
  /\ start' = [start EXCEPT ![k] = now]
  /\ spent' = [spent EXCEPT ![k] = 0]
  /\ UNCHANGED <<now, bucket, call, cutoff, latest>>

Tick ==
  /\ now < MaxTime
  /\ \A c \in Caller : call[c] # Idle => now < call[c].at + MaxLag
  /\ now' = now + 1
  /\ UNCHANGED <<bucket, call, cutoff, start, spent, latest>>

Next ==
  \/ \E c \in Caller, k \in Client : Arrive(c, k)
  \/ \E c \in Caller : Allow(c)
  \/ StartCleanup
  \/ Cleanup
  \/ \E k \in Client : Observe(k)
  \/ Tick

Spec == Init /\ [][Next]_vars

-----------------------------------------------------------------------------
\* Evicting an idle bucket gives nothing away: it would have been full by
\* then, even if its last calls were decided out of order.
EvictionHarmless == IdleTTL >= Full + 2 * MaxLag

\* In any window a client gets at most burst calls plus rps times the
\* window's length, give or take the wait for the lock: the limit the
\* RateLimitRPS and RateLimitBurst options of GuardConfig promise, across
\* calls decided out of clock order and buckets evicted and made anew.
WindowBound ==
  \A k \in Client : spent[k] <= Full + (now - start[k]) + MaxLag

\* A client that has made no admitted call for 1/rps seconds is never
\* refused, however the calls before were ordered.
SpacedCallsAdmitted ==
  [][\A c \in Caller :
       call[c] # Idle /\ call'[c] = Idle /\ spent' = spent =>
         call[c].at - latest[call[c].key] < Cost]_vars
=============================================================================
