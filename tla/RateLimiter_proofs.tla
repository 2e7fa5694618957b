------------------------- MODULE RateLimiter_proofs -------------------------
(***************************************************************************)
(* Proofs about RateLimiter for every rate, burst, idle time, lag and      *)
(* number of clients and callers.                                          *)
(***************************************************************************)
EXTENDS RateLimiter, TLAPS

\* Zenon proves a leaf unless it names SMT, for arithmetic and records.
USE ZenonT(30)

\* A full bucket holds at least one token.
LEMMA FullType == Full \in Nat /\ Full >= Cost
<1>1. EffectiveBurst \in Nat /\ EffectiveBurst >= 1
  BY SMT, LimiterAssumption DEF EffectiveBurst
<1> QED BY SMT, <1>1, LimiterAssumption DEF Full

LEMMA SettleType ==
  ASSUME NEW b \in [there : BOOLEAN, tokens : Int, lastSeen : Nat], NEW at \in Nat
  PROVE  /\ Settle(b, at).there
         /\ Settle(b, at).tokens \in Int
         /\ Settle(b, at).tokens <= Full
         /\ Settle(b, at).lastSeen = at
         /\ b.there => Settle(b, at).tokens <= b.tokens + (at - b.lastSeen)
         /\ b.there /\ b.tokens + (at - b.lastSeen) <= Full
              => Settle(b, at).tokens = b.tokens + (at - b.lastSeen)
         /\ b.there /\ b.tokens + (at - b.lastSeen) > Full
              => Settle(b, at).tokens = Full
         /\ ~b.there => Settle(b, at).tokens = Full
         /\ Settle(b, at) = Bucket(Settle(b, at).tokens, at)
<1>1. CASE ~b.there
  <2>1. Settle(b, at) = Bucket(Full, at)
    BY <1>1 DEF Settle
  <2>2. Settle(b, at).there /\ Settle(b, at).tokens = Full /\ Settle(b, at).lastSeen = at
    BY SMT, <2>1 DEF Bucket
  <2> QED BY SMT, <1>1, <2>1, <2>2, FullType
<1>2. CASE b.there
  <2>1. Settle(b, at) = Bucket(Refilled(b, at), at)
    BY <1>2 DEF Settle
  <2>2. /\ Settle(b, at).there
        /\ Settle(b, at).tokens = Refilled(b, at)
        /\ Settle(b, at).lastSeen = at
    BY SMT, <2>1 DEF Bucket
  <2>3. b.tokens \in Int /\ b.lastSeen \in Nat
    OBVIOUS
  <2>4. /\ Refilled(b, at) \in Int
        /\ Refilled(b, at) <= Full
        /\ Refilled(b, at) <= b.tokens + (at - b.lastSeen)
        /\ b.tokens + (at - b.lastSeen) <= Full
             => Refilled(b, at) = b.tokens + (at - b.lastSeen)
        /\ b.tokens + (at - b.lastSeen) > Full => Refilled(b, at) = Full
    BY SMT, <2>3, FullType DEF Refilled
  <2> QED BY <1>2, <2>1, <2>2, <2>4
<1> QED BY <1>1, <1>2

\* What a decision does, as the proofs use it.
LEMMA AllowEffect ==
  ASSUME TypeOK, NEW c \in Caller, Allow(c)
  PROVE  /\ call[c] \in WaitingCall
         /\ call' = [call EXCEPT ![c] = Idle]
         /\ UNCHANGED <<now, cutoff, start>>
         /\ \E k \in Client, at \in Nat, tokens \in Int :
              /\ k = call[c].key /\ at = call[c].at
              /\ tokens = Settle(bucket[k], at).tokens
              /\ \/ /\ tokens >= Cost
                    /\ bucket' = [bucket EXCEPT ![k] = Bucket(tokens - Cost, at)]
                    /\ spent' = [spent EXCEPT ![k] = spent[k] + Cost]
                    /\ latest' = [latest EXCEPT ![k] = IF at > latest[k] THEN at ELSE latest[k]]
                 \/ /\ tokens < Cost
                    /\ bucket' = [bucket EXCEPT ![k] = Bucket(tokens, at)]
                    /\ UNCHANGED <<spent, latest>>
<1>1. call[c] \in WaitingCall
  BY DEF TypeOK, Allow
<1> DEFINE k == call[c].key
           at == call[c].at
           b == Settle(bucket[k], at)
<1>2. k \in Client /\ at \in Nat
  BY <1>1 DEF WaitingCall
<1>3. bucket[k] \in [there : BOOLEAN, tokens : Int, lastSeen : Nat]
  BY <1>2 DEF TypeOK
<1>4. b.tokens \in Int /\ b = Bucket(b.tokens, at)
  BY <1>2, <1>3, SettleType
<1>5. IF b.tokens >= Cost
      THEN /\ bucket' = [bucket EXCEPT ![k] = Bucket(b.tokens - Cost, at)]
           /\ spent' = [spent EXCEPT ![k] = @ + Cost]
           /\ latest' = [latest EXCEPT ![k] = IF at > @ THEN at ELSE @]
      ELSE bucket' = [bucket EXCEPT ![k] = b] /\ UNCHANGED <<spent, latest>>
  BY DEF Allow, Admits
<1>6. UNCHANGED <<now, cutoff, start>> /\ call' = [call EXCEPT ![c] = Idle]
  BY DEF Allow
<1> HIDE DEF k, at, b
<1>7. \/ /\ b.tokens >= Cost
         /\ bucket' = [bucket EXCEPT ![k] = Bucket(b.tokens - Cost, at)]
         /\ spent' = [spent EXCEPT ![k] = spent[k] + Cost]
         /\ latest' = [latest EXCEPT ![k] = IF at > latest[k] THEN at ELSE latest[k]]
      \/ /\ b.tokens < Cost
         /\ bucket' = [bucket EXCEPT ![k] = Bucket(b.tokens, at)]
         /\ UNCHANGED <<spent, latest>>
  BY SMT, <1>4, <1>5, LimiterAssumption
<1> QED BY <1>1, <1>2, <1>4, <1>6, <1>7 DEF k, at, b

-----------------------------------------------------------------------------
LEMMA InitType == Init => TypeOK
BY SMT, LimiterAssumption, FullType DEF Init, TypeOK, NoBucket, Idle, Never

LEMMA NextType == TypeOK /\ [Next]_vars => TypeOK'
<1> SUFFICES ASSUME TypeOK, [Next]_vars PROVE TypeOK'
  OBVIOUS
<1> USE LimiterAssumption
<1>1. ASSUME NEW c \in Caller, NEW k \in Client, Arrive(c, k) PROVE TypeOK'
  BY <1>1 DEF Arrive, TypeOK, Waiting, WaitingCall
<1>2. ASSUME NEW c \in Caller, Allow(c) PROVE TypeOK'
  <2>1. PICK k \in Client, at \in Nat, tokens \in Int :
              /\ k = call[c].key /\ at = call[c].at
              /\ tokens = Settle(bucket[k], at).tokens
              /\ \/ /\ tokens >= Cost
                    /\ bucket' = [bucket EXCEPT ![k] = Bucket(tokens - Cost, at)]
                    /\ spent' = [spent EXCEPT ![k] = spent[k] + Cost]
                    /\ latest' = [latest EXCEPT ![k] = IF at > latest[k] THEN at ELSE latest[k]]
                 \/ /\ tokens < Cost
                    /\ bucket' = [bucket EXCEPT ![k] = Bucket(tokens, at)]
                    /\ UNCHANGED <<spent, latest>>
    BY <1>2, AllowEffect
  <2>2. tokens <= Full
    <3>1. bucket[k] \in [there : BOOLEAN, tokens : Int, lastSeen : Nat]
      BY DEF TypeOK
    <3> QED BY <2>1, <3>1, SettleType
  <2>3. call' \in [Caller -> {Idle} \cup WaitingCall] /\ UNCHANGED <<now, cutoff, start>>
    BY <1>2, AllowEffect DEF TypeOK
  <2>4. PICK left \in Int : left <= Full /\ bucket' = [bucket EXCEPT ![k] = Bucket(left, at)]
    BY SMT, <2>1, <2>2, FullType
  <2>5. /\ bucket' \in [Client -> [there : BOOLEAN, tokens : Int, lastSeen : Nat]]
        /\ \A j \in Client : bucket'[j].tokens <= Full
    BY <2>4 DEF TypeOK, Bucket
  <2>6. spent' \in [Client -> Nat] /\ latest' \in [Client -> Int]
    BY SMT, <2>1 DEF TypeOK
  <2> QED BY <2>3, <2>5, <2>6 DEF TypeOK
<1>3. CASE StartCleanup
  BY SMT, <1>3 DEF StartCleanup, TypeOK
<1>4. CASE Cleanup
  BY SMT, <1>4, FullType DEF Cleanup, TypeOK, NoBucket, Never
<1>5. ASSUME NEW k \in Client, Observe(k) PROVE TypeOK'
  BY <1>5 DEF Observe, TypeOK
<1>6. CASE Tick
  BY SMT, <1>6 DEF Tick, TypeOK
<1>7. CASE UNCHANGED vars
  BY <1>7 DEF vars, TypeOK
<1> QED BY <1>1, <1>2, <1>3, <1>4, <1>5, <1>6, <1>7 DEF Next

\* The limiter's state is well typed, and no bucket ever holds more than burst.
THEOREM TypeCorrect == Spec => []TypeOK
BY InitType, NextType, PTL DEF Spec

-----------------------------------------------------------------------------
(***************************************************************************)
(* What every bucket owes.  tokens - lastSeen does not change with time or *)
(* with an uncapped refill, in whatever order calls are decided, so it is  *)
(* the quantity the invariants speak of.                                   *)
(***************************************************************************)
Timely ==
  /\ \A c \in Caller : call[c] # Idle => call[c].at <= now /\ now <= call[c].at + MaxLag
  /\ \A k \in Client : /\ start[k] <= now
                        /\ latest[k] <= now
                        /\ bucket[k].lastSeen <= now
  /\ cutoff # Never => cutoff + IdleTTL <= now

Credit(k) ==
  bucket[k].there =>
    /\ bucket[k].tokens - bucket[k].lastSeen >= -latest[k]
    /\ latest[k] <= bucket[k].lastSeen + MaxLag

CreditInv == Timely /\ \A k \in Client : Credit(k)

LEMMA InitCredit == Init => CreditInv
BY SMT, LimiterAssumption DEF Init, CreditInv, Timely, Credit, NoBucket, Idle, Never

LEMMA NextTimely == TypeOK /\ Timely /\ [Next]_vars => Timely'
<1> SUFFICES ASSUME TypeOK, Timely, [Next]_vars PROVE Timely'
  OBVIOUS
<1> USE LimiterAssumption DEF TypeOK, Timely
<1>1. ASSUME NEW c \in Caller, NEW k \in Client, Arrive(c, k) PROVE Timely'
  BY SMT, <1>1 DEF Arrive, Waiting, Idle
<1>2. ASSUME NEW c \in Caller, Allow(c) PROVE Timely'
  <2>1. PICK k \in Client, at \in Nat, left \in Int :
          /\ at = call[c].at
          /\ bucket' = [bucket EXCEPT ![k] = Bucket(left, at)]
          /\ \/ latest' = [latest EXCEPT ![k] = IF at > latest[k] THEN at ELSE latest[k]]
             \/ UNCHANGED latest
    BY SMT, <1>2, AllowEffect
  <2>2. call[c] # Idle /\ call' = [call EXCEPT ![c] = Idle] /\ UNCHANGED <<now, cutoff, start>>
    BY <1>2 DEF Allow
  <2>3. at <= now
    BY <2>1, <2>2
  <2>4. \A j \in Client : bucket'[j].lastSeen <= now
    BY <2>1, <2>3 DEF Bucket
  <2>5. \A j \in Client : latest'[j] <= now
    BY <2>1, <2>3
  <2> QED BY <2>2, <2>4, <2>5
<1>3. CASE StartCleanup
  BY SMT, <1>3 DEF StartCleanup, Never
<1>4. CASE Cleanup
  BY SMT, <1>4 DEF Cleanup, NoBucket, Never
<1>5. ASSUME NEW k \in Client, Observe(k) PROVE Timely'
  BY SMT, <1>5 DEF Observe
<1>6. CASE Tick
  BY SMT, <1>6 DEF Tick, WaitingCall
<1>7. CASE UNCHANGED vars
  BY <1>7 DEF vars
<1> QED BY <1>1, <1>2, <1>3, <1>4, <1>5, <1>6, <1>7 DEF Next

LEMMA NextCredit == TypeOK /\ CreditInv /\ [Next]_vars => CreditInv'
<1> SUFFICES ASSUME TypeOK, CreditInv, [Next]_vars, NEW j \in Client PROVE Credit(j)'
  BY NextTimely DEF CreditInv
<1> USE LimiterAssumption
<1>0. /\ Credit(j) /\ Timely
      /\ bucket[j] \in [there : BOOLEAN, tokens : Int, lastSeen : Nat]
      /\ latest[j] \in Int /\ now \in Nat
  BY DEF CreditInv, TypeOK
<1>1. ASSUME NEW c \in Caller, Allow(c) PROVE Credit(j)'
  <2>1. PICK k \in Client, at \in Nat, tokens \in Int :
              /\ k = call[c].key /\ at = call[c].at
              /\ tokens = Settle(bucket[k], at).tokens
              /\ \/ /\ tokens >= Cost
                    /\ bucket' = [bucket EXCEPT ![k] = Bucket(tokens - Cost, at)]
                    /\ spent' = [spent EXCEPT ![k] = spent[k] + Cost]
                    /\ latest' = [latest EXCEPT ![k] = IF at > latest[k] THEN at ELSE latest[k]]
                 \/ /\ tokens < Cost
                    /\ bucket' = [bucket EXCEPT ![k] = Bucket(tokens, at)]
                    /\ UNCHANGED <<spent, latest>>
    BY <1>1, AllowEffect
  <2>2. CASE j # k
    BY <2>1, <2>2, <1>0 DEF Credit, TypeOK
  <2>3. CASE j = k
    <3>1. now <= at + MaxLag /\ at <= now /\ latest[j] <= now
      BY <1>0, <1>1, <2>1 DEF Allow, Timely
    <3>2. /\ bucket[j].there /\ bucket[j].tokens + (at - bucket[j].lastSeen) <= Full
               => tokens = bucket[j].tokens + (at - bucket[j].lastSeen)
          /\ bucket[j].there /\ bucket[j].tokens + (at - bucket[j].lastSeen) > Full
               => tokens = Full
          /\ ~bucket[j].there => tokens = Full
      BY SMT, <1>0, <2>1, <2>3, SettleType
    <3>3. CASE tokens >= Cost
      <4>1. /\ bucket'[j].tokens = tokens - Cost /\ bucket'[j].lastSeen = at
            /\ latest'[j] = IF at > latest[j] THEN at ELSE latest[j]
        BY SMT, <2>1, <2>3, <3>3 DEF Bucket, TypeOK
      <4> QED BY SMT, <1>0, <3>1, <3>3, <4>1 DEF Credit
    <3>4. CASE tokens < Cost
      <4>1. bucket'[j].tokens = tokens /\ bucket'[j].lastSeen = at /\ latest'[j] = latest[j]
        BY SMT, <2>1, <2>3, <3>4 DEF Bucket, TypeOK
      <4>2. bucket[j].there /\ tokens = bucket[j].tokens + (at - bucket[j].lastSeen)
        BY SMT, <1>0, <3>2, <3>4, FullType
      <4> QED BY SMT, <1>0, <3>1, <4>1, <4>2 DEF Credit
    <3> QED BY SMT, <3>3, <3>4
  <2> QED BY <2>2, <2>3
<1>2. CASE Cleanup
  BY <1>0, <1>2 DEF Cleanup, NoBucket, Credit
<1>3. CASE UNCHANGED <<bucket, latest>>
  BY <1>0, <1>3 DEF Credit
<1> QED BY <1>1, <1>2, <1>3 DEF Next, Arrive, StartCleanup, Observe, Tick, vars

LEMMA CreditInvariant == Spec => [](TypeOK /\ CreditInv)
<1>1. Init => TypeOK /\ CreditInv
  BY InitType, InitCredit
<1>2. TypeOK /\ CreditInv /\ [Next]_vars => (TypeOK /\ CreditInv)'
  BY NextType, NextCredit
<1> QED BY <1>1, <1>2, PTL DEF Spec

\* A call that follows the client's last admitted call by 1/rps seconds or
\* more is admitted, in whatever order calls reach the lock.
THEOREM SpacedCallsAreAdmitted == Spec => SpacedCallsAdmitted
<1> DEFINE Refusal == \A c \in Caller :
       call[c] # Idle /\ call'[c] = Idle /\ spent' = spent =>
         call[c].at - latest[call[c].key] < Cost
<1>1. TypeOK /\ CreditInv /\ [Next]_vars => [Refusal]_vars
  <2> SUFFICES ASSUME TypeOK, CreditInv, Next, NEW c \in Caller,
                      call[c] # Idle, call'[c] = Idle, spent' = spent
               PROVE  call[c].at - latest[call[c].key] < Cost
    OBVIOUS
  <2> USE LimiterAssumption
  <2>1. Allow(c)
    <3>1. ~\E d \in Caller, k \in Client : Arrive(d, k)
      BY DEF Arrive, TypeOK, Waiting, Idle
    <3>2. \A d \in Caller : Allow(d) => d = c
      BY DEF Allow, TypeOK
    <3> QED BY <3>1, <3>2 DEF Next, StartCleanup, Cleanup, Observe, Tick
  <2>2. PICK k \in Client, at \in Nat, tokens \in Int :
              /\ k = call[c].key /\ at = call[c].at
              /\ tokens = Settle(bucket[k], at).tokens
              /\ \/ /\ tokens >= Cost
                    /\ spent' = [spent EXCEPT ![k] = spent[k] + Cost]
                 \/ tokens < Cost
    BY SMT, <2>1, AllowEffect
  <2>3. /\ bucket[k] \in [there : BOOLEAN, tokens : Int, lastSeen : Nat]
        /\ spent \in [Client -> Nat] /\ latest[k] \in Int /\ Credit(k)
    BY DEF TypeOK, CreditInv
  <2>4. tokens < Cost
    BY SMT, <2>2, <2>3
  <2>5. bucket[k].there /\ tokens = bucket[k].tokens + (at - bucket[k].lastSeen)
    <3>1. /\ bucket[k].there /\ bucket[k].tokens + (at - bucket[k].lastSeen) <= Full
               => tokens = bucket[k].tokens + (at - bucket[k].lastSeen)
          /\ bucket[k].there /\ bucket[k].tokens + (at - bucket[k].lastSeen) > Full
               => tokens = Full
          /\ ~bucket[k].there => tokens = Full
      BY SMT, <2>2, <2>3, SettleType
    <3> QED BY SMT, <2>3, <2>4, <3>1, FullType
  <2> QED BY SMT, <2>2, <2>3, <2>4, <2>5 DEF Credit
<1> QED BY <1>1, CreditInvariant, PTL DEF Spec, SpacedCallsAdmitted

-----------------------------------------------------------------------------
(***************************************************************************)
(* The bound on a window.  A bucket that is there owes the window what it  *)
(* has already given out of it; one that is not there may only be made     *)
(* anew by a call whose clock reading pays for all that was spent.         *)
(***************************************************************************)
Debt(k) ==
  spent[k] # 0 =>
    IF bucket[k].there
    THEN spent[k] + bucket[k].tokens - bucket[k].lastSeen <= Full - start[k] + MaxLag
    ELSE /\ spent[k] <= now - start[k] + MaxLag
         /\ \A c \in Caller : call[c] # Idle /\ call[c].key = k =>
              spent[k] <= call[c].at - start[k] + MaxLag

DebtInv == \A k \in Client : Debt(k)

LEMMA InitDebt == Init => DebtInv
BY DEF Init, DebtInv, Debt

LEMMA NextDebt ==
  EvictionHarmless /\ TypeOK /\ CreditInv /\ DebtInv /\ [Next]_vars => DebtInv'
<1> SUFFICES ASSUME EvictionHarmless, TypeOK, CreditInv, DebtInv, [Next]_vars,
                    NEW j \in Client
             PROVE  Debt(j)'
  BY DEF DebtInv
<1> USE LimiterAssumption, FullType
<1>0. /\ Debt(j) /\ Credit(j) /\ Timely
      /\ bucket[j] \in [there : BOOLEAN, tokens : Int, lastSeen : Nat]
      /\ latest[j] \in Int /\ now \in Nat /\ spent[j] \in Nat /\ start[j] \in Nat
      /\ \A c \in Caller : call[c] # Idle => call[c].at \in Nat
  BY DEF DebtInv, CreditInv, TypeOK, WaitingCall
<1>1. ASSUME NEW c \in Caller, NEW k \in Client, Arrive(c, k) PROVE Debt(j)'
  <2>1. call' = [call EXCEPT ![c] = Waiting(k, now)] /\ UNCHANGED <<now, bucket, spent, start>>
    BY <1>1 DEF Arrive
  <2>2. \A d \in Caller : call'[d] = call[d] \/ call'[d].at = now
    BY <2>1 DEF Waiting, TypeOK
  <2> QED BY <1>0, <2>1, <2>2 DEF Debt
<1>2. ASSUME NEW c \in Caller, Allow(c) PROVE Debt(j)'
  <2>1. PICK k \in Client, at \in Nat, tokens \in Int :
              /\ k = call[c].key /\ at = call[c].at
              /\ tokens = Settle(bucket[k], at).tokens
              /\ \/ /\ tokens >= Cost
                    /\ bucket' = [bucket EXCEPT ![k] = Bucket(tokens - Cost, at)]
                    /\ spent' = [spent EXCEPT ![k] = spent[k] + Cost]
                    /\ latest' = [latest EXCEPT ![k] = IF at > latest[k] THEN at ELSE latest[k]]
                 \/ /\ tokens < Cost
                    /\ bucket' = [bucket EXCEPT ![k] = Bucket(tokens, at)]
                    /\ UNCHANGED <<spent, latest>>
    BY <1>2, AllowEffect
  <2>2. /\ UNCHANGED <<now, start>>
        /\ \A d \in Caller : call'[d] # Idle => call'[d] = call[d]
    BY <1>2 DEF Allow, TypeOK
  <2>3. CASE j # k
    <3>1. bucket'[j] = bucket[j] /\ spent'[j] = spent[j]
      BY <2>1, <2>3 DEF TypeOK
    <3> QED BY <1>0, <2>2, <3>1 DEF Debt
  <2>4. CASE j = k
    <3>1. now <= at + MaxLag /\ start[j] <= now
      BY <1>0, <1>2, <2>1 DEF Allow, Timely
    <3>2. /\ bucket[j].there => tokens <= bucket[j].tokens + (at - bucket[j].lastSeen)
          /\ tokens <= Full
      BY <1>0, <2>1, <2>4, SettleType
    <3>3. spent[j] # 0 => spent[j] + tokens - at <= Full - start[j] + MaxLag
      BY SMT, <1>0, <1>2, <2>1, <2>4, <3>1, <3>2 DEF Debt, Allow
    <3>4. tokens - at <= Full - start[j] + MaxLag
      BY SMT, <1>0, <3>1, <3>2
    <3>5. CASE tokens >= Cost
      <4>1. /\ bucket'[j].there /\ bucket'[j].tokens = tokens - Cost
            /\ bucket'[j].lastSeen = at /\ spent'[j] = spent[j] + Cost
        BY SMT, <2>1, <2>4, <3>5 DEF Bucket, TypeOK
      <4>2. spent[j] + tokens - at <= Full - start[j] + MaxLag
        BY SMT, <1>0, <3>3, <3>4
      <4> QED BY SMT, <1>0, <2>2, <4>1, <4>2 DEF Debt
    <3>6. CASE tokens < Cost
      <4>1. /\ bucket'[j].there /\ bucket'[j].tokens = tokens
            /\ bucket'[j].lastSeen = at /\ spent'[j] = spent[j]
        BY SMT, <2>1, <2>4, <3>6 DEF Bucket, TypeOK
      <4> QED BY <2>2, <3>3, <4>1 DEF Debt
    <3> QED BY SMT, <3>5, <3>6
  <2> QED BY <2>3, <2>4
<1>3. CASE StartCleanup
  BY <1>0, <1>3 DEF StartCleanup, Debt
<1>4. CASE Cleanup
  <2>1. UNCHANGED <<now, call, start, spent>>
    BY <1>4 DEF Cleanup
  <2>2. CASE bucket'[j] = bucket[j]
    BY <1>0, <2>1, <2>2 DEF Debt
  <2>3. CASE bucket[j].there /\ bucket[j].lastSeen < cutoff /\ bucket'[j] = NoBucket
    <3>1. cutoff + IdleTTL <= now /\ cutoff \in Int
      BY <1>0, <1>4 DEF Cleanup, Timely, TypeOK
    <3>2. spent[j] # 0 => spent[j] <= (now - MaxLag) - start[j] + MaxLag
      BY SMT, <1>0, <2>3, <3>1 DEF Debt, Credit, EvictionHarmless
    <3>3. \A c \in Caller : call[c] # Idle => now - MaxLag <= call[c].at
      BY SMT, <1>0 DEF Timely
    <3>4. ~bucket'[j].there
      BY SMT, <2>3 DEF NoBucket
    <3> QED BY SMT, <1>0, <2>1, <3>2, <3>3, <3>4 DEF Debt
  <2> QED BY <1>4, <2>2, <2>3 DEF Cleanup
<1>5. ASSUME NEW k \in Client, Observe(k) PROVE Debt(j)'
  BY <1>0, <1>5 DEF Observe, Debt, TypeOK
<1>6. CASE Tick
  BY SMT, <1>0, <1>6 DEF Tick, Debt
<1>7. CASE UNCHANGED vars
  BY <1>0, <1>7 DEF vars, Debt
<1> QED BY <1>1, <1>2, <1>3, <1>4, <1>5, <1>6, <1>7 DEF Next

\* In every window a client gets at most burst calls plus rps times the
\* window's length and the wait for the lock, provided an idle bucket is
\* kept until it would have been full.
THEOREM RateIsBounded == EvictionHarmless => (Spec => []WindowBound)
<1> SUFFICES ASSUME EvictionHarmless PROVE Spec => []WindowBound
  OBVIOUS
<1>1. Init => DebtInv
  BY InitDebt
<1>2. TypeOK /\ CreditInv /\ DebtInv /\ [Next]_vars => DebtInv'
  BY NextDebt
<1>3. TypeOK /\ CreditInv /\ DebtInv => WindowBound
  <2> SUFFICES ASSUME TypeOK, CreditInv, DebtInv, NEW k \in Client
               PROVE  spent[k] <= Full + (now - start[k]) + MaxLag
    BY DEF WindowBound
  <2> QED BY SMT, LimiterAssumption, FullType
          DEF TypeOK, CreditInv, Timely, Credit, DebtInv, Debt
<1> QED BY <1>1, <1>2, <1>3, CreditInvariant, PTL DEF Spec
=============================================================================
