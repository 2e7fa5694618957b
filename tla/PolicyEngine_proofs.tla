------------------------- MODULE PolicyEngine_proofs -------------------------
(***************************************************************************)
(* Proofs about the policy engine.  The argument is the loop invariant of  *)
(* Evaluate: there is a way to place the reads made so far on the          *)
(* configurations installed meanwhile, in their order, such that no policy *)
(* before the current one applies.  What the call returns is then one of   *)
(* the Outcomes of this history, and what those are is in Policy_proofs.   *)
(***************************************************************************)
EXTENDS PolicyEngine, Policy_proofs, SequenceTheorems

-----------------------------------------------------------------------------
(***************************************************************************)
(* Type correctness.                                                       *)
(***************************************************************************)
LEMMA ResultTyped ==
  ASSUME NEW p \in AnyPolicy \cup {NoPolicy}, NEW r \in Reasons
  PROVE  Result(p, r) \in [policy : AnyPolicy \cup {NoPolicy}, reason : Reasons]
BY DEF Result

LEMMA EvaluationTyped ==
  ASSUME NEW pc \in {"idle", "loop", "check", "done"}, NEW q \in Query \cup {NoQuery},
         NEW n \in Nat, NEW i \in Nat, NEW p \in AnyPolicy \cup {NoPolicy},
         NEW out \in [policy : AnyPolicy \cup {NoPolicy}, reason : Reasons],
         NEW run \in Seq(Config \cup {NoConfig})
  PROVE  Evaluation(pc, q, n, i, p, out, run) \in CallState
BY DEF Evaluation, CallState

\* The fields of a call.
LEMMA EvaluationFields ==
  ASSUME NEW pc, NEW q, NEW n, NEW i, NEW p, NEW out, NEW run
  PROVE  LET e == Evaluation(pc, q, n, i, p, out, run)
         IN  /\ e.pc = pc /\ e.q = q /\ e.n = n /\ e.i = i
             /\ e.policy = p /\ e.out = out /\ e.run = run
BY DEF Evaluation

LEMMA CallFields ==
  ASSUME NEW e \in CallState
  PROVE  /\ e.pc \in {"idle", "loop", "check", "done"} /\ e.q \in Query \cup {NoQuery}
         /\ e.n \in Nat /\ e.i \in Nat /\ e.policy \in AnyPolicy \cup {NoPolicy}
         /\ e.out \in [policy : AnyPolicy \cup {NoPolicy}, reason : Reasons]
         /\ e.run \in Seq(Config \cup {NoConfig})
BY DEF CallState

LEMMA ReasonTyped ==
  ASSUME NEW p, NEW q, NEW levels
  PROVE  Reason(p, q, levels) \in Reasons
<1>1. \/ Reason(p, q, levels) = "scope" \/ Reason(p, q, levels) = "acr"
      \/ Reason(p, q, levels) = "auth_time" \/ Reason(p, q, levels) = "max_age"
      \/ Reason(p, q, levels) = "mfa" \/ Reason(p, q, levels) = "details"
      \/ Reason(p, q, levels) = "allowed"
  BY Zenon DEF Reason
<1> QED BY <1>1 DEF Reasons

-----------------------------------------------------------------------------
(***************************************************************************)
(* Placing reads on a history.                                             *)
(***************************************************************************)
\* The reads from the i-th on can be moved to the end of the history.
Movable(n, k, l, at, i) ==
  \E to \in Ascending(n, k, l) :
    /\ \A j \in 1..n : j < i => to[j] = at[j]
    /\ \A j \in 1..n : ~(j < i) => to[j] = l

LEMMA MoveReads ==
  ASSUME NEW n \in Nat, NEW k \in Nat, NEW l \in Nat, k <= l,
         NEW at \in Ascending(n, k, l), NEW i \in Nat
  PROVE  Movable(n, k, l, at, i)
<1> DEFINE to == [j \in 1..n |-> IF j < i THEN at[j] ELSE l]
<1>1. /\ \A j \in 1..n : at[j] \in k..l
      /\ \A x, y \in 1..n : x <= y => at[x] <= at[y]
  BY DEF Ascending
<1>2. \A j \in 1..n : to[j] = IF j < i THEN at[j] ELSE l
  OBVIOUS
<1>3. to \in [1..n -> k..l]
  BY SMT, <1>1
<1> HIDE DEF to
<1>4. \A x, y \in 1..n : x <= y => to[x] <= to[y]
  BY SMT, <1>1, <1>2
<1>5. to \in Ascending(n, k, l)
  BY <1>3, <1>4 DEF Ascending
<1> QED BY <1>2, <1>5 DEF Movable

LEMMA LongerHistory ==
  ASSUME NEW n \in Nat, NEW k \in Nat, NEW l \in Nat, NEW at \in Ascending(n, k, l)
  PROVE  at \in Ascending(n, k, l + 1)
<1>1. at \in [1..n -> k..l] /\ \A x, y \in 1..n : x <= y => at[x] <= at[y]
  BY DEF Ascending
<1>2. at \in [1..n -> k..(l + 1)]
  BY SMT, <1>1
<1> QED BY <1>1, <1>2 DEF Ascending

\* A loop that ended at i, with the reads at, returned an outcome.
LEMMA OutcomeFrom ==
  ASSUME NEW run, NEW k \in 1..Len(run), NEW n, n = Len(run[k].policies),
         NEW at \in Ascending(n + 1, k, Len(run)), NEW i \in 1..(n + 1),
         NEW q, NEW none, NEW read, read = [j \in 1..(n + 1) |-> run[at[j]]],
         EndsAt(i, n, read, q)
  PROVE  ReturnAt(i, n, read, q, none) \in Outcomes(run, q, none)
<1> DEFINE Of(m, x) == {ReturnAt(j, m, x, q, none) : j \in {y \in 1..(m + 1) : EndsAt(y, m, x, q)}}
           From(y) == UNION {Of(Len(run[y].policies), x) :
                               x \in Readings(run, y, Len(run[y].policies) + 1)}
<1>1. read \in Readings(run, k, n + 1)
  BY DEF Readings
<1>2. ReturnAt(i, n, read, q, none) \in Of(n, read)
  OBVIOUS
<1> HIDE DEF Of
<1>3. ReturnAt(i, n, read, q, none) \in From(k)
  BY <1>1, <1>2
<1>4. Outcomes(run, q, none) = UNION {From(y) : y \in 1..Len(run)}
  BY DEF Outcomes, Of
<1> HIDE DEF From
<1> QED BY <1>3, <1>4

-----------------------------------------------------------------------------
(***************************************************************************)
(* The inductive invariant, call by call: e is the local state of a call   *)
(* while cf is installed.                                                  *)
(***************************************************************************)
Running(e) == e.pc \in {"loop", "check"}

Typed(e, cf) ==
  /\ e \in CallState
  /\ e.pc # "idle" => e.q \in Query
  /\ Running(e) =>
       /\ e.run \in Seq(Config) \ {<<>>} /\ cf = e.run[Len(e.run)]
       /\ e.i \in 1..(e.n + 1)

\* The loop invariant: at places the reads on the history, k is where the
\* number of policies was read.
Places(e, k, at) ==
  /\ e.n = Len(e.run[k].policies)
  /\ \A j \in 1..(e.n + 1) : j < e.i => GoesOn(e.run[at[j]], j, e.q)
  /\ e.pc = "check" =>
       /\ e.i <= e.n /\ ~(e.i > Len(e.run[at[e.i]].policies))
       /\ e.policy = e.run[at[e.i]].policies[e.i] /\ Applies(e.policy, e.q)

Loop(e) ==
  Running(e) =>
    \E k \in 1..Len(e.run) : \E at \in Ascending(e.n + 1, k, Len(e.run)) : Places(e, k, at)

Returned(e) ==
  e.pc = "done" =>
    \/ e.run = <<NoConfig>> /\ e.out = NoConfigLoaded
    \/ e.run \in Seq(Config) /\ e.out \in Outcomes(e.run, e.q, NoPolicy)

CallInv(e, cf) == Typed(e, cf) /\ Loop(e) /\ Returned(e)

IInv ==
  /\ config \in Config \cup {NoConfig}
  /\ reloads \in 0..MaxReload
  /\ call \in [Caller -> CallState]
  /\ \A c \in Caller : CallInv(call[c], config)

\* The results the engine returns without a policy.
LEMMA FixedResults ==
  \A r \in {Pending, NoMatch, NoConfigLoaded, Panicked} :
    /\ r \in [policy : AnyPolicy \cup {NoPolicy}, reason : Reasons]
    /\ r.reason # "allowed"
<1>1. /\ "pending" \in Reasons /\ "no match" \in Reasons
      /\ "no config" \in Reasons /\ "panic" \in Reasons
  BY DEF Reasons
<1>2. \A x \in Reasons :
        Result(NoPolicy, x) \in [policy : AnyPolicy \cup {NoPolicy}, reason : Reasons]
  BY DEF Result
<1>3. \A x : Result(NoPolicy, x).reason = x
  BY DEF Result
<1>4. /\ Pending.reason = "pending" /\ NoMatch.reason = "no match"
      /\ NoConfigLoaded.reason = "no config" /\ Panicked.reason = "panic"
  BY <1>3 DEF Pending, NoMatch, NoConfigLoaded, Panicked
<1>5. \A r \in {Pending, NoMatch, NoConfigLoaded, Panicked} : r.reason # "allowed"
  BY <1>4
<1>6. \A r \in {Pending, NoMatch, NoConfigLoaded, Panicked} :
        r \in [policy : AnyPolicy \cup {NoPolicy}, reason : Reasons]
  BY <1>1, <1>2 DEF Pending, NoMatch, NoConfigLoaded, Panicked
<1> QED BY <1>5, <1>6

LEMMA IdleInv ==
  ASSUME NEW cf
  PROVE  CallInv(Idle, cf)
<1>1. Idle.pc = "idle"
  BY SMT, EvaluationFields DEF Idle
<1>2. Idle \in CallState
  <2>1. Pending \in [policy : AnyPolicy \cup {NoPolicy}, reason : Reasons]
    BY FixedResults
  <2>2. <<>> \in Seq(Config \cup {NoConfig})
    BY EmptySeq
  <2> QED BY <2>1, <2>2, EvaluationTyped DEF Idle
<1>3. ~Running(Idle)
  BY <1>1 DEF Running
<1> QED BY <1>1, <1>2, <1>3 DEF CallInv, Typed, Loop, Returned

\* A history of one configuration.
LEMMA OneConfiguration ==
  ASSUME NEW S, NEW cf \in S
  PROVE  <<cf>> \in Seq(S) /\ <<cf>> # <<>> /\ Len(<<cf>>) = 1 /\ <<cf>>[1] = cf
BY SMT

\* What Begin moves to.
LEMMA BeginInv ==
  ASSUME NEW cf \in Config \cup {NoConfig}, NEW q \in Query,
         NEW e, e = IF cf = NoConfig
                    THEN Evaluation("done", q, 0, 0, NoPolicy, NoConfigLoaded, <<cf>>)
                    ELSE Evaluation("loop", q, Len(cf.policies), 1, NoPolicy, Pending, <<cf>>)
  PROVE  CallInv(e, cf)
<1>0. <<cf>> \in Seq(Config \cup {NoConfig})
  BY OneConfiguration
<1>1. CASE cf = NoConfig
  <2>1. e.pc = "done" /\ e.q = q /\ e.out = NoConfigLoaded /\ e.run = <<cf>>
    BY SMT, <1>1, EvaluationFields
  <2>2. e \in CallState
    BY <1>0, <1>1, FixedResults, EvaluationTyped
  <2>3. ~Running(e)
    BY <2>1 DEF Running
  <2> QED BY <1>1, <2>1, <2>2, <2>3 DEF CallInv, Typed, Loop, Returned
<1>2. CASE cf # NoConfig
  <2>0. Len(cf.policies) \in Nat /\ cf \in Config
    BY <1>2, ConfigAssumption DEF WellFormed
  <2>1. /\ e.pc = "loop" /\ e.q = q /\ e.n = Len(cf.policies) /\ e.i = 1
        /\ e.run = <<cf>>
    BY SMT, <1>2, EvaluationFields
  <2>2. e \in CallState
    <3>1. Pending \in [policy : AnyPolicy \cup {NoPolicy}, reason : Reasons]
      BY FixedResults
    <3> QED BY <1>0, <1>2, <2>0, <3>1, EvaluationTyped
  <2>3. /\ e.run \in Seq(Config) \ {<<>>} /\ Len(e.run) = 1 /\ e.run[1] = cf
    BY <2>0, <2>1, OneConfiguration
  <2>4. Typed(e, cf)
    <3>1. e.i \in 1..(e.n + 1)
      BY SMT, <2>0, <2>1
    <3> QED BY <2>1, <2>2, <2>3, <3>1 DEF Typed
  <2>5. Loop(e)
    <3> DEFINE at == [j \in 1..(e.n + 1) |-> 1]
    <3>1. at \in Ascending(e.n + 1, 1, 1) /\ 1 \in 1..Len(e.run)
      BY SMT, <2>3 DEF Ascending
    <3>2. \A j \in 1..(e.n + 1) : ~(j < e.i)
      BY SMT, <2>0, <2>1
    <3> HIDE DEF at
    <3>3. Places(e, 1, at)
      BY <2>1, <2>3, <3>2 DEF Places
    <3> QED BY <2>3, <3>1, <3>3 DEF Loop
  <2> QED BY <2>1, <2>4, <2>5 DEF CallInv, Returned
<1> QED BY <1>1, <1>2

\* What the invariant says of a call in progress.
LEMMA RunningFacts ==
  ASSUME NEW cf, NEW e, CallInv(e, cf), Running(e)
  PROVE  /\ e \in CallState /\ e.q \in Query /\ e.n \in Nat /\ e.i \in Nat
         /\ e.i \in 1..(e.n + 1) /\ e.run \in Seq(Config) /\ e.run # <<>>
         /\ Len(e.run) \in Nat /\ Len(e.run) > 0 /\ cf = e.run[Len(e.run)] /\ cf \in Config
         /\ Len(cf.policies) \in Nat
         /\ \E k \in 1..Len(e.run) : \E at \in Ascending(e.n + 1, k, Len(e.run)) : Places(e, k, at)
<1>1. /\ e \in CallState /\ e.pc # "idle" /\ e.run \in Seq(Config) /\ e.run # <<>>
      /\ cf = e.run[Len(e.run)] /\ e.i \in 1..(e.n + 1) /\ e.q \in Query
  BY DEF CallInv, Typed, Running
<1>2. e.n \in Nat /\ e.i \in Nat
  BY <1>1, CallFields
<1>3. Len(e.run) \in Nat /\ Len(e.run) > 0 /\ e.run[Len(e.run)] \in Config
  BY SMT, <1>1
<1>4. Len(cf.policies) \in Nat
  BY <1>1, <1>3, ConfigAssumption DEF WellFormed
<1> QED BY <1>1, <1>2, <1>3, <1>4 DEF CallInv, Loop

\* The reads from the m-th on, up to now, may all have seen what is installed.
ReadsNow(e, cf, m) ==
  \E k \in 1..Len(e.run) : \E at \in Ascending(e.n + 1, k, Len(e.run)) :
    Places(e, k, at) /\ \A j \in 1..(e.n + 1) : ~(j < m) => e.run[at[j]] = cf

LEMMA ReadNow ==
  ASSUME NEW cf, NEW e, CallInv(e, cf), Running(e), NEW m \in Nat, e.i <= m,
         m > e.i \/ e.pc = "loop"
  PROVE  ReadsNow(e, cf, m)
<1>1. /\ e.n \in Nat /\ e.i \in Nat /\ Len(e.run) \in Nat /\ cf = e.run[Len(e.run)]
      /\ e.i \in 1..(e.n + 1)
      /\ \E k \in 1..Len(e.run) : \E at \in Ascending(e.n + 1, k, Len(e.run)) : Places(e, k, at)
  BY RunningFacts
<1>2. PICK k \in 1..Len(e.run) : \E at \in Ascending(e.n + 1, k, Len(e.run)) : Places(e, k, at)
  BY <1>1
<1>3. PICK at \in Ascending(e.n + 1, k, Len(e.run)) : Places(e, k, at)
  BY <1>2
<1>4. PICK n \in Nat : n = e.n + 1
  BY SMT, <1>1
<1>5. PICK l \in Nat : l = Len(e.run)
  BY <1>1
<1>6. k \in Nat /\ k <= l /\ at \in Ascending(n, k, l)
  <2>1. k \in Nat /\ k <= l
    BY SMT, <1>5
  <2> QED BY <1>4, <1>5, <2>1
<1>7. PICK to \in Ascending(n, k, l) :
        /\ \A j \in 1..n : j < m => to[j] = at[j]
        /\ \A j \in 1..n : ~(j < m) => to[j] = l
  <2>1. Movable(n, k, l, at, m)
    BY <1>6, MoveReads
  <2> QED BY <2>1 DEF Movable
<1>8. Places(e, k, to)
  <2>1. \A j \in 1..n : j < e.i => j < m
    BY SMT, <1>1, <1>4
  <2>2. \A j \in 1..n : j < e.i => GoesOn(e.run[to[j]], j, e.q)
    BY <1>3, <1>4, <1>7, <2>1 DEF Places
  <2>3. e.pc = "check" => to[e.i] = at[e.i]
    <3>1. e.pc = "check" => e.i < m
      BY SMT, <1>1
    <3> QED BY <1>1, <1>4, <1>7, <3>1
  <2> QED BY <1>3, <1>4, <2>2, <2>3 DEF Places
<1>9. \A j \in 1..n : ~(j < m) => e.run[to[j]] = cf
  BY <1>1, <1>5, <1>7
<1> QED BY <1>4, <1>5, <1>8, <1>9 DEF ReadsNow

\* The end of a call: the reads give the result.
LEMMA DoneInv ==
  ASSUME NEW cf, NEW e, CallInv(e, cf), Running(e),
         NEW k \in 1..Len(e.run), NEW at \in Ascending(e.n + 1, k, Len(e.run)),
         e.n = Len(e.run[k].policies),
         NEW read, read = [j \in 1..(e.n + 1) |-> e.run[at[j]]],
         EndsAt(e.i, e.n, read, e.q),
         NEW p \in AnyPolicy \cup {NoPolicy}, NEW out, out = ReturnAt(e.i, e.n, read, e.q, NoPolicy),
         out \in [policy : AnyPolicy \cup {NoPolicy}, reason : Reasons],
         NEW f, f = Evaluation("done", e.q, e.n, e.i, p, out, e.run)
  PROVE  CallInv(f, cf)
<1>1. f.pc = "done" /\ f.q = e.q /\ f.out = out /\ f.run = e.run
  BY SMT DEF Evaluation
<1>2. e \in CallState /\ e.q \in Query /\ e.i \in 1..(e.n + 1) /\ e.run \in Seq(Config)
  BY RunningFacts
<1>3. f \in CallState
  BY <1>2, CallFields, EvaluationTyped
<1>4. ~Running(f)
  BY <1>1 DEF Running
<1>5. out \in Outcomes(e.run, e.q, NoPolicy)
  <2>1. PICK run, n, i, q : run = e.run /\ n = e.n /\ i = e.i /\ q = e.q
    OBVIOUS
  <2>2. /\ k \in 1..Len(run) /\ n = Len(run[k].policies) /\ at \in Ascending(n + 1, k, Len(run))
        /\ i \in 1..(n + 1) /\ read = [j \in 1..(n + 1) |-> run[at[j]]] /\ EndsAt(i, n, read, q)
    BY <1>2, <2>1
  <2>3. ReturnAt(i, n, read, q, NoPolicy) \in Outcomes(run, q, NoPolicy)
    BY <2>2, OutcomeFrom
  <2> QED BY <2>1, <2>3
<1> QED BY <1>1, <1>2, <1>3, <1>4, <1>5 DEF CallInv, Typed, Loop, Returned

\* What the reads see.
LEMMA ReadFields ==
  ASSUME NEW n, NEW run, NEW at, NEW read, read = [j \in 1..n |-> run[at[j]]]
  PROVE  \A j \in 1..n : read[j] = run[at[j]]
OBVIOUS

\* No policy in front of the current one ends the loop.
LEMMA WentOn ==
  ASSUME NEW e, e.n \in Nat, e.i \in 1..(e.n + 1), NEW k, NEW at, Places(e, k, at),
         NEW read, read = [j \in 1..(e.n + 1) |-> e.run[at[j]]]
  PROVE  \A j \in 1..(e.i - 1) : GoesOn(read[j], j, e.q)
<1>1. \A j \in 1..(e.i - 1) : j \in 1..(e.n + 1) /\ j < e.i
  BY SMT
<1> QED BY <1>1 DEF Places

\* The end of the loop.
LEMMA ExhaustedInv ==
  ASSUME NEW cf, NEW e, CallInv(e, cf), e.pc = "loop", e.i > e.n,
         NEW f, f = Evaluation("done", e.q, e.n, e.i, NoPolicy, NoMatch, e.run)
  PROVE  CallInv(f, cf)
<1>1. Running(e)
  BY DEF Running
<1>2. /\ e.n \in Nat /\ e.i \in 1..(e.n + 1)
      /\ \E k \in 1..Len(e.run) : \E at \in Ascending(e.n + 1, k, Len(e.run)) : Places(e, k, at)
  BY <1>1, RunningFacts
<1>3. PICK k \in 1..Len(e.run) : \E at \in Ascending(e.n + 1, k, Len(e.run)) : Places(e, k, at)
  BY <1>2
<1>4. PICK at \in Ascending(e.n + 1, k, Len(e.run)) : Places(e, k, at)
  BY <1>3
<1>5. PICK read : read = [j \in 1..(e.n + 1) |-> e.run[at[j]]]
  OBVIOUS
<1>6. EndsAt(e.i, e.n, read, e.q)
  <2>1. ~(e.i <= e.n)
    BY SMT, <1>2
  <2> QED BY <1>2, <1>4, <1>5, <2>1, WentOn DEF EndsAt
<1>7. NoMatch = ReturnAt(e.i, e.n, read, e.q, NoPolicy)
  BY DEF ReturnAt, NoMatch
<1>8. NoMatch \in [policy : AnyPolicy \cup {NoPolicy}, reason : Reasons]
  BY FixedResults
<1>9. e.n = Len(e.run[k].policies)
  BY <1>4 DEF Places
<1> QED BY <1>1, <1>4, <1>5, <1>6, <1>7, <1>8, <1>9, DoneInv

\* The index out of range.
LEMMA PanicInv ==
  ASSUME NEW cf, NEW e, CallInv(e, cf), e.pc = "loop", ~(e.i > e.n),
         e.i > Len(cf.policies),
         NEW f, f = Evaluation("done", e.q, e.n, e.i, NoPolicy, Panicked, e.run)
  PROVE  CallInv(f, cf)
<1>1. Running(e)
  BY DEF Running
<1>2. e.n \in Nat /\ e.i \in Nat /\ e.i \in 1..(e.n + 1) /\ e.i <= e.i /\ Len(cf.policies) \in Nat
  <2>1. e.n \in Nat /\ e.i \in Nat /\ e.i \in 1..(e.n + 1) /\ Len(cf.policies) \in Nat
    BY <1>1, RunningFacts
  <2> QED BY SMT, <2>1
<1>3. PICK k \in 1..Len(e.run) : \E at \in Ascending(e.n + 1, k, Len(e.run)) :
        Places(e, k, at) /\ \A j \in 1..(e.n + 1) : ~(j < e.i) => e.run[at[j]] = cf
  <2>1. PICK m : m = e.i
    OBVIOUS
  <2>2. m \in Nat /\ e.i <= m
    BY <2>1, <1>2
  <2>3. ReadsNow(e, cf, m)
    BY <1>1, <2>2, ReadNow
  <2> QED BY <2>1, <2>3 DEF ReadsNow
<1>4. PICK at \in Ascending(e.n + 1, k, Len(e.run)) :
        Places(e, k, at) /\ \A j \in 1..(e.n + 1) : ~(j < e.i) => e.run[at[j]] = cf
  BY <1>3
<1>5. PICK read : read = [j \in 1..(e.n + 1) |-> e.run[at[j]]]
  OBVIOUS
<1>6. read[e.i] = cf
  <2>1. ~(e.i < e.i)
    BY SMT, <1>2
  <2> QED BY <1>2, <1>4, <1>5, <2>1
<1>7. EndsAt(e.i, e.n, read, e.q)
  <2>1. ~(e.i <= Len(cf.policies))
    BY SMT, <1>2
  <2>2. ~GoesOn(read[e.i], e.i, e.q)
    BY <1>6, <2>1 DEF GoesOn
  <2> QED BY <1>2, <1>4, <1>5, <2>2, WentOn DEF EndsAt
<1>8. Panicked = ReturnAt(e.i, e.n, read, e.q, NoPolicy)
  BY <1>6 DEF ReturnAt, Panicked
<1>9. Panicked \in [policy : AnyPolicy \cup {NoPolicy}, reason : Reasons]
  BY FixedResults
<1>10. e.n = Len(e.run[k].policies)
  BY <1>4 DEF Places
<1> QED BY <1>1, <1>4, <1>5, <1>7, <1>8, <1>9, <1>10, DoneInv

\* A policy that applies.
LEMMA HitInv ==
  ASSUME NEW cf, NEW e, CallInv(e, cf), e.pc = "loop", ~(e.i > e.n),
         ~(e.i > Len(cf.policies)), Applies(cf.policies[e.i], e.q),
         NEW f, f = Evaluation("check", e.q, e.n, e.i, cf.policies[e.i], Pending, e.run)
  PROVE  CallInv(f, cf)
<1>1. /\ f.pc = "check" /\ f.q = e.q /\ f.n = e.n /\ f.i = e.i /\ f.policy = cf.policies[e.i]
      /\ f.run = e.run
  BY SMT, EvaluationFields
<1>2. Running(e) /\ Running(f)
  BY <1>1 DEF Running
<1>3. /\ e \in CallState /\ e.q \in Query /\ e.n \in Nat /\ e.i \in Nat /\ e.i \in 1..(e.n + 1)
      /\ e.run \in Seq(Config) /\ e.run # <<>> /\ cf = e.run[Len(e.run)] /\ cf \in Config
      /\ Len(cf.policies) \in Nat
  BY <1>2, RunningFacts
<1>4. e.i \in 1..Len(cf.policies) /\ e.i <= e.n /\ e.i <= e.i /\ ~(e.i < e.i)
  BY SMT, <1>3
<1>5. cf.policies[e.i] \in AnyPolicy
  BY <1>3, <1>4 DEF PolicyIn, AnyPolicy
<1>6. f \in CallState
  <2>1. Pending \in [policy : AnyPolicy \cup {NoPolicy}, reason : Reasons]
    BY FixedResults
  <2> QED BY <1>3, <1>5, <2>1, CallFields, EvaluationTyped
<1>7. Typed(f, cf)
  BY <1>1, <1>3, <1>6 DEF Typed
<1>8. PICK k \in 1..Len(e.run) : \E at \in Ascending(e.n + 1, k, Len(e.run)) :
        Places(e, k, at) /\ \A j \in 1..(e.n + 1) : ~(j < e.i) => e.run[at[j]] = cf
  <2>1. PICK m : m = e.i
    OBVIOUS
  <2>2. m \in Nat /\ e.i <= m
    BY <2>1, <1>3, <1>4
  <2>3. ReadsNow(e, cf, m)
    BY <1>2, <2>2, ReadNow
  <2> QED BY <2>1, <2>3 DEF ReadsNow
<1>9. PICK at \in Ascending(e.n + 1, k, Len(e.run)) :
        Places(e, k, at) /\ \A j \in 1..(e.n + 1) : ~(j < e.i) => e.run[at[j]] = cf
  BY <1>8
<1>10. e.run[at[e.i]] = cf
  BY <1>3, <1>4, <1>9
<1>11. Places(f, k, at)
  BY <1>1, <1>4, <1>9, <1>10 DEF Places
<1> QED BY <1>1, <1>7, <1>11 DEF CallInv, Loop, Returned

\* A policy that does not apply.
LEMMA MissInv ==
  ASSUME NEW cf, NEW e, CallInv(e, cf), e.pc = "loop", ~(e.i > e.n),
         ~(e.i > Len(cf.policies)), ~Applies(cf.policies[e.i], e.q),
         NEW f, f = Evaluation("loop", e.q, e.n, e.i + 1, NoPolicy, Pending, e.run)
  PROVE  CallInv(f, cf)
<1>1. f.pc = "loop" /\ f.q = e.q /\ f.n = e.n /\ f.i = e.i + 1 /\ f.run = e.run
  BY SMT, EvaluationFields
<1>2. Running(e) /\ Running(f)
  BY <1>1 DEF Running
<1>3. /\ e \in CallState /\ e.q \in Query /\ e.n \in Nat /\ e.i \in Nat /\ e.i \in 1..(e.n + 1)
      /\ e.run \in Seq(Config) /\ e.run # <<>> /\ cf = e.run[Len(e.run)] /\ cf \in Config
      /\ Len(cf.policies) \in Nat
  BY <1>2, RunningFacts
<1>4. /\ e.i <= Len(cf.policies) /\ e.i <= e.i /\ ~(e.i < e.i) /\ f.i \in 1..(f.n + 1)
      /\ e.i + 1 \in Nat /\ \A j \in 1..(e.n + 1) : j < f.i => j < e.i \/ j = e.i
  BY SMT, <1>1, <1>3
<1>5. f \in CallState
  <2>1. Pending \in [policy : AnyPolicy \cup {NoPolicy}, reason : Reasons]
    BY FixedResults
  <2> QED BY <1>3, <1>4, <2>1, CallFields, EvaluationTyped
<1>6. Typed(f, cf)
  BY <1>1, <1>3, <1>4, <1>5 DEF Typed
<1>7. PICK k \in 1..Len(e.run) : \E at \in Ascending(e.n + 1, k, Len(e.run)) :
        Places(e, k, at) /\ \A j \in 1..(e.n + 1) : ~(j < e.i) => e.run[at[j]] = cf
  <2>1. PICK m : m = e.i
    OBVIOUS
  <2>2. m \in Nat /\ e.i <= m
    BY <2>1, <1>3, <1>4
  <2>3. ReadsNow(e, cf, m)
    BY <1>2, <2>2, ReadNow
  <2> QED BY <2>1, <2>3 DEF ReadsNow
<1>8. PICK at \in Ascending(e.n + 1, k, Len(e.run)) :
        Places(e, k, at) /\ \A j \in 1..(e.n + 1) : ~(j < e.i) => e.run[at[j]] = cf
  BY <1>7
<1>9. GoesOn(cf, e.i, e.q) /\ e.run[at[e.i]] = cf
  BY <1>3, <1>4, <1>8 DEF GoesOn
<1>10. Places(f, k, at)
  <2>1. \A j \in 1..(e.n + 1) : j < f.i => GoesOn(e.run[at[j]], j, e.q)
    BY <1>4, <1>8, <1>9 DEF Places
  <2>2. e.n = Len(e.run[k].policies)
    BY <1>8 DEF Places
  <2> QED BY <1>1, <2>1, <2>2 DEF Places
<1> QED BY <1>1, <1>6, <1>10 DEF CallInv, Loop, Returned

\* The check.
LEMMA CheckInv ==
  ASSUME NEW cf, NEW e, CallInv(e, cf), e.pc = "check",
         NEW f, f = Evaluation("done", e.q, e.n, e.i, e.policy,
                      Result(e.policy, Reason(e.policy, e.q, cf.acrLevels)), e.run)
  PROVE  CallInv(f, cf)
<1>1. Running(e)
  BY DEF Running
<1>2. PICK m : m = e.i + 1
  OBVIOUS
<1>3. /\ e \in CallState /\ e.n \in Nat /\ e.i \in Nat /\ e.i \in 1..(e.n + 1)
      /\ m \in Nat /\ m > e.i /\ e.i <= m /\ ~(m < m) /\ (e.i <= e.n => m \in 1..(e.n + 1))
  <2>1. e \in CallState /\ e.n \in Nat /\ e.i \in Nat /\ e.i \in 1..(e.n + 1)
    BY <1>1, RunningFacts
  <2>2. m \in Nat /\ m > e.i /\ e.i <= m /\ ~(m < m) /\ (e.i <= e.n => m \in 1..(e.n + 1))
    BY SMT, <1>2, <2>1
  <2> QED BY <2>1, <2>2
<1>4. PICK k \in 1..Len(e.run) : \E at \in Ascending(e.n + 1, k, Len(e.run)) :
        Places(e, k, at) /\ \A j \in 1..(e.n + 1) : ~(j < m) => e.run[at[j]] = cf
  <2>1. m \in Nat /\ m > e.i /\ e.i <= m
    BY <1>3
  <2>2. ReadsNow(e, cf, m)
    BY <1>1, <2>1, ReadNow
  <2> QED BY <2>2 DEF ReadsNow
<1>5. PICK at \in Ascending(e.n + 1, k, Len(e.run)) :
        Places(e, k, at) /\ \A j \in 1..(e.n + 1) : ~(j < m) => e.run[at[j]] = cf
  BY <1>4
<1>6. PICK read : read = [j \in 1..(e.n + 1) |-> e.run[at[j]]]
  OBVIOUS
<1>7. /\ e.i <= e.n /\ ~(e.i > Len(read[e.i].policies)) /\ e.policy = read[e.i].policies[e.i]
      /\ Applies(e.policy, e.q) /\ e.n = Len(e.run[k].policies)
  <2>1. read[e.i] = e.run[at[e.i]]
    BY <1>3, <1>6
  <2> QED BY <1>5, <2>1 DEF Places
<1>8. read[e.i + 1] = cf
  BY <1>2, <1>3, <1>5, <1>6, <1>7
<1>9. EndsAt(e.i, e.n, read, e.q)
  <2>1. ~GoesOn(read[e.i], e.i, e.q)
    BY <1>7 DEF GoesOn
  <2> QED BY <1>3, <1>5, <1>6, <2>1, WentOn DEF EndsAt
<1>10. PICK out : out = Result(e.policy, Reason(e.policy, e.q, cf.acrLevels))
  OBVIOUS
<1>11. out = ReturnAt(e.i, e.n, read, e.q, NoPolicy)
  <2>1. ~(e.i > e.n)
    BY SMT, <1>3, <1>7
  <2> QED BY <1>7, <1>8, <1>10, <2>1 DEF ReturnAt
<1>12. /\ e.policy \in AnyPolicy \cup {NoPolicy}
       /\ out \in [policy : AnyPolicy \cup {NoPolicy}, reason : Reasons]
  <2>1. e.policy \in AnyPolicy \cup {NoPolicy}
    BY <1>3, CallFields
  <2> QED BY <1>10, <2>1, ReasonTyped, ResultTyped
<1>13. f = Evaluation("done", e.q, e.n, e.i, e.policy, out, e.run)
  BY <1>10
<1>14. e.n = Len(e.run[k].policies) /\ at \in Ascending(e.n + 1, k, Len(e.run))
  BY <1>7
<1>15. PICK p : p = e.policy
  OBVIOUS
<1>16. p \in AnyPolicy \cup {NoPolicy} /\ f = Evaluation("done", e.q, e.n, e.i, p, out, e.run)
  BY <1>12, <1>13, <1>15
<1>17. out \in [policy : AnyPolicy \cup {NoPolicy}, reason : Reasons]
  BY <1>12
<1> QED BY <1>1, <1>6, <1>9, <1>11, <1>14, <1>16, <1>17, DoneInv

\* A reload: the history of a call in progress gets longer.
LEMMA ReloadInv ==
  ASSUME NEW cf, NEW e, CallInv(e, cf), Running(e), NEW new \in Config,
         NEW f, f = Evaluation(e.pc, e.q, e.n, e.i, e.policy, e.out, Append(e.run, new))
  PROVE  CallInv(f, new)
<1>1. /\ f.pc = e.pc /\ f.q = e.q /\ f.n = e.n /\ f.i = e.i /\ f.policy = e.policy
      /\ f.run = Append(e.run, new)
  <2>1. PICK run : run = Append(e.run, new)
    OBVIOUS
  <2>2. f = Evaluation(e.pc, e.q, e.n, e.i, e.policy, e.out, run)
    BY <2>1
  <2> QED BY SMT, <2>1, <2>2 DEF Evaluation
<1>2. /\ e \in CallState /\ e.q \in Query /\ e.n \in Nat /\ e.i \in 1..(e.n + 1)
      /\ e.run \in Seq(Config) /\ Len(e.run) \in Nat
      /\ \E k \in 1..Len(e.run) : \E at \in Ascending(e.n + 1, k, Len(e.run)) : Places(e, k, at)
  BY RunningFacts
<1>3. PICK l : l = Len(e.run)
  OBVIOUS
<1>4. /\ f.run \in Seq(Config) /\ f.run # <<>> /\ Len(f.run) = l + 1
      /\ f.run[l + 1] = new /\ \A j \in 1..l : f.run[j] = e.run[j]
  BY <1>1, <1>2, <1>3, AppendProperties
<1>5. f.run \in Seq(Config \cup {NoConfig})
  BY SMT, <1>4
<1>6. f \in CallState
  BY <1>1, <1>2, <1>5, CallFields, EvaluationTyped
<1>7. Typed(f, new)
  BY <1>1, <1>2, <1>4, <1>6 DEF Typed
<1>8. PICK k \in 1..l : \E at \in Ascending(e.n + 1, k, l) : Places(e, k, at)
  BY <1>2, <1>3
<1>9. PICK at \in Ascending(e.n + 1, k, l) : Places(e, k, at)
  BY <1>8
<1>10. PICK n : n = e.n + 1
  OBVIOUS
<1>11. n \in Nat /\ k \in Nat /\ l \in Nat /\ k \in 1..(l + 1)
  BY SMT, <1>2, <1>3, <1>10
<1>12. at \in Ascending(n, k, l + 1)
  BY <1>9, <1>10, <1>11, LongerHistory
<1>13. \A j \in 1..n : f.run[at[j]] = e.run[at[j]]
  <2>1. \A j \in 1..n : at[j] \in 1..l
    <3>1. \A j \in 1..n : at[j] \in k..l
      BY <1>9, <1>10 DEF Ascending
    <3> QED BY SMT, <1>11, <3>1
  <2> QED BY <1>4, <2>1
<1>14. Places(f, k, at)
  BY <1>1, <1>2, <1>4, <1>9, <1>10, <1>13 DEF Places
<1>15. Loop(f)
  BY <1>1, <1>4, <1>10, <1>11, <1>12, <1>14 DEF Loop
<1> QED BY <1>1, <1>7, <1>15 DEF CallInv, Returned, Running

LEMMA InitIInv == Init => IInv
<1> SUFFICES ASSUME Init PROVE IInv
  OBVIOUS
<1>1. Idle \in CallState
  BY IdleInv DEF CallInv, Typed
<1>2. call \in [Caller -> CallState] /\ \A c \in Caller : call[c] = Idle
  BY <1>1 DEF Init
<1>3. \A c \in Caller : CallInv(call[c], config)
  BY <1>2, IdleInv
<1> QED BY SMT, <1>2, <1>3, EngineAssumption DEF Init, IInv

LEMMA NextIInv == IInv /\ [Next]_vars => IInv'
<1> SUFFICES ASSUME IInv, [Next]_vars PROVE IInv'
  OBVIOUS
<1>0. /\ config \in Config \cup {NoConfig} /\ reloads \in 0..MaxReload
      /\ call \in [Caller -> CallState] /\ \A c \in Caller : CallInv(call[c], config)
  BY DEF IInv
\* A step of one caller.
<1>1. ASSUME NEW c \in Caller, NEW f, CallInv(f, config),
             call' = [call EXCEPT ![c] = f], UNCHANGED <<config, reloads>>
      PROVE  IInv'
  <2>1. f \in CallState
    BY <1>1 DEF CallInv, Typed
  <2>2. call' \in [Caller -> CallState]
    BY <1>0, <1>1, <2>1
  <2>3. \A x \in Caller : call'[x] = IF x = c THEN f ELSE call[x]
    BY <1>0, <1>1
  <2>4. \A x \in Caller : CallInv(call'[x], config)
    BY <1>0, <1>1, <2>3
  <2> QED BY <1>0, <1>1, <2>2, <2>4 DEF IInv
<1>2. ASSUME NEW c \in Caller, NEW q \in Query, Begin(c, q)
      PROVE  IInv'
  <2> DEFINE f == IF config = NoConfig
                  THEN Evaluation("done", q, 0, 0, NoPolicy, NoConfigLoaded, <<config>>)
                  ELSE Evaluation("loop", q, Len(config.policies), 1, NoPolicy, Pending,
                                  <<config>>)
  <2>1. CallInv(f, config)
    BY <1>0, BeginInv
  <2>2. call' = [call EXCEPT ![c] = f] /\ UNCHANGED <<config, reloads>>
    BY <1>2 DEF Begin
  <2> HIDE DEF f
  <2> QED BY <1>1, <2>1, <2>2
<1>3. ASSUME NEW c \in Caller, Iterate(c)
      PROVE  IInv'
  <2> DEFINE e == call[c]
  <2>0. /\ CallInv(e, config) /\ e.pc = "loop" /\ UNCHANGED <<config, reloads>>
    BY <1>0, <1>3 DEF Iterate
  <2>2. CASE e.i > e.n
    <3>1. call' = [call EXCEPT ![c] =
                     Evaluation("done", e.q, e.n, e.i, NoPolicy, NoMatch, e.run)]
      BY <1>3, <2>2 DEF Iterate, Done
    <3> QED BY <1>1, <2>0, <2>2, <3>1, ExhaustedInv
  <2>3. CASE ~(e.i > e.n) /\ e.i > Len(config.policies)
    <3>1. call' = [call EXCEPT ![c] =
                     Evaluation("done", e.q, e.n, e.i, NoPolicy, Panicked, e.run)]
      BY <1>3, <2>3 DEF Iterate, Done
    <3> QED BY <1>1, <2>0, <2>3, <3>1, PanicInv
  <2>4. CASE /\ ~(e.i > e.n) /\ ~(e.i > Len(config.policies))
             /\ Applies(config.policies[e.i], e.q)
    <3>1. call' = [call EXCEPT ![c] =
                     Evaluation("check", e.q, e.n, e.i, config.policies[e.i], Pending,
                                e.run)]
      BY <1>3, <2>4 DEF Iterate
    <3> QED BY <1>1, <2>0, <2>4, <3>1, HitInv
  <2>5. CASE /\ ~(e.i > e.n) /\ ~(e.i > Len(config.policies))
             /\ ~Applies(config.policies[e.i], e.q)
    <3>1. call' = [call EXCEPT ![c] =
                     Evaluation("loop", e.q, e.n, e.i + 1, NoPolicy, Pending, e.run)]
      BY <1>3, <2>5 DEF Iterate
    <3> QED BY <1>1, <2>0, <2>5, <3>1, MissInv
  <2> QED BY <2>2, <2>3, <2>4, <2>5
<1>4. ASSUME NEW c \in Caller, Check(c)
      PROVE  IInv'
  <2> DEFINE e == call[c]
  <2>0. /\ CallInv(e, config) /\ e.pc = "check" /\ UNCHANGED <<config, reloads>>
    BY <1>0, <1>4 DEF Check
  <2>2. call' = [call EXCEPT ![c] =
                   Evaluation("done", e.q, e.n, e.i, e.policy,
                     Result(e.policy, Reason(e.policy, e.q, config.acrLevels)), e.run)]
    BY <1>4 DEF Check, Done
  <2> QED BY <1>1, <2>0, <2>2, CheckInv
<1>5. ASSUME NEW c \in Caller, Return(c)
      PROVE  IInv'
  BY <1>1, <1>5, IdleInv DEF Return
<1>6. ASSUME NEW new \in Config, Reload(new)
      PROVE  IInv'
  <2> DEFINE f(c) == Evaluation(call[c].pc, call[c].q, call[c].n, call[c].i,
                       call[c].policy, call[c].out, Append(call[c].run, new))
  <2>1. /\ config' = new /\ reloads' \in 0..MaxReload
        /\ call' = [c \in Caller |-> IF ~Running(call[c]) THEN call[c] ELSE f(c)]
    BY SMT, <1>0, <1>6, EngineAssumption DEF Reload, Running
  <2>2. \A c \in Caller : Running(call[c]) => CallInv(f(c), new)
    BY <1>0, ReloadInv
  <2>3. \A c \in Caller : ~Running(call[c]) => CallInv(call[c], new)
    BY <1>0 DEF CallInv, Typed
  <2> HIDE DEF f
  <2>4. \A c \in Caller : CallInv(call'[c], new)
    BY <2>1, <2>2, <2>3
  <2>5. call' \in [Caller -> CallState]
    BY <2>1, <2>2, <2>3 DEF CallInv, Typed
  <2> QED BY <2>1, <2>4, <2>5 DEF IInv
<1>7. CASE UNCHANGED vars
  BY <1>0, <1>7 DEF vars, IInv
<1> QED BY <1>2, <1>3, <1>4, <1>5, <1>6, <1>7 DEF Next

-----------------------------------------------------------------------------
LEMMA Invariance == Spec => []IInv
BY InitIInv, NextIInv, PTL DEF Spec

\* Type correctness, for every set of configurations and requests.
THEOREM TypeCorrect == Spec => []TypeOK
<1>1. IInv => TypeOK
  BY DEF IInv, CallInv, Typed, Running, TypeOK
<1> QED BY <1>1, Invariance, PTL

\* What the result of a call that ended is made of.
LEMMA DoneFacts ==
  ASSUME IInv, NEW c \in Caller, call[c].pc = "done", Seen(c) \subseteq Config \/ Allowed(c)
  PROVE  /\ call[c].run \in Seq(Config) /\ Len(call[c].run) \in Nat
         /\ \A m \in 1..Len(call[c].run) : WellFormed(call[c].run[m])
         /\ call[c].q.authAge \in Int
         /\ call[c].out \in Outcomes(call[c].run, call[c].q, NoPolicy)
<1>1. CallInv(call[c], config)
  BY DEF IInv
<1>2. call[c].q \in Query
  BY <1>1 DEF CallInv, Typed
<1>3. ~(call[c].run = <<NoConfig>> /\ call[c].out = NoConfigLoaded)
  <2>1. SUFFICES ASSUME call[c].run = <<NoConfig>>, call[c].out = NoConfigLoaded PROVE FALSE
    OBVIOUS
  <2>2. Len(call[c].run) = 1 /\ call[c].run[1] = NoConfig
    BY <2>1, OneConfiguration
  <2>3. 1 \in 1..1
    BY SMT
  <2>4. NoConfig \in Seen(c)
    BY <2>2, <2>3 DEF Seen
  <2>5. ~Allowed(c)
    BY <2>1, FixedResults DEF Allowed
  <2> QED BY <2>4, <2>5, EngineAssumption
<1>4. call[c].run \in Seq(Config) /\ call[c].out \in Outcomes(call[c].run, call[c].q, NoPolicy)
  BY <1>1, <1>3 DEF CallInv, Returned
<1>5. Len(call[c].run) \in Nat /\ \A m \in 1..Len(call[c].run) : call[c].run[m] \in Config
  BY SMT, <1>4
<1> QED BY <1>2, <1>4, <1>5, ConfigAssumption

\* Evaluate without a reload: the first enabled policy that matches decides,
\* whatever the policies, and the loop never leaves the configuration.
THEOREM FirstMatchDecides == Spec => []OneConfigDecides
<1>1. ASSUME IInv, NEW c \in Caller, call[c].pc = "done",
             NEW cfg \in Seen(c) \ {NoConfig}, Seen(c) = {cfg}
      PROVE  call[c].out = EvaluateConfig(cfg, call[c].q, NoPolicy)
  <2>1. call[c].run \in Seq(Config \cup {NoConfig})
    <3>1. call[c] \in CallState
      BY <1>1 DEF IInv
    <3> QED BY <3>1, CallFields
  <2>2. \A m \in 1..Len(call[c].run) : call[c].run[m] \in Config \cup {NoConfig}
    BY SMT, <2>1
  <2>3. \A m \in 1..Len(call[c].run) : call[c].run[m] = cfg
    BY <1>1 DEF Seen
  <2>4. Seen(c) \subseteq Config
    BY <1>1, <2>2 DEF Seen
  <2> QED BY <1>1, <2>3, <2>4, DoneFacts, OutcomeFacts
<1>2. IInv => OneConfigDecides
  BY <1>1 DEF OneConfigDecides
<1> QED BY <1>2, Invariance, PTL

\* Evaluate racing any number of reloads: the loop returns nothing but what
\* its reads, made in the order of the installations, give.
THEOREM ReadsAloneDecide == Spec => []ReadsDecide
<1>1. IInv => ReadsDecide
  BY DoneFacts DEF ReadsDecide
<1> QED BY <1>1, Invariance, PTL

\* Evaluate racing any number of reloads: an allowed request is justified by
\* a policy of a configuration installed during the call.
THEOREM AllowIsJustified == Spec => []AllowJustified
<1>1. ASSUME IInv, NEW c \in Caller, Allowed(c)
      PROVE  \E cfg, other \in Seen(c) \ {NoConfig} : \E i \in 1..Len(cfg.policies) :
               /\ cfg.policies[i] = call[c].out.policy
               /\ InScope(cfg.policies[i], call[c].q)
               /\ Meets(cfg.policies[i], call[c].q, other.acrLevels)
  <2>1. call[c].pc = "done" /\ call[c].out.reason = "allowed"
    BY <1>1 DEF Allowed
  <2>2. /\ call[c].run \in Seq(Config) /\ Len(call[c].run) \in Nat
        /\ \A m \in 1..Len(call[c].run) : WellFormed(call[c].run[m])
        /\ call[c].q.authAge \in Int
        /\ call[c].out \in Outcomes(call[c].run, call[c].q, NoPolicy)
    BY <1>1, <2>1, DoneFacts
  <2>3. PICK a, b \in 1..Len(call[c].run) : \E i \in 1..Len(call[c].run[a].policies) :
          /\ call[c].run[a].policies[i] = call[c].out.policy
          /\ InScope(call[c].out.policy, call[c].q)
          /\ Meets(call[c].out.policy, call[c].q, call[c].run[b].acrLevels)
    BY <2>1, <2>2, OutcomeFacts
  <2>4. call[c].run[a] \in Config /\ call[c].run[b] \in Config
    BY SMT, <2>2
  <2>5. call[c].run[a] \in Seen(c) \ {NoConfig} /\ call[c].run[b] \in Seen(c) \ {NoConfig}
    BY <2>4, EngineAssumption DEF Seen
  <2> QED BY <2>3, <2>5
<1>2. IInv => AllowJustified
  BY <1>1 DEF AllowJustified
<1> QED BY <1>2, Invariance, PTL
=============================================================================
