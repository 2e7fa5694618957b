---------------------------- MODULE Policy_proofs ----------------------------
(***************************************************************************)
(* Lemmas about the operators of Policy, for the modules that evaluate     *)
(* policies: what check allows meets the policy, and what a call of        *)
(* Evaluate can return however the configuration changes under it.         *)
(***************************************************************************)
EXTENDS Policy, WellFoundedInduction, TLAPS

\* Zenon proves a leaf unless it names SMT, for arithmetic and records.
USE ZenonT(30)

\* A non-empty set of naturals has a least element, and First picks it.
LEMMA FirstIsLeast ==
  ASSUME NEW S, S \subseteq Nat, S # {}
  PROVE  First(S) \in S /\ \A j \in S : First(S) <= j
<1>1. PICK i \in S : \A j \in S : ~(<<j, i>> \in OpToRel(<, Nat))
  BY WFMin, NatLessThanWellFounded
<1>2. \A j \in S : ~(j < i)
  BY <1>1 DEF OpToRel
<1>3. \A j \in S : i <= j
  BY SMT, <1>2
<1> QED BY <1>3 DEF First

\* IndexOf is 0 or the first position of the value.
LEMMA IndexOfFacts ==
  ASSUME NEW list, Len(list) \in Nat, NEW value
  PROVE  /\ IndexOf(list, value) \in Nat
         /\ IndexOf(list, value) > 0 =>
              /\ IndexOf(list, value) \in 1..Len(list)
              /\ list[IndexOf(list, value)] = value
              /\ \A j \in 1..Len(list) : list[j] = value => IndexOf(list, value) <= j
         /\ \A j \in 1..Len(list) : list[j] = value => IndexOf(list, value) > 0
<1>1. CASE \E i \in 1..Len(list) : list[i] = value
  <2> DEFINE S == {i \in 1..Len(list) : list[i] = value}
  <2>1. S # {} /\ S \subseteq Nat
    BY SMT, <1>1
  <2>2. PICK m \in S : \A j \in S : m <= j
    <3> HIDE DEF S
    <3> QED BY <2>1, FirstIsLeast
  <2>4. m \in 1..Len(list) /\ list[m] = value /\ \A j \in 1..(m - 1) : list[j] # value
    BY SMT, <2>2
  <2>3. PICK i \in 1..Len(list) :
          /\ i = IndexOf(list, value)
          /\ list[i] = value /\ \A j \in 1..(i - 1) : list[j] # value
    BY <1>1, <2>4 DEF IndexOf
  <2> QED BY SMT, <2>3
<1>2. CASE ~\E i \in 1..Len(list) : list[i] = value
  BY SMT, <1>2 DEF IndexOf
<1> QED BY <1>1, <1>2

\* "Levels are compared by index position": whatever the hierarchy, even with
\* repeated entries, satisfying is reflexive, transitive and antisymmetric.
THEOREM ACRIsPartialOrder ==
  ASSUME NEW levels, Len(levels) \in Nat, NEW a, NEW b, NEW c
  PROVE  /\ ACRSatisfies(a, a, levels)
         /\ ACRSatisfies(a, b, levels) /\ ACRSatisfies(b, c, levels)
              => ACRSatisfies(a, c, levels)
         /\ ACRSatisfies(a, b, levels) /\ ACRSatisfies(b, a, levels) => a = b
<1>1. \A v \in {a, b, c} :
         /\ IndexOf(levels, v) \in Nat
         /\ IndexOf(levels, v) > 0 => levels[IndexOf(levels, v)] = v
  BY IndexOfFacts
<1> QED BY SMT, <1>1 DEF ACRSatisfies

\* What check allows meets the requirements, read from the policy.
LEMMA AllowedMeets ==
  ASSUME NEW p, NEW q, NEW levels, Len(levels) \in Nat,
         q.authAge \in Int, p.maxAge \in Int, Reason(p, q, levels) = "allowed"
  PROVE  Meets(p, q, levels)
<1>1. /\ p.scopes \subseteq q.scopes
      /\ p.acr = NoACR \/ ACRSatisfies(q.acr, p.acr, levels)
      /\ ~(p.maxAge > 0 /\ q.authAge <= 0)
      /\ ~(p.maxAge > 0 /\ q.authAge > p.maxAge)
      /\ ~(p.mfa /\ q.amr \cap {"mfa", "otp", "hwk"} = {})
      /\ MatchAll(p.details, q.details)
  BY DEF Reason
<1>2. p.maxAge > 0 => q.authAge \in 1..p.maxAge
  BY SMT, <1>1
<1>3. p.mfa => \E m \in q.amr : m \in {"mfa", "otp", "hwk"}
  BY <1>1
<1>4. \/ p.acr = NoACR
      \/ q.acr = p.acr
      \/ \E i, j \in 1..Len(levels) :
           /\ levels[i] = p.acr /\ levels[j] = q.acr /\ i <= j
           /\ \A k \in 1..Len(levels) : levels[k] = p.acr => i <= k
  <2>1. CASE /\ IndexOf(levels, q.acr) > 0
             /\ IndexOf(levels, p.acr) > 0
             /\ IndexOf(levels, q.acr) >= IndexOf(levels, p.acr)
    BY <2>1, IndexOfFacts
  <2> QED BY <1>1, <2>1 DEF ACRSatisfies
<1>5. \A f \in p.details : \E d \in q.details :
         f.type = d.type /\ f.actions \subseteq d.actions /\ f.fields \subseteq d.fields
  BY <1>1 DEF MatchAll, Satisfies
<1> QED BY <1>1, <1>2, <1>3, <1>4, <1>5 DEF Meets

\* A policy that applies is for the request.
LEMMA AppliesInScope ==
  ASSUME NEW p, NEW q, Applies(p, q)
  PROVE  InScope(p, q)
<1>1. p.enabled /\ (p.methods # {} => Upper[q.method] \in {Upper[m] : m \in p.methods})
  BY DEF Applies, MatchMethod
<1>2. PICK pattern \in p.resources : MatchResource(pattern, q.path)
  BY DEF Applies
<1> QED BY SMT, <1>1, <1>2 DEF InScope, MatchResource

-----------------------------------------------------------------------------
(***************************************************************************)
(* Evaluate while the configuration is replaced.                           *)
(***************************************************************************)
LEMMA ResultFields ==
  ASSUME NEW p, NEW r
  PROVE  Result(p, r).policy = p /\ Result(p, r).reason = r
BY DEF Result

LEMMA NoDecision ==
  ASSUME NEW p
  PROVE  Result(p, "no match").reason # "allowed" /\ Result(p, "panic").reason # "allowed"
BY SMT DEF Result

\* What a result is made of: the reads of a loop that ended at i.
MadeOf(out, run, k, n, q, none) ==
  \E read \in Readings(run, k, n + 1) : \E i \in 1..(n + 1) :
    EndsAt(i, n, read, q) /\ out = ReturnAt(i, n, read, q, none)

LEMMA OutcomeReads ==
  ASSUME NEW run, NEW q, NEW none, NEW out \in Outcomes(run, q, none)
  PROVE  \E k \in 1..Len(run) : MadeOf(out, run, k, Len(run[k].policies), q, none)
<1> DEFINE n(k) == Len(run[k].policies)
           Of(k, read) == {ReturnAt(i, n(k), read, q, none) :
                             i \in {j \in 1..(n(k) + 1) : EndsAt(j, n(k), read, q)}}
           From(k) == UNION {Of(k, read) : read \in Readings(run, k, n(k) + 1)}
<1>1. out \in UNION {From(k) : k \in 1..Len(run)}
  BY DEF Outcomes
<1> HIDE DEF From
<1>2. PICK k \in 1..Len(run) : out \in From(k)
  BY <1>1
<1> HIDE DEF Of
<1>3. PICK read \in Readings(run, k, n(k) + 1) : out \in Of(k, read)
  BY <1>2 DEF From
<1>4. \E i \in 1..(n(k) + 1) :
        EndsAt(i, n(k), read, q) /\ out = ReturnAt(i, n(k), read, q, none)
  BY <1>3 DEF Of
<1> QED BY <1>3, <1>4 DEF MadeOf

\* Every read sees a configuration of the history.
LEMMA ReadsHistory ==
  ASSUME NEW run, Len(run) \in Nat, NEW k \in 1..Len(run), NEW n \in Nat,
         NEW read \in Readings(run, k, n)
  PROVE  \A i \in 1..n : \E m \in 1..Len(run) : read[i] = run[m]
<1> SUFFICES ASSUME NEW i \in 1..n
             PROVE  \E m \in 1..Len(run) : read[i] = run[m]
  OBVIOUS
<1>1. PICK at \in [1..n -> k..Len(run)] : read = [j \in 1..n |-> run[at[j]]]
  BY DEF Readings, Ascending
<1>2. at[i] \in k..Len(run) /\ read[i] = run[at[i]]
  BY <1>1
<1>3. at[i] \in 1..Len(run)
  BY SMT, <1>2
<1> QED BY <1>2, <1>3

\* What Evaluate returns is no decision of the history's, or that of a policy
\* that applies; in a history of one configuration it is what that one says.
LEMMA OutcomeFacts ==
  ASSUME NEW run, Len(run) \in Nat, \A m \in 1..Len(run) : WellFormed(run[m]),
         NEW q, q.authAge \in Int, NEW none, NEW out \in Outcomes(run, q, none)
  PROVE  /\ out.reason = "allowed" =>
              \E a, b \in 1..Len(run) : \E i \in 1..Len(run[a].policies) :
                /\ run[a].policies[i] = out.policy
                /\ InScope(out.policy, q)
                /\ Meets(out.policy, q, run[b].acrLevels)
         /\ \A cfg : (\A m \in 1..Len(run) : run[m] = cfg) =>
              out = EvaluateConfig(cfg, q, none)
<1>1. PICK k \in 1..Len(run) : MadeOf(out, run, k, Len(run[k].policies), q, none)
  BY OutcomeReads
<1>2. PICK n : n = Len(run[k].policies)
  OBVIOUS
<1>3. PICK read \in Readings(run, k, n + 1) :
        \E i \in 1..(n + 1) : EndsAt(i, n, read, q) /\ out = ReturnAt(i, n, read, q, none)
  BY <1>1, <1>2 DEF MadeOf
<1>4. PICK i \in 1..(n + 1) : EndsAt(i, n, read, q) /\ out = ReturnAt(i, n, read, q, none)
  BY <1>3
<1>5. n \in Nat /\ n + 1 \in Nat
  <2>1. n \in Nat
    BY <1>2 DEF WellFormed
  <2> QED BY SMT, <2>1
<1>6. \A j \in 1..(n + 1) : \E m \in 1..Len(run) : read[j] = run[m]
  <2>1. PICK x \in Nat : x = n + 1
    BY <1>5
  <2>2. read \in Readings(run, k, x)
    BY <2>1
  <2>3. \A j \in 1..x : \E m \in 1..Len(run) : read[j] = run[m]
    BY SMT, <2>2, ReadsHistory
  <2> QED BY <2>1, <2>3
<1>7. \A cfg : (\A m \in 1..Len(run) : run[m] = cfg) =>
        /\ n = Len(cfg.policies)
        /\ \A j \in 1..(n + 1) : read[j] = cfg
  BY <1>2, <1>6
<1>8. \A j \in 1..(i - 1) : j \in 1..(n + 1) /\ GoesOn(read[j], j, q)
  <2>1. \A j \in 1..(i - 1) : j \in 1..(n + 1)
    BY SMT, <1>5
  <2> QED BY <1>4, <2>1 DEF EndsAt
<1>9. CASE i > n
  <2>1. out = Result(none, "no match")
    BY <1>4, <1>9 DEF ReturnAt
  <2>2. out.reason # "allowed"
    BY <2>1, NoDecision
  <2>3. ASSUME NEW cfg, \A m \in 1..Len(run) : run[m] = cfg
        PROVE  out = EvaluateConfig(cfg, q, none)
    <3>1. \A j \in 1..n : j \in 1..(i - 1) /\ j \in 1..(n + 1)
      BY SMT, <1>5, <1>9
    <3>2. \A j \in 1..n : ~Applies(cfg.policies[j], q)
      BY <1>7, <1>8, <2>3, <3>1 DEF GoesOn
    <3>3. {j \in 1..Len(cfg.policies) : Applies(cfg.policies[j], q)} = {}
      BY <1>7, <2>3, <3>2
    <3> QED BY <2>1, <3>3 DEF EvaluateConfig
  <2> QED BY <2>2, <2>3
<1>10. CASE ~(i > n) /\ i > Len(read[i].policies)
  <2>1. out = Result(none, "panic")
    BY <1>4, <1>10 DEF ReturnAt
  <2>2. out.reason # "allowed"
    BY <2>1, NoDecision
  <2>3. ASSUME NEW cfg, \A m \in 1..Len(run) : run[m] = cfg
        PROVE  FALSE
    BY <1>7, <1>10, <2>3
  <2> QED BY <2>2, <2>3
<1>11. CASE ~(i > n) /\ ~(i > Len(read[i].policies))
  <2> DEFINE p == read[i].policies[i]
             r == Reason(p, q, read[i + 1].acrLevels)
  <2>1. out = Result(p, r)
    BY <1>4, <1>11 DEF ReturnAt
  <2>2. PICK a \in 1..Len(run) : read[i] = run[a]
    BY <1>6
  <2>3. i + 1 \in 1..(n + 1) /\ i \in 1..n
    BY SMT, <1>5, <1>11
  <2>4. PICK b \in 1..Len(run) : read[i + 1] = run[b]
    BY <1>6, <2>3
  <2>5. i <= n /\ i <= Len(read[i].policies) /\ i \in 1..Len(run[a].policies)
    <3>1. Len(run[a].policies) \in Nat
      BY DEF WellFormed
    <3> QED BY SMT, <1>5, <1>11, <2>2, <3>1
  <2>6. Applies(p, q)
    BY <1>4, <2>5 DEF EndsAt, GoesOn
  <2>7. r = "allowed" => InScope(p, q) /\ Meets(p, q, run[b].acrLevels)
    <3>1. p.maxAge \in Int /\ Len(run[b].acrLevels) \in Nat
      BY <2>2, <2>5 DEF WellFormed
    <3> QED BY <2>4, <2>6, <3>1, AllowedMeets, AppliesInScope
  <2>8. out.policy = p /\ out.reason = r
    BY <2>1, ResultFields
  <2>9. ASSUME NEW cfg, \A m \in 1..Len(run) : run[m] = cfg
        PROVE  out = EvaluateConfig(cfg, q, none)
    <3> DEFINE hits == {j \in 1..Len(cfg.policies) : Applies(cfg.policies[j], q)}
    <3>1. read[i] = cfg /\ read[i + 1] = cfg /\ Len(cfg.policies) = n
      BY <1>7, <2>3, <2>9
    <3>2. i \in hits
      BY <2>3, <2>6, <3>1
    <3>3. \A j \in 1..(i - 1) : ~Applies(cfg.policies[j], q)
      BY <1>7, <1>8, <2>9 DEF GoesOn
    <3>4. hits \subseteq Nat /\ \A j \in hits : i <= j
      BY SMT, <1>5, <2>3, <3>1, <3>3
    <3>5. First(hits) = i
      <4>1. First(hits) \in hits /\ \A j \in hits : First(hits) <= j
        <5> HIDE DEF hits
        <5> QED BY <3>2, <3>4, FirstIsLeast
      <4>2. First(hits) <= i /\ i <= First(hits) /\ First(hits) \in Nat
        <5> HIDE DEF hits
        <5> QED BY <3>2, <3>4, <4>1
      <4> QED BY SMT, <1>5, <4>2
    <3> QED BY <2>1, <3>1, <3>2, <3>5 DEF EvaluateConfig
  <2> QED BY <2>2, <2>5, <2>7, <2>8, <2>9
<1> QED BY <1>9, <1>10, <1>11

\* What Evaluate allows is authorized by any set of configurations with those
\* that were installed during the call in it.
LEMMA AllowedIsAuthorized ==
  ASSUME NEW run, Len(run) \in Nat, \A m \in 1..Len(run) : WellFormed(run[m]),
         NEW q, q.authAge \in Int, NEW none, NEW out \in Outcomes(run, q, none),
         out.reason = "allowed", NEW seen, \A m \in 1..Len(run) : run[m] \in seen
  PROVE  Authorized(seen, q, none)
<1>1. PICK a, b \in 1..Len(run) : \E i \in 1..Len(run[a].policies) :
        /\ run[a].policies[i] = out.policy
        /\ InScope(out.policy, q)
        /\ Meets(out.policy, q, run[b].acrLevels)
  BY OutcomeFacts
<1>2. \A cfg \in seen : seen = {cfg} => \A m \in 1..Len(run) : run[m] = cfg
  OBVIOUS
<1>3. \A cfg \in seen : seen = {cfg} => EvaluateConfig(cfg, q, none).reason = "allowed"
  <2>1. \A cfg : (\A m \in 1..Len(run) : run[m] = cfg) => out = EvaluateConfig(cfg, q, none)
    BY SMT, OutcomeFacts
  <2> QED BY <1>2, <2>1
<1>4. run[a] \in seen /\ run[b] \in seen
  OBVIOUS
<1> QED BY <1>1, <1>3, <1>4 DEF Authorized

\* A later configuration does not take back what was authorized before.
LEMMA AuthorizedMore ==
  ASSUME NEW seen, NEW more, seen \subseteq more, NEW q, NEW none, Authorized(seen, q, none)
  PROVE  Authorized(more, q, none)
<1>1. PICK cfg, other \in seen : \E i \in 1..Len(cfg.policies) :
        InScope(cfg.policies[i], q) /\ Meets(cfg.policies[i], q, other.acrLevels)
  BY DEF Authorized
<1>2. cfg \in more /\ other \in more
  OBVIOUS
<1>3. \A c \in more : more = {c} => seen = {c}
  BY <1>2
<1> QED BY <1>1, <1>2, <1>3 DEF Authorized
=============================================================================
