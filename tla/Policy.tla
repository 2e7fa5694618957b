------------------------------- MODULE Policy -------------------------------
(***************************************************************************)
(* What the policy engine computes (pkg/core/policy/matcher.go, the check  *)
(* function of engine.go, and pkg/core/rar): whether a policy applies to a *)
(* request, whether the token meets it, and what Evaluate can return while *)
(* the configuration is being replaced.                                    *)
(*                                                                         *)
(* A path is the sequence of its segments.  A pattern is the segments in   *)
(* front of its first **, and whether it has one; what follows a ** is     *)
(* ignored by the code.  Sets stand for lists whose order no check depends *)
(* on.                                                                     *)
(***************************************************************************)
EXTENDS Integers, Sequences

CONSTANTS
  Empty,    \* the empty path segment, as after a trailing slash
  Accepts,  \* Accepts[s]: the segments path.Match accepts for the segment s
            \* of a pattern, {s} unless s has a wildcard
  Upper,    \* Upper[m]: strings.ToUpper of a method
  NoACR     \* an absent acr ("" in the code)

\* strings.TrimRight(path, "/").
TrimRight(path) ==
  LET n == CHOOSE k \in 0..Len(path) :
             /\ \A i \in (k + 1)..Len(path) : path[i] = Empty
             /\ k = 0 \/ path[k] # Empty
  IN  SubSeq(path, 1, n)

\* With ** the rest of the pattern is a literal prefix, wildcards included;
\* without it path.Match decides segment by segment.  An empty path equals
\* only an empty pattern.
MatchResource(pattern, path) ==
  LET prefix == TrimRight(pattern.segments)
      p == TrimRight(path)
  IN  IF p = <<>> \/ (~pattern.deep /\ prefix = <<>>)
      THEN ~pattern.deep /\ p = prefix
      ELSE IF pattern.deep
      THEN Len(prefix) <= Len(p) /\ \A i \in 1..Len(prefix) : p[i] = prefix[i]
      ELSE Len(prefix) = Len(p) /\ \A i \in 1..Len(p) : p[i] \in Accepts[prefix[i]]

\* No methods means all methods.
MatchMethod(methods, method) ==
  methods = {} \/ \E m \in methods : Upper[m] = Upper[method]

\* The first position of a value in a list, 0 when it is not there.
IndexOf(list, value) ==
  IF \E i \in 1..Len(list) : list[i] = value
  THEN CHOOSE i \in 1..Len(list) :
         list[i] = value /\ \A j \in 1..(i - 1) : list[j] # value
  ELSE 0

ACRSatisfies(provided, required, hierarchy) ==
  \/ provided = required
  \/ /\ IndexOf(hierarchy, provided) > 0
     /\ IndexOf(hierarchy, required) > 0
     /\ IndexOf(hierarchy, provided) >= IndexOf(hierarchy, required)

\* AuthorizationDetailFilter.Satisfies; fields are the string-valued members,
\* as a set of <<name, value>> pairs.
Satisfies(filter, detail) ==
  /\ detail.type = filter.type
  /\ filter.actions \subseteq detail.actions
  /\ filter.fields \subseteq detail.fields

\* rar.MatchAll.
MatchAll(filters, details) ==
  \A f \in filters : \E d \in details : Satisfies(f, d)

\* matchesPolicy, for a policy that is enabled.
Applies(p, q) ==
  /\ p.enabled
  /\ MatchMethod(p.methods, q.method)
  /\ \E pattern \in p.resources : MatchResource(pattern, q.path)

\* Mutant of Reason: without auth_time the max_age check is skipped.
ReasonUnknownAgeOK(p, q, levels) ==
  IF ~(p.scopes \subseteq q.scopes) THEN "scope"
  ELSE IF p.acr # NoACR /\ ~ACRSatisfies(q.acr, p.acr, levels) THEN "acr"
  ELSE IF p.maxAge > 0 /\ q.authAge > p.maxAge THEN "max_age"
  ELSE IF p.mfa /\ q.amr \cap {"mfa", "otp", "hwk"} = {} THEN "mfa"
  ELSE IF ~MatchAll(p.details, q.details) THEN "details"
  ELSE "allowed"

\* check: the first requirement the token fails, in the code's order.  An
\* authAge of zero or less is an unknown one.
Reason(p, q, levels) ==
  IF ~(p.scopes \subseteq q.scopes) THEN "scope"
  ELSE IF p.acr # NoACR /\ ~ACRSatisfies(q.acr, p.acr, levels) THEN "acr"
  ELSE IF p.maxAge > 0 /\ q.authAge <= 0 THEN "auth_time"
  ELSE IF p.maxAge > 0 /\ q.authAge > p.maxAge THEN "max_age"
  ELSE IF p.mfa /\ q.amr \cap {"mfa", "otp", "hwk"} = {} THEN "mfa"
  ELSE IF ~MatchAll(p.details, q.details) THEN "details"
  ELSE "allowed"

-----------------------------------------------------------------------------
\* The least position that satisfies a set of positions.
First(positions) == CHOOSE i \in positions : \A j \in positions : i <= j

\* PolicyResult: MatchedPolicy and Reason; RequiredACR and RequiredMaxAge are
\* those of the policy, Allowed is reason = "allowed".
Result(policy, reason) == [policy |-> policy, reason |-> reason]

\* What Evaluate returns on one configuration: the first enabled policy that
\* matches decides, and without one the request is denied.
EvaluateConfig(config, q, none) ==
  LET hits == {i \in 1..Len(config.policies) : Applies(config.policies[i], q)}
  IN  IF hits = {} THEN Result(none, "no match")
      ELSE LET p == config.policies[First(hits)]
           IN  Result(p, Reason(p, q, config.acrLevels))

\* Evaluate when the configuration changes under it.  The loop ranges over n
\* policies and takes the i-th from the configuration read[i]; it goes on after
\* a policy that does not apply, and check takes the ACR levels from the next
\* read.  A configuration that has become too short is an index out of range.
GoesOn(cfg, i, q) == i <= Len(cfg.policies) /\ ~Applies(cfg.policies[i], q)

EndsAt(i, n, read, q) ==
  /\ \A j \in 1..(i - 1) : GoesOn(read[j], j, q)
  /\ i <= n => ~GoesOn(read[i], i, q)

ReturnAt(i, n, read, q, none) ==
  LET p == read[i].policies[i] IN
  IF i > n THEN Result(none, "no match")
  ELSE IF i > Len(read[i].policies) THEN Result(none, "panic")
  ELSE Result(p, Reason(p, q, read[i + 1].acrLevels))

\* The orders in which n reads may fall on the positions first..last of a
\* history, and what they see in the history run from its k-th entry on.
Ascending(n, first, last) ==
  {at \in [1..n -> first..last] : \A i, j \in 1..n : i <= j => at[i] <= at[j]}

Readings(run, k, n) ==
  {[i \in 1..n |-> run[at[i]]] : at \in Ascending(n, k, Len(run))}

\* All that a call of Evaluate can return when the configurations installed
\* during the call were those of run: e.config is read for the number of
\* policies, then for each of them, and once more by check.
Outcomes(run, q, none) ==
  UNION {LET n == Len(run[k].policies) IN
         UNION {{ReturnAt(i, n, read, q, none) : i \in {j \in 1..(n + 1) : EndsAt(j, n, read, q)}} :
                read \in Readings(run, k, n + 1)} : k \in 1..Len(run)}

\* Which requests a policy is for, as documented: an enabled policy, one of
\* its methods in any case, and a path that is, up to trailing slashes, what a
\* pattern spells out segment by segment or lies under what it has before **.
InScope(p, q) ==
  LET path == TrimRight(q.path) IN
  /\ p.enabled
  /\ p.methods # {} => Upper[q.method] \in {Upper[m] : m \in p.methods}
  /\ \E pattern \in p.resources :
       LET segments == TrimRight(pattern.segments) IN
       \/ /\ pattern.deep /\ Len(segments) <= Len(path)
          /\ \A i \in 1..Len(segments) : path[i] = segments[i]
       \/ /\ ~pattern.deep /\ Len(segments) = Len(path)
          /\ \A i \in 1..Len(segments) : path[i] \in Accepts[segments[i]]

\* The requirements of a policy, stated without an order of checks: all of
\* its scopes, an acr as documented for acr_levels, an authentication that is
\* known to be recent enough, a strong method, and its authorization details.
Meets(p, q, levels) ==
  /\ \A s \in p.scopes : s \in q.scopes
  /\ \/ p.acr = NoACR
     \/ q.acr = p.acr
     \/ \E i, j \in 1..Len(levels) :
          /\ levels[i] = p.acr /\ levels[j] = q.acr /\ i <= j
          /\ \A k \in 1..Len(levels) : levels[k] = p.acr => i <= k
  /\ p.maxAge > 0 => q.authAge \in 1..p.maxAge
  /\ p.mfa => \E m \in q.amr : m \in {"mfa", "otp", "hwk"}
  /\ \A f \in p.details : \E d \in q.details :
       f.type = d.type /\ f.actions \subseteq d.actions /\ f.fields \subseteq d.fields

\* A request that is allowed while the configurations in seen were installed:
\* an enabled policy of one of them is for it, and the token meets all its
\* requirements under the ACR levels of one of them; and if there was only one,
\* the first policy that applies decided.
Authorized(seen, q, none) ==
  /\ \E cfg, other \in seen : \E i \in 1..Len(cfg.policies) :
       InScope(cfg.policies[i], q) /\ Meets(cfg.policies[i], q, other.acrLevels)
  /\ \A cfg \in seen : seen = {cfg} => EvaluateConfig(cfg, q, none).reason = "allowed"

\* What the YAML decoder guarantees of a configuration: lists, and whole ages.
WellFormed(cfg) ==
  /\ Len(cfg.policies) \in Nat /\ Len(cfg.acrLevels) \in Nat
  /\ \A i \in 1..Len(cfg.policies) : cfg.policies[i].maxAge \in Int
=============================================================================
