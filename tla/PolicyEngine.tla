---------------------------- MODULE PolicyEngine ----------------------------
(***************************************************************************)
(* Engine.Evaluate and Engine.Reload (pkg/core/policy/engine.go) as they   *)
(* run: requests evaluate the policies one after the other while the Admin *)
(* API replaces the configuration.  Nothing synchronises the two, and      *)
(* Evaluate reads e.config again in every iteration of its loop and once   *)
(* more for the ACR levels, so each of these reads is a step.  The field   *)
(* is one machine word and a configuration is never changed once it is     *)
(* installed, so a racing read sees the old or the new configuration and   *)
(* nothing else.                                                           *)
(***************************************************************************)
EXTENDS Policy

CONSTANTS
  Config,    \* the configurations LoadFromBytes may return
  Query,     \* the PolicyRequests that arrive
  Caller,    \* request goroutines
  NoPolicy,  \* the nil MatchedPolicy
  NoConfig,  \* the nil configuration of New(nil)
  NoQuery,   \* the query of a goroutine that is not evaluating
  MaxReload  \* bound: how often the configuration is replaced

ASSUME EngineAssumption ==
  /\ NoConfig \notin Config
  /\ MaxReload \in Nat

\* validate: every policy names a resource.
Validate(cfg) == \A i \in 1..Len(cfg.policies) : cfg.policies[i].resources # {}

\* What LoadFromBytes returns is valid.  Ages are integers.
ASSUME ConfigAssumption ==
  /\ \A c \in Config : WellFormed(c) /\ Validate(c)
  /\ \A q \in Query : q.authAge \in Int

VARIABLES
  config,   \* e.config
  reloads,  \* how often it was replaced
  call      \* [Caller -> the local state of a call to Evaluate]

vars == <<config, reloads, call>>

\* n is the number of policies the loop ranges over, i the next one, policy
\* the one that matched, out the result; run are the configurations that were
\* installed during the call, in order (history).
Evaluation(pc, q, n, i, policy, out, run) ==
  [pc |-> pc, q |-> q, n |-> n, i |-> i, policy |-> policy, out |-> out, run |-> run]

Pending == Result(NoPolicy, "pending")
NoMatch == Result(NoPolicy, "no match")
NoConfigLoaded == Result(NoPolicy, "no config")
Panicked == Result(NoPolicy, "panic")

Idle == Evaluation("idle", NoQuery, 0, 0, NoPolicy, Pending, <<>>)

Done(c, policy, out) ==
  Evaluation("done", call[c].q, call[c].n, call[c].i, policy, out, call[c].run)

\* The policies of all configurations.
PolicyIn(cfg) == {cfg.policies[i] : i \in 1..Len(cfg.policies)}
AnyPolicy == UNION {PolicyIn(cfg) : cfg \in Config}

Reasons ==
  {"scope", "acr", "auth_time", "max_age", "mfa", "details", "allowed",
   "no match", "no config", "panic", "pending"}

CallState ==
  [pc : {"idle", "loop", "check", "done"}, q : Query \cup {NoQuery}, n : Nat, i : Nat,
   policy : AnyPolicy \cup {NoPolicy},
   out : [policy : AnyPolicy \cup {NoPolicy}, reason : Reasons],
   run : Seq(Config \cup {NoConfig})]

TypeOK ==
  /\ config \in Config \cup {NoConfig}
  /\ reloads \in 0..MaxReload
  /\ call \in [Caller -> CallState]
  /\ \A c \in Caller :
       /\ call[c].pc # "idle" => call[c].q \in Query
       /\ call[c].pc \in {"loop", "check"} =>
            /\ call[c].run \in Seq(Config) \ {<<>>}
            /\ config = call[c].run[Len(call[c].run)]
            /\ call[c].i \in 1..(call[c].n + 1)

Init ==
  /\ config \in Config \cup {NoConfig}
  /\ reloads = 0
  /\ call = [c \in Caller |-> Idle]

-----------------------------------------------------------------------------
\* Mutant of Begin: the loop leaves the last policy out.
BeginShort(c, q) ==
  /\ call[c].pc = "idle"
  /\ config # NoConfig
  /\ call' = [call EXCEPT ![c] =
       Evaluation("loop", q, Len(config.policies) - 1, 1, NoPolicy, Pending, <<config>>)]
  /\ UNCHANGED <<config, reloads>>

\* Evaluate up to the loop: the nil check, and len(e.config.Policies), which
\* range takes once.  A configuration never becomes nil again, so the two
\* reads are one step.
Begin(c, q) ==
  /\ call[c].pc = "idle"
  /\ call' = [call EXCEPT ![c] =
       IF config = NoConfig
       THEN Evaluation("done", q, 0, 0, NoPolicy, NoConfigLoaded, <<config>>)
       ELSE Evaluation("loop", q, Len(config.policies), 1, NoPolicy, Pending, <<config>>)]
  /\ UNCHANGED <<config, reloads>>

\* Mutant of Iterate: a disabled or unmatched policy ends the loop.
IterateOnce(c) ==
  LET q == call[c].q  i == call[c].i  n == call[c].n IN
  /\ call[c].pc = "loop"
  /\ call' = [call EXCEPT ![c] =
       IF i > n \/ i > Len(config.policies) \/ ~Applies(config.policies[i], q)
       THEN Done(c, NoPolicy, NoMatch)
       ELSE Evaluation("check", q, n, i, config.policies[i], Pending, call[c].run)]
  /\ UNCHANGED <<config, reloads>>

\* Mutant of Iterate: a policy that is no longer there ends the loop.
IterateQuietly(c) ==
  LET q == call[c].q  i == call[c].i  n == call[c].n IN
  /\ call[c].pc = "loop"
  /\ call' = [call EXCEPT ![c] =
       IF i > n \/ i > Len(config.policies) THEN Done(c, NoPolicy, NoMatch)
       ELSE IF Applies(config.policies[i], q)
       THEN Evaluation("check", q, n, i, config.policies[i], Pending, call[c].run)
       ELSE Evaluation("loop", q, n, i + 1, NoPolicy, Pending, call[c].run)]
  /\ UNCHANGED <<config, reloads>>

\* One iteration: p := &e.config.Policies[i], an index out of range if the
\* configuration has become shorter; a policy that is disabled or does not
\* match is passed over.
Iterate(c) ==
  LET q == call[c].q  i == call[c].i  n == call[c].n IN
  /\ call[c].pc = "loop"
  /\ call' = [call EXCEPT ![c] =
       IF i > n THEN Done(c, NoPolicy, NoMatch)
       ELSE IF i > Len(config.policies) THEN Done(c, NoPolicy, Panicked)
       ELSE IF Applies(config.policies[i], q)
       THEN Evaluation("check", q, n, i, config.policies[i], Pending, call[c].run)
       ELSE Evaluation("loop", q, n, i + 1, NoPolicy, Pending, call[c].run)]
  /\ UNCHANGED <<config, reloads>>

\* check, with the ACR levels of the configuration of that moment.
Check(c) ==
  LET p == call[c].policy IN
  /\ call[c].pc = "check"
  /\ call' = [call EXCEPT ![c] =
       Done(c, p, Result(p, Reason(p, call[c].q, config.acrLevels)))]
  /\ UNCHANGED <<config, reloads>>

Return(c) ==
  /\ call[c].pc = "done"
  /\ call' = [call EXCEPT ![c] = Idle]
  /\ UNCHANGED <<config, reloads>>

\* handlePolicyReload: Reload, once the new configuration has been validated.
Reload(cfg) ==
  /\ reloads < MaxReload
  /\ config' = cfg
  /\ reloads' = reloads + 1
  /\ call' = [c \in Caller |->
       IF call[c].pc \notin {"loop", "check"} THEN call[c]
       ELSE Evaluation(call[c].pc, call[c].q, call[c].n, call[c].i, call[c].policy,
                       call[c].out, Append(call[c].run, cfg))]

Next ==
  \/ \E c \in Caller : \E q \in Query : Begin(c, q)
  \/ \E c \in Caller : Iterate(c) \/ Check(c) \/ Return(c)
  \/ \E cfg \in Config : Reload(cfg)

Spec == Init /\ [][Next]_vars

-----------------------------------------------------------------------------
Allowed(c) == call[c].pc = "done" /\ call[c].out.reason = "allowed"

\* The configurations a call has seen.
Seen(c) == {call[c].run[i] : i \in 1..Len(call[c].run)}

\* An evaluation during which nothing was reloaded returns what its one
\* configuration says, and does not panic: the loop of Evaluate picks the
\* first enabled match ("first match wins"), or denies.
OneConfigDecides ==
  \A c \in Caller : call[c].pc = "done" =>
    \A cfg \in Seen(c) \ {NoConfig} :
      Seen(c) = {cfg} => call[c].out = EvaluateConfig(cfg, call[c].q, NoPolicy)

\* Reloads during the loop of Evaluate can have no other effect than to make
\* single reads of e.config see a later configuration: the result, a panic
\* included, is one of those that reads in the order of the installations give.
ReadsDecide ==
  \A c \in Caller :
    call[c].pc = "done" /\ Seen(c) \subseteq Config =>
      call[c].out \in Outcomes(call[c].run, call[c].q, NoPolicy)

\* Whatever was reloaded meanwhile, a request is allowed only by an enabled,
\* matching policy of a configuration that was installed during the call, all
\* of whose requirements the token meets under the ACR levels of such a one.
AllowJustified ==
  \A c \in Caller : Allowed(c) =>
    \E cfg, other \in Seen(c) \ {NoConfig} :
      \E i \in 1..Len(cfg.policies) :
        LET p == cfg.policies[i] IN
        /\ p = call[c].out.policy
        /\ InScope(p, call[c].q)
        /\ Meets(p, call[c].q, other.acrLevels)
=============================================================================
