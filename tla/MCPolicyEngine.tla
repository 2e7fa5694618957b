--------------------------- MODULE MCPolicyEngine ---------------------------
(***************************************************************************)
(* Instances of PolicyEngine for TLC: every list of at most two policies   *)
(* out of a few that differ in what the engine tells apart.                *)
(***************************************************************************)
EXTENDS PolicyEngine, TLC

CONSTANTS api, x, star, bronze, silver, gold, other

\* Only star is a wildcard; it accepts any segment, the empty one included.
MCAccepts == [s \in {api, x, star, Empty} |->
  IF s = star THEN {api, x, star, Empty} ELSE {s}]

MCUpper == [m \in {"GET", "POST", "post"} |-> IF m = "GET" THEN "GET" ELSE "POST"]

Pattern(segments, deep) == [segments |-> segments, deep |-> deep]

Open ==
  [enabled |-> TRUE, resources |-> {Pattern(<<>>, TRUE)}, methods |-> {}, acr |-> NoACR,
   maxAge |-> 0, mfa |-> FALSE, scopes |-> {}, details |-> {}]

Off == [Open EXCEPT !.enabled = FALSE]
AtLeastSilver ==
  [Open EXCEPT !.resources = {Pattern(<<api>>, TRUE)}, !.acr = silver]
FreshPost ==
  [Open EXCEPT !.resources = {Pattern(<<api, star>>, FALSE), Pattern(<<x, Empty>>, FALSE)},
               !.methods = {"POST"}, !.maxAge = 2, !.mfa = TRUE]
Detailed ==
  [Open EXCEPT !.resources = {Pattern(<<api, x>>, FALSE), Pattern(<<>>, FALSE)},
               !.scopes = {"write"},
               !.details = {[type |-> "pay", actions |-> {"initiate"}, fields |-> {}]}]

Lists == UNION {[1..n -> {Open, Off, AtLeastSilver, FreshPost, Detailed}] : n \in 0..2}
Levels == <<bronze, silver, gold>>
OtherLevels == <<gold, silver, silver>>

\* The second hierarchy only with lists that ask for an acr.
MCConfig ==
  {[policies |-> l, acrLevels |-> Levels] : l \in Lists} \cup
  {[policies |-> l, acrLevels |-> OtherLevels] :
     l \in {m \in Lists : \E i \in DOMAIN m : m[i] = AtLeastSilver}}

Bare ==
  [method |-> "GET", path |-> <<>>, acr |-> NoACR, amr |-> {}, scopes |-> {},
   authAge |-> 0, details |-> {}]
Tokens ==
  {Bare,
   [Bare EXCEPT !.acr = bronze, !.authAge = 3, !.amr = {"otp"}],
   [Bare EXCEPT !.acr = gold, !.authAge = 2, !.amr = {"pwd", "hwk"}, !.scopes = {"write"},
                !.details = {[type |-> "pay", actions |-> {"initiate", "status"}, fields |-> {}]}],
   [Bare EXCEPT !.acr = other, !.authAge = -1, !.amr = {"mfa"}, !.scopes = {"read"},
                !.details = {[type |-> "pay", actions |-> {"status"}, fields |-> {}]}]}
Paths == {<<>>, <<api>>, <<api, x>>, <<x, Empty>>, <<api, x, x>>}
MCQuery ==
  {[t EXCEPT !.method = m, !.path = p] : t \in Tokens, m \in {"GET", "post"}, p \in Paths}
=============================================================================
