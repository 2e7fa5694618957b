------------------------------ MODULE LocalAS ------------------------------
(***************************************************************************)
(* The authorization server of the devkit (pkg/devkit/localas/server.go):  *)
(* its token, introspection and revocation endpoints around one map of     *)
(* registered tokens.                                                      *)
(*                                                                         *)
(* A token is a JWT without a jti, signed with RS256, which is             *)
(* deterministic (pkg/devkit/tokenfactory/factory.go): two tokens for one  *)
(* user and acr issued in the same second are the same string, so a token  *)
(* stands for these three.  A tick of the clock is a second.               *)
(*                                                                         *)
(* The map is used under a lock, but handleIntrospect reads the entry it   *)
(* found after it has released the lock, so the entry may be revoked, or   *)
(* taken out of the map by another token of the same string, in between.   *)
(***************************************************************************)
EXTENDS Integers

CONSTANTS
  Client,      \* those who call the endpoints, one call of each at a time
  User,        \* user names
  ACR,         \* values of acr_values that are not empty
  Bronze,      \* the acr of a token requested without acr_values
  Stray,       \* a token this server did not issue
  NoToken,
  Lifetime,    \* time.Hour
  IssueLag,    \* bound: longest time from Generate to the registration
  AskLag,      \* bound: longest time from the lookup to the answer
  MaxTime      \* bound: the clock stops here

ASSUME LocalASAssumption ==
  /\ Bronze \in ACR
  /\ Lifetime \in Nat /\ IssueLag \in Nat /\ AskLag \in Nat /\ MaxTime \in Nat
  /\ IssueLag + AskLag <= Lifetime

Issued == [sub : User, acr : ACR, iat : 0..MaxTime]

Raw == Issued \cup {Stray}

ASSUME TokenAssumption == Stray \notin Issued /\ NoToken \notin Raw

VARIABLES
  now,      \* the clock
  tokens,   \* [Raw -> its entry, or NoEntry]: s.tokens
  issuing,  \* [Client -> the token IssueToken has generated and not registered]
  asking    \* [Client -> the local state of a call to handleIntrospect]

asVars == <<now, tokens, issuing, asking>>

\* tokenEntry.
TokenEntry(exp, revoked) == [exp |-> exp, revoked |-> revoked]
NoEntry == TokenEntry(-1, TRUE)
Entry == [exp : Nat, revoked : BOOLEAN]

\* What the entry a call has found says: its expiry, what reading its revoked
\* flag may return (a read that races with handleRevoke returns either value),
\* and whether the map still has this entry.
Held(exp, may, linked) == [exp |-> exp, may |-> may, linked |-> linked]

\* at is when the entry was found.
\* truths is history: the states the token had since the question was asked.
Asking(pc, raw, held, at, truths, answer) ==
  [pc |-> pc, raw |-> raw, held |-> held, at |-> at, truths |-> truths, answer |-> answer]

NotHeld == Held(0, {}, FALSE)
Quiet == Asking("idle", NoToken, NotHeld, 0, {}, FALSE)

ASTypeOK ==
  /\ now \in 0..MaxTime
  /\ tokens \in [Raw -> Entry \cup {NoEntry}]
  /\ issuing \in [Client -> Issued \cup {NoToken}]
  /\ asking \in [Client ->
       [pc : {"idle", "received", "found", "answered"}, raw : Raw \cup {NoToken},
        held : [exp : Nat, may : SUBSET BOOLEAN, linked : BOOLEAN],
        at : 0..MaxTime, truths : SUBSET BOOLEAN, answer : BOOLEAN]]
  /\ \A c \in Client : asking[c].pc # "idle" => asking[c].raw \in Raw

ASInit ==
  /\ now = 0
  /\ tokens = [raw \in Raw |-> NoEntry]
  /\ issuing = [c \in Client |-> NoToken]
  /\ asking = [c \in Client |-> Quiet]

-----------------------------------------------------------------------------
\* What handleIntrospect decides, at one instant: a token is active up to and
\* including its expiry.
ActiveIn(map, t, raw) == ~map[raw].revoked /\ t <= map[raw].exp

Active(raw) == ActiveIn(tokens, now, raw)

IsOpen(c) == asking[c].pc \in {"received", "found"}

\* What becomes of the call of c when the map or the clock changes: an open
\* question has lived through the state its token has then.
Witness(c, map, t, held) ==
  LET k == asking[c] IN
  Asking(k.pc, k.raw, held, k.at,
         IF IsOpen(c) THEN k.truths \cup {ActiveIn(map, t, k.raw)} ELSE k.truths, k.answer)

\* Mutant of HandleToken: an absent acr_values has no default.
HandleTokenNoDefault(c, sub, acr) ==
  /\ issuing[c] = NoToken
  /\ issuing' = [issuing EXCEPT ![c] = [sub |-> sub, acr |-> acr, iat |-> now]]
  /\ UNCHANGED <<now, tokens, asking>>

\* Mutant of HandleToken: acr_values is not read.
HandleTokenBronze(c, sub, acr) ==
  /\ issuing[c] = NoToken
  /\ issuing' = [issuing EXCEPT ![c] = [sub |-> sub, acr |-> Bronze, iat |-> now]]
  /\ UNCHANGED <<now, tokens, asking>>

\* handleToken up to the end of factory.Generate; acr may be absent.
HandleToken(c, sub, acr) ==
  /\ issuing[c] = NoToken
  /\ issuing' = [issuing EXCEPT ![c] =
       [sub |-> sub, acr |-> IF acr \in ACR THEN acr ELSE Bronze, iat |-> now]]
  /\ UNCHANGED <<now, tokens, asking>>

\* IssueToken, the registration, and the answer.  An entry of the same string
\* leaves the map, and with it whether it was revoked.
IssueToken(c) ==
  LET raw == issuing[c]
      map == [tokens EXCEPT ![raw] = TokenEntry(now + Lifetime, FALSE)]
  IN
  /\ raw # NoToken
  /\ tokens' = map
  /\ asking' = [d \in Client |-> LET held == asking[d].held IN
       Witness(d, map, now,
         IF asking[d].raw = raw THEN Held(held.exp, held.may, FALSE) ELSE held)]
  /\ issuing' = [issuing EXCEPT ![c] = NoToken]
  /\ UNCHANGED now

\* A question arrives at handleIntrospect.
Ask(c, raw) ==
  /\ asking[c].pc = "idle"
  /\ asking' = [asking EXCEPT ![c] =
       Asking("received", raw, NotHeld, 0, {Active(raw)}, FALSE)]
  /\ UNCHANGED <<now, tokens, issuing>>

\* handleIntrospect, under the read lock.
Lookup(c) ==
  LET raw == asking[c].raw  entry == tokens[raw]  truths == asking[c].truths IN
  /\ asking[c].pc = "received"
  /\ asking' = [asking EXCEPT ![c] =
       IF entry = NoEntry THEN Asking("answered", raw, NotHeld, 0, truths, FALSE)
       ELSE Asking("found", raw,
                   Held(entry.exp, {entry.revoked}, TRUE), now, truths, FALSE)]
  /\ UNCHANGED <<now, tokens, issuing>>

\* Mutant of Answer: a token is inactive at its expiry already.
AnswerEarly(c) ==
  LET held == asking[c].held IN
  /\ asking[c].pc = "found"
  /\ \E revoked \in held.may :
       asking' = [asking EXCEPT ![c] =
         Asking("answered", asking[c].raw, NotHeld, 0, asking[c].truths,
                ~revoked /\ now < held.exp)]
  /\ UNCHANGED <<now, tokens, issuing>>

\* handleIntrospect, after it: the flag and the clock are read, and the answer
\* is written.
Answer(c) ==
  LET held == asking[c].held IN
  /\ asking[c].pc = "found"
  /\ \E revoked \in held.may :
       asking' = [asking EXCEPT ![c] =
         Asking("answered", asking[c].raw, NotHeld, 0, asking[c].truths,
                ~revoked /\ now <= held.exp)]
  /\ UNCHANGED <<now, tokens, issuing>>

\* The caller has the answer, or does not wait for it any longer.
Leave(c) ==
  /\ asking' = [asking EXCEPT ![c] = Quiet]
  /\ UNCHANGED <<now, tokens, issuing>>

\* handleRevoke, of a registered token; of another one it does nothing.
HandleRevoke(raw) ==
  LET map == [tokens EXCEPT ![raw] = TokenEntry(tokens[raw].exp, TRUE)] IN
  /\ tokens[raw] # NoEntry
  /\ tokens' = map
  /\ asking' = [d \in Client |-> LET held == asking[d].held IN
       Witness(d, map, now,
         IF asking[d].raw = raw /\ held.linked
         THEN Held(held.exp, held.may \cup {TRUE}, TRUE) ELSE held)]
  /\ UNCHANGED <<now, issuing>>

\* Time passes, but the next step of a handler does not wait for long.
ASTick ==
  /\ now < MaxTime
  /\ \A c \in Client :
       /\ issuing[c] # NoToken => now < issuing[c].iat + IssueLag
       /\ asking[c].pc = "found" => now < asking[c].at + AskLag
  /\ now' = now + 1
  /\ asking' = [c \in Client |-> Witness(c, tokens, now + 1, asking[c].held)]
  /\ UNCHANGED <<tokens, issuing>>

-----------------------------------------------------------------------------
\* The server as its callers see it.
CallOf(c) ==
  IF IsOpen(c)
  THEN [state |-> "open", raw |-> asking[c].raw, truths |-> asking[c].truths]
  ELSE IF asking[c].pc = "answered"
  THEN [state |-> "answered", answer |-> asking[c].answer]
  ELSE [state |-> "none"]

Server == INSTANCE AuthServer WITH
  Caller <- Client,
  active <- [raw \in Raw |-> Active(raw)],
  call <- [c \in Client |-> CallOf(c)]

\* The devkit's server gives answers like the one the middleware was written
\* for: an answer of handleIntrospect was true at some instant of the call,
\* although it is made of an entry that is read without the lock while other
\* handlers revoke it, replace it and time passes.
ImplementsAuthServer == Server!Spec
=============================================================================
