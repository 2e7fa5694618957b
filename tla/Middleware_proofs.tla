-------------------------- MODULE Middleware_proofs --------------------------
(***************************************************************************)
(* Proofs about Middleware and LocalAS, for every set of clients, users,   *)
(* levels and configurations, every lifetime and every bound.              *)
(***************************************************************************)
EXTENDS Middleware, Policy_proofs, SequenceTheorems

\* Zenon proves a leaf unless it names SMT, for arithmetic and records.
USE ZenonT(30)

\* What ties a call of handleIntrospect to the states its token went through.
\* An entry expires a lifetime after its token was signed at the earliest; a
\* call that has found an entry which left the map since found it before the
\* second token of the same string was registered, and so has not outlived it.
CallTracked(c) ==
  LET k == asking[c] IN
  /\ IsOpen(c) => Active(k.raw) \in k.truths
  /\ k.pc = "found" =>
       /\ k.at <= now /\ now <= k.at + AskLag
       /\ TRUE \in k.held.may => FALSE \in k.truths
       /\ FALSE \in k.held.may /\ k.at <= k.held.exp => TRUE \in k.truths
       /\ k.held.linked => tokens[k.raw] # NoEntry /\ k.held.exp = tokens[k.raw].exp
       /\ ~k.held.linked => /\ k.raw \in Issued /\ k.at <= k.raw.iat + IssueLag
                           /\ k.raw.iat + Lifetime <= k.held.exp
  /\ k.pc = "answered" => k.answer \in k.truths

Tracked ==
  /\ \A raw \in Raw : tokens[raw] # NoEntry =>
       raw \in Issued /\ raw.iat + Lifetime <= tokens[raw].exp
  /\ \A c \in Client : issuing[c] # NoToken =>
       issuing[c].iat <= now /\ now <= issuing[c].iat + IssueLag
  /\ \A c \in Client : CallTracked(c)

ASInv == ASTypeOK /\ Tracked

Call ==
  [pc : {"idle", "received", "found", "answered"}, raw : Raw \cup {NoToken},
   held : [exp : Nat, may : SUBSET BOOLEAN, linked : BOOLEAN],
   at : 0..MaxTime, truths : SUBSET BOOLEAN, answer : BOOLEAN]

\* What the steps of others leave of the call of c.
KeepsCall(c) ==
  /\ asking'[c].pc = asking[c].pc /\ asking'[c].raw = asking[c].raw
  /\ asking[c].truths \subseteq asking'[c].truths
  /\ asking[c] = Quiet => asking'[c] = Quiet

-----------------------------------------------------------------------------
\* The fields of a call that is put together by Asking.
LEMMA AskingFields ==
  ASSUME NEW pc \in {"idle", "received", "found", "answered"}, NEW raw \in Raw \cup {NoToken},
         NEW held \in [exp : Nat, may : SUBSET BOOLEAN, linked : BOOLEAN],
         NEW at \in 0..MaxTime, NEW truths \in SUBSET BOOLEAN, NEW answer \in BOOLEAN
  PROVE  LET k == Asking(pc, raw, held, at, truths, answer) IN
         /\ k \in Call
         /\ k.pc = pc /\ k.raw = raw /\ k.held = held /\ k.at = at
         /\ k.truths = truths /\ k.answer = answer
BY DEF Asking, Call

LEMMA HeldFields ==
  ASSUME NEW exp \in Nat, NEW may \in SUBSET BOOLEAN, NEW linked \in BOOLEAN
  PROVE  LET h == Held(exp, may, linked) IN
         /\ h \in [exp : Nat, may : SUBSET BOOLEAN, linked : BOOLEAN]
         /\ h.exp = exp /\ h.may = may /\ h.linked = linked
BY DEF Held

LEMMA NotHeldType ==
  /\ NotHeld \in [exp : Nat, may : SUBSET BOOLEAN, linked : BOOLEAN]
  /\ ~NotHeld.linked
BY HeldFields DEF NotHeld

LEMMA CallFields ==
  ASSUME ASTypeOK, NEW c \in Client
  PROVE  LET k == asking[c] IN
         /\ k \in Call
         /\ k.pc \in {"idle", "received", "found", "answered"} /\ k.raw \in Raw \cup {NoToken}
         /\ k.held \in [exp : Nat, may : SUBSET BOOLEAN, linked : BOOLEAN]
         /\ k.at \in 0..MaxTime /\ k.truths \in SUBSET BOOLEAN /\ k.answer \in BOOLEAN
         /\ k.held.exp \in Nat /\ k.held.may \in SUBSET BOOLEAN /\ k.held.linked \in BOOLEAN
         /\ k.pc # "idle" => k.raw \in Raw
BY DEF ASTypeOK, Call

LEMMA EntryFacts ==
  /\ NoEntry.exp = -1 /\ NoEntry.revoked
  /\ NoEntry \notin Entry
  /\ \A exp \in Nat, revoked \in BOOLEAN :
       LET e == TokenEntry(exp, revoked) IN
       e \in Entry /\ e.exp = exp /\ (e.revoked <=> revoked)
BY SMT DEF NoEntry, TokenEntry, Entry

\* The fields of an entry of the map, absent ones included.
LEMMA MapFields ==
  ASSUME ASTypeOK, NEW raw \in Raw
  PROVE  /\ tokens[raw].exp \in Int /\ tokens[raw].revoked \in BOOLEAN
         /\ tokens[raw] # NoEntry => tokens[raw] \in Entry /\ tokens[raw].exp \in Nat
         /\ tokens[raw] = NoEntry => tokens[raw].revoked
<1>1. tokens[raw] \in Entry \cup {NoEntry}
  BY DEF ASTypeOK
<1>2. \A e \in Entry : e.exp \in Nat /\ e.revoked \in BOOLEAN
  BY DEF Entry
<1>3. CASE tokens[raw] = NoEntry
  <2>1. NoEntry.exp = -1 /\ NoEntry.revoked
    BY EntryFacts
  <2>2. tokens[raw].exp = -1
    BY <1>3, <2>1
  <2>3. tokens[raw].revoked
    BY <1>3, <2>1
  <2> QED BY SMT, <1>3, <2>2, <2>3
<1>4. CASE tokens[raw] # NoEntry
  BY SMT, <1>1, <1>2, <1>4
<1> QED BY <1>3, <1>4

LEMMA WitnessFields ==
  ASSUME ASTypeOK, NEW c \in Client, NEW map, NEW t,
         NEW held \in [exp : Nat, may : SUBSET BOOLEAN, linked : BOOLEAN]
  PROVE  LET k == Witness(c, map, t, held) IN
         /\ k \in Call
         /\ k.pc = asking[c].pc /\ k.raw = asking[c].raw /\ k.held = held
         /\ k.at = asking[c].at /\ k.answer = asking[c].answer
         /\ IsOpen(c) => k.truths = asking[c].truths \cup {ActiveIn(map, t, asking[c].raw)}
         /\ ~IsOpen(c) => k.truths = asking[c].truths
<1> DEFINE truths == IF IsOpen(c) THEN asking[c].truths \cup {ActiveIn(map, t, asking[c].raw)}
                                 ELSE asking[c].truths
<1>1. ActiveIn(map, t, asking[c].raw) \in BOOLEAN
  BY DEF ActiveIn
<1>2. truths \in SUBSET BOOLEAN
  BY <1>1, CallFields
<1>3. Witness(c, map, t, held) =
        Asking(asking[c].pc, asking[c].raw, held, asking[c].at, truths, asking[c].answer)
  BY DEF Witness
<1>4. /\ IsOpen(c) => truths = asking[c].truths \cup {ActiveIn(map, t, asking[c].raw)}
      /\ ~IsOpen(c) => truths = asking[c].truths
  OBVIOUS
<1> HIDE DEF truths
<1> QED BY SMT, <1>2, <1>3, <1>4, CallFields, AskingFields

\* What the registration of a token, a revocation and a tick have in common:
\* every open call has seen the state its token has now.
LEMMA WitnessStep ==
  ASSUME ASTypeOK, NEW held, \A d \in Client :
           held[d] \in [exp : Nat, may : SUBSET BOOLEAN, linked : BOOLEAN],
         asking' = [d \in Client |-> Witness(d, tokens', now', held[d])]
  PROVE  /\ asking' \in [Client -> Call]
         /\ \A d \in Client : asking'[d].pc # "idle" => asking'[d].raw \in Raw
         /\ \A d \in Client :
              LET k == asking[d]  k1 == asking'[d] IN
              /\ k1.pc = k.pc /\ k1.raw = k.raw /\ k1.held = held[d] /\ k1.at = k.at
              /\ k1.answer = k.answer
              /\ k.truths \subseteq k1.truths
              /\ IsOpen(d)' <=> IsOpen(d)
              /\ IsOpen(d) => k1.truths = k.truths \cup {Active(k.raw)'}
              /\ ~IsOpen(d) => k1.truths = k.truths
<1>1. \A d \in Client : asking'[d] = Witness(d, tokens', now', held[d])
  OBVIOUS
<1>3. ASSUME NEW d \in Client
      PROVE  LET k == asking[d]  k1 == asking'[d] IN
              /\ k1 \in Call
              /\ k1.pc = k.pc /\ k1.raw = k.raw /\ k1.held = held[d] /\ k1.at = k.at
              /\ k1.answer = k.answer
              /\ IsOpen(d) => k1.truths = k.truths \cup {ActiveIn(tokens', now', k.raw)}
              /\ ~IsOpen(d) => k1.truths = k.truths
  BY SMT, <1>1, WitnessFields
<1>4. \A d \in Client : IsOpen(d)' <=> IsOpen(d)
  BY <1>3 DEF IsOpen
<1>6. ASSUME NEW d \in Client, IsOpen(d)
      PROVE  asking'[d].truths = asking[d].truths \cup {Active(asking[d].raw)'}
  <2>1. Active(asking[d].raw)' <=> ActiveIn(tokens', now', asking'[d].raw)
    BY DEF Active, ActiveIn
  <2> QED BY <1>3, <1>6, <2>1 DEF Active, ActiveIn
<1> QED BY SMT, <1>3, <1>4, <1>6, CallFields

LEMMA QuietStays ==
  ASSUME NEW c \in Client, NEW map, NEW t, asking[c] = Quiet
  PROVE  Witness(c, map, t, asking[c].held) = Quiet
<1>1. /\ Quiet.pc = "idle" /\ Quiet.raw = NoToken /\ Quiet.held = NotHeld /\ Quiet.at = 0
      /\ Quiet.truths = {} /\ Quiet.answer = FALSE
  BY DEF Quiet, Asking
<1>2. ~IsOpen(c)
  BY <1>1 DEF IsOpen
<1>3. Witness(c, map, t, asking[c].held) =
        Asking(asking[c].pc, asking[c].raw, asking[c].held, asking[c].at, asking[c].truths,
               asking[c].answer)
  BY <1>2 DEF Witness
<1> QED BY <1>1, <1>3 DEF Quiet

\* How the calls look from outside.
LEMMA CallStates ==
  ASSUME ASTypeOK, NEW c \in Client
  PROVE  /\ IsOpen(c) => CallOf(c) = Server!Open(asking[c].raw, asking[c].truths)
         /\ asking[c].pc = "answered" => CallOf(c) = Server!Answered(asking[c].answer)
         /\ asking[c].pc = "idle" => CallOf(c) = Server!NoCall
         /\ (CallOf(c).state = "open") <=> IsOpen(c)
         /\ IsOpen(c) => CallOf(c).raw = asking[c].raw /\ CallOf(c).truths = asking[c].truths
         /\ (CallOf(c).state = "none") <=> (asking[c].pc = "idle")
BY CallFields DEF CallOf, IsOpen, Server!Open, Server!Answered, Server!NoCall

\* A registration, a revocation and a tick are changes of the tokens that are
\* active.
LEMMA ChangeStep ==
  ASSUME ASTypeOK, NEW held, \A d \in Client :
           held[d] \in [exp : Nat, may : SUBSET BOOLEAN, linked : BOOLEAN],
         asking' = [d \in Client |-> Witness(d, tokens', now', held[d])],
         ASTypeOK'
  PROVE  Server!Change
<1> DEFINE active == [raw \in Raw |-> Active(raw)]
           call == [d \in Client |-> CallOf(d)]
<1>1. \A d \in Client :
        LET k == asking[d]  k1 == asking'[d] IN
        /\ k1.pc = k.pc /\ k1.raw = k.raw /\ k1.answer = k.answer
        /\ IsOpen(d)' <=> IsOpen(d)
        /\ IsOpen(d) => k1.truths = k.truths \cup {Active(k.raw)'}
        /\ ~IsOpen(d) => k1.truths = k.truths
  BY SMT, WitnessStep
<1>2. ASSUME NEW d \in Client
      PROVE  CallOf(d)' = IF CallOf(d).state = "open"
                          THEN Server!Open(CallOf(d).raw,
                                 CallOf(d).truths \cup {active'[CallOf(d).raw]})
                          ELSE CallOf(d)
  <2>1. CASE IsOpen(d)
    <3>1. /\ CallOf(d).state = "open" /\ CallOf(d).raw = asking[d].raw
          /\ CallOf(d).truths = asking[d].truths
      BY <2>1, CallStates
    <3>2. /\ asking'[d].raw = asking[d].raw
          /\ asking'[d].truths = asking[d].truths \cup {Active(asking[d].raw)'}
      BY <1>1, <2>1
    <3>3. asking[d].raw \in Raw
      BY <2>1, CallFields DEF IsOpen
    <3>4. active'[asking[d].raw] = Active(asking[d].raw)'
      BY <3>2, <3>3 DEF Active, ActiveIn
    <3>6. CallOf(d)' = [state |-> "open", raw |-> asking'[d].raw, truths |-> asking'[d].truths]
      BY <1>1, <2>1 DEF CallOf
    <3> HIDE DEF active
    <3> QED BY <3>1, <3>2, <3>4, <3>6 DEF Server!Open
  <2>2. CASE ~IsOpen(d)
    <3>1. CallOf(d).state # "open"
      BY <2>2, CallStates
    <3>2. CallOf(d)' = CallOf(d)
      BY <1>1, <2>2 DEF CallOf
    <3> QED BY <3>1, <3>2
  <2> QED BY <2>1, <2>2
<1>3. active' \in [Raw -> BOOLEAN]
  BY DEF Active, ActiveIn
<1>4. call' = [d \in Client |->
        IF call[d].state = "open"
        THEN Server!Open(call[d].raw, call[d].truths \cup {active'[call[d].raw]})
        ELSE call[d]]
  <2> HIDE DEF active
  <2> QED BY <1>2
<1> QED BY <1>3, <1>4 DEF Server!Change, Server!Open

LEMMA OneCallStep ==
  ASSUME ASTypeOK, NEW c \in Client,
         UNCHANGED <<now, tokens>>,
         \A d \in Client \ {c} : asking'[d] = asking[d]
  PROVE  /\ [raw \in Raw |-> Active(raw)]' = [raw \in Raw |-> Active(raw)]
         /\ [d \in Client |-> CallOf(d)]' = [[d \in Client |-> CallOf(d)] EXCEPT ![c] = CallOf(c)']
<1>1. [raw \in Raw |-> Active(raw)]' = [raw \in Raw |-> Active(raw)]
  BY DEF Active, ActiveIn
<1>2. \A d \in Client \ {c} : CallOf(d)' = CallOf(d)
  BY DEF CallOf, IsOpen
<1> QED BY <1>1, <1>2

LEMMA ReplyStep ==
  ASSUME ASInv, ASInv', NEW c \in Client, IsOpen(c), asking'[c].pc = "answered",
         asking'[c].truths = asking[c].truths, UNCHANGED <<now, tokens>>,
         \A d \in Client \ {c} : asking'[d] = asking[d]
  PROVE  Server!Reply(c)
<1>1. ASTypeOK /\ asking'[c].answer \in asking[c].truths
  BY DEF ASInv, Tracked, CallTracked
<1>2. CallOf(c).state = "open" /\ CallOf(c).truths = asking[c].truths
  BY <1>1, CallStates
<1>3. CallOf(c)' = [state |-> "answered", answer |-> asking'[c].answer]
  BY DEF CallOf, IsOpen
<1>4. /\ [raw \in Raw |-> Active(raw)]' = [raw \in Raw |-> Active(raw)]
      /\ [d \in Client |-> CallOf(d)]' = [[d \in Client |-> CallOf(d)] EXCEPT ![c] = CallOf(c)']
  BY <1>1, OneCallStep
<1> QED BY <1>1, <1>2, <1>3, <1>4 DEF Server!Reply, Server!Answered

LEMMA Stutter ==
  ASSUME UNCHANGED <<now, tokens, asking>>
  PROVE  UNCHANGED Server!vars
<1>1. [raw \in Raw |-> Active(raw)]' = [raw \in Raw |-> Active(raw)]
  BY DEF Active, ActiveIn
<1>2. \A d \in Client : CallOf(d)' = CallOf(d)
  BY DEF CallOf, IsOpen
<1> QED BY <1>1, <1>2 DEF Server!vars

LEMMA ServerUntouched ==
  ASSUME ASInv, UNCHANGED asVars
  PROVE  ASInv'
<1>1. UNCHANGED <<now, tokens, issuing, asking>>
  BY DEF asVars
<1>2. ASTypeOK'
  BY <1>1 DEF ASInv, ASTypeOK
<1>3. \A c \in Client : CallTracked(c)'
  BY <1>1 DEF ASInv, Tracked, CallTracked, IsOpen, Active, ActiveIn
<1> QED BY <1>1, <1>2, <1>3 DEF ASInv, Tracked

\* What each step of the server keeps, and which step it looks like from outside.
LEMMA HandleTokenTracked ==
  ASSUME ASInv, NEW c \in Client, NEW sub \in User, NEW acr, HandleToken(c, sub, acr)
  PROVE  /\ ASInv' /\ UNCHANGED Server!vars
         /\ asking' = asking /\ issuing'[c] # NoToken
         /\ \A d \in Client \ {c} : issuing'[d] = issuing[d]
<1> DEFINE raw == [sub |-> sub, acr |-> IF acr \in ACR THEN acr ELSE Bronze, iat |-> now]
<1>1. raw \in Issued /\ raw.iat = now
  BY LocalASAssumption DEF Issued, ASInv, ASTypeOK
<1>2. /\ issuing' = [issuing EXCEPT ![c] = raw]
      /\ UNCHANGED <<now, tokens, asking>>
  BY DEF HandleToken
<1> HIDE DEF raw
<1>3. ASTypeOK'
  BY <1>1, <1>2 DEF ASInv, ASTypeOK
<1>4. now \in 0..MaxTime /\ IssueLag \in Nat /\ raw # NoToken
  BY <1>1, LocalASAssumption, TokenAssumption DEF ASInv, ASTypeOK, Raw
<1>5. \A d \in Client : issuing'[d] # NoToken =>
        issuing'[d].iat <= now' /\ now' <= issuing'[d].iat + IssueLag
  BY SMT, <1>1, <1>2, <1>4 DEF ASInv, ASTypeOK, Tracked
<1>6. \A d \in Client : CallTracked(d)'
  BY <1>2 DEF ASInv, Tracked, CallTracked, IsOpen, Active, ActiveIn
<1>7. issuing'[c] # NoToken /\ \A d \in Client \ {c} : issuing'[d] = issuing[d]
  BY <1>2, <1>4 DEF ASInv, ASTypeOK
<1>8. UNCHANGED Server!vars
  BY <1>2, Stutter
<1> QED BY <1>2, <1>3, <1>5, <1>6, <1>7, <1>8 DEF ASInv, Tracked

LEMMA IssueTokenTracked ==
  ASSUME ASInv, NEW c \in Client, IssueToken(c)
  PROVE  /\ ASInv' /\ Server!Change
         /\ \A d \in Client : KeepsCall(d)
<1> DEFINE raw == issuing[c]
           held == [d \in Client |->
             IF asking[d].raw = raw
             THEN Held(asking[d].held.exp, asking[d].held.may, FALSE) ELSE asking[d].held]
           entry == TokenEntry(now + Lifetime, FALSE)
<1>1. /\ tokens' = [tokens EXCEPT ![raw] = entry]
      /\ issuing' = [issuing EXCEPT ![c] = NoToken]
      /\ now' = now /\ raw # NoToken
  BY DEF IssueToken
<1>2. asking' = [d \in Client |-> Witness(d, tokens', now', held[d])]
  BY DEF IssueToken
<1>3. ASTypeOK
  BY DEF ASInv
<1>4. \A d \in Client :
        /\ held[d] \in [exp : Nat, may : SUBSET BOOLEAN, linked : BOOLEAN]
        /\ held[d].exp = asking[d].held.exp /\ held[d].may = asking[d].held.may
        /\ asking[d].raw = raw => ~held[d].linked
        /\ asking[d].raw # raw => held[d] = asking[d].held
  <2> TAKE d \in Client
  <2> DEFINE h == asking[d].held
  <2>1. /\ h \in [exp : Nat, may : SUBSET BOOLEAN, linked : BOOLEAN]
        /\ h.exp \in Nat /\ h.may \in SUBSET BOOLEAN
    BY <1>3, CallFields
  <2>2. LET g == Held(h.exp, h.may, FALSE) IN
        /\ g \in [exp : Nat, may : SUBSET BOOLEAN, linked : BOOLEAN]
        /\ g.exp = h.exp /\ g.may = h.may /\ ~g.linked
    BY <2>1 DEF Held
  <2>3. held[d] = IF asking[d].raw = raw THEN Held(h.exp, h.may, FALSE) ELSE h
    OBVIOUS
  <2> HIDE DEF h, held
  <2>4. CASE asking[d].raw = raw
    BY <2>2, <2>3, <2>4 DEF h
  <2>5. CASE asking[d].raw # raw
    BY <2>1, <2>3, <2>5 DEF h
  <2> QED BY <2>4, <2>5
<1>5. /\ raw \in Issued /\ raw \in Raw /\ raw.iat \in Nat
      /\ raw.iat <= now /\ now <= raw.iat + IssueLag
      /\ now \in 0..MaxTime /\ Lifetime \in Nat /\ IssueLag \in Nat /\ AskLag \in Nat
  BY SMT, <1>1, LocalASAssumption DEF ASInv, ASTypeOK, Tracked, Raw, Issued
<1>6. entry \in Entry /\ entry.exp = now + Lifetime /\ ~entry.revoked /\ entry # NoEntry
  <2>1. now + Lifetime \in Nat
    BY SMT, <1>5
  <2> QED BY <2>1, EntryFacts
<1> HIDE DEF raw, held, entry
<1>7. /\ asking' \in [Client -> Call]
      /\ \A d \in Client : asking'[d].pc # "idle" => asking'[d].raw \in Raw
      /\ \A d \in Client :
           LET k == asking[d]  k1 == asking'[d] IN
           /\ k1.pc = k.pc /\ k1.raw = k.raw /\ k1.held = held[d] /\ k1.at = k.at
           /\ k1.answer = k.answer
           /\ k.truths \subseteq k1.truths
           /\ IsOpen(d)' <=> IsOpen(d)
           /\ IsOpen(d) => k1.truths = k.truths \cup {Active(k.raw)'}
           /\ ~IsOpen(d) => k1.truths = k.truths
  BY <1>2, <1>3, <1>4, WitnessStep
<1>8. ASTypeOK'
  BY <1>1, <1>3, <1>5, <1>6, <1>7 DEF ASTypeOK, Call
<1>9. \A r \in Raw : tokens'[r] # NoEntry =>
        r \in Issued /\ r.iat + Lifetime <= tokens'[r].exp
  BY SMT, <1>1, <1>3, <1>5, <1>6 DEF ASInv, ASTypeOK, Tracked
<1>10. \A d \in Client : issuing'[d] # NoToken =>
         issuing'[d].iat <= now' /\ now' <= issuing'[d].iat + IssueLag
  BY <1>1, <1>3 DEF ASInv, ASTypeOK, Tracked
<1>11. ASSUME NEW d \in Client PROVE CallTracked(d)'
  <2> DEFINE k == asking[d]
             k1 == asking'[d]
  <2>1. CallTracked(d)
    BY DEF ASInv, Tracked
  <2>2. /\ k1.pc = k.pc /\ k1.raw = k.raw /\ k1.held = held[d] /\ k1.at = k.at
        /\ k1.answer = k.answer /\ k.truths \subseteq k1.truths
        /\ IsOpen(d)' <=> IsOpen(d)
        /\ IsOpen(d) => Active(asking[d].raw)' \in k1.truths
        /\ ~IsOpen(d) => k1.truths = k.truths
    BY <1>7
  <2>3. /\ held[d].exp = k.held.exp /\ held[d].may = k.held.may
        /\ k.raw = raw => ~held[d].linked
        /\ k.raw # raw => held[d] = k.held
    BY <1>4
  <2>4. k.at \in Nat /\ k.held.exp \in Nat /\ (k.pc # "idle" => k.raw \in Raw)
    BY SMT, <1>3, CallFields
  <2>5. k.pc = "found" =>
          /\ k.at <= now /\ now <= k.at + AskLag
          /\ TRUE \in k.held.may => FALSE \in k.truths
          /\ FALSE \in k.held.may /\ k.at <= k.held.exp => TRUE \in k.truths
          /\ k.held.linked => tokens[k.raw] # NoEntry /\ k.held.exp = tokens[k.raw].exp
          /\ ~k.held.linked => /\ k.raw \in Issued /\ k.at <= k.raw.iat + IssueLag
                               /\ k.raw.iat + Lifetime <= k.held.exp
    BY <2>1 DEF CallTracked
  <2>6. k.pc = "answered" => ~IsOpen(d) /\ k.answer \in k.truths
    BY <2>1 DEF CallTracked, IsOpen
  <2> HIDE DEF k
  <2>7. k1.pc = "found" =>
          /\ k1.at <= now' /\ now' <= k1.at + AskLag
          /\ TRUE \in k1.held.may => FALSE \in k1.truths
          /\ FALSE \in k1.held.may /\ k1.at <= k1.held.exp => TRUE \in k1.truths
    BY <1>1, <2>2, <2>3, <2>5
  <2>8. k1.pc = "found" /\ k1.held.linked =>
          tokens'[k1.raw] # NoEntry /\ k1.held.exp = tokens'[k1.raw].exp
    <3>1. k.raw # raw => tokens'[k.raw] = tokens[k.raw]
      BY SMT, <1>1, <1>3, <2>4 DEF ASTypeOK
    <3> QED BY <2>2, <2>3, <2>5, <3>1
  <2>9. k1.pc = "found" /\ ~k1.held.linked =>
          /\ k1.raw \in Issued /\ k1.at <= k1.raw.iat + IssueLag
          /\ k1.raw.iat + Lifetime <= k1.held.exp
    <3>1. CASE k.raw = raw
      <4>1. k.pc = "found" => k.at <= raw.iat + IssueLag
        BY SMT, <1>5, <2>4, <2>5
      <4>2. k.pc = "found" => raw.iat + Lifetime <= k.held.exp
        BY <1>5, <2>5, <3>1 DEF ASInv, Tracked
      <4> QED BY <1>5, <2>2, <2>3, <3>1, <4>1, <4>2
    <3>2. CASE k.raw # raw
      BY <2>2, <2>3, <2>5, <3>2
    <3> QED BY <3>1, <3>2
  <2>10. k1.pc = "answered" => k1.answer \in k1.truths
    BY <2>2, <2>6
  <2> QED BY <2>2, <2>7, <2>8, <2>9, <2>10 DEF CallTracked
<1>12. Server!Change
  BY <1>2, <1>3, <1>4, <1>8, ChangeStep
<1>13. ASSUME NEW d \in Client PROVE KeepsCall(d)
  <2>1. ASSUME asking[d] = Quiet PROVE asking'[d] = Quiet
    <3>1. held[d] = asking[d].held
      BY SMT, <1>1, <1>4, <2>1 DEF Quiet, Asking
    <3>2. asking'[d] = Witness(d, tokens', now', asking[d].held)
      BY <1>2, <3>1
    <3> QED BY <2>1, <3>2, QuietStays
  <2> QED BY <1>7, <2>1 DEF KeepsCall
<1> QED BY <1>7, <1>8, <1>9, <1>10, <1>11, <1>12, <1>13 DEF ASInv, Tracked

LEMMA HandleRevokeTracked ==
  ASSUME ASInv, NEW raw \in Raw, HandleRevoke(raw)
  PROVE  /\ ASInv' /\ Server!Change
         /\ \A d \in Client : KeepsCall(d)
<1> DEFINE held == [d \in Client |->
             IF asking[d].raw = raw /\ asking[d].held.linked
             THEN Held(asking[d].held.exp, asking[d].held.may \cup {TRUE}, TRUE)
             ELSE asking[d].held]
           entry == TokenEntry(tokens[raw].exp, TRUE)
<1>1. /\ tokens' = [tokens EXCEPT ![raw] = entry]
      /\ tokens[raw] # NoEntry
      /\ now' = now /\ issuing' = issuing
  BY DEF HandleRevoke
<1>2. asking' = [d \in Client |-> Witness(d, tokens', now', held[d])]
  BY DEF HandleRevoke
<1>3. ASTypeOK
  BY DEF ASInv
<1>4. \A d \in Client :
        /\ held[d] \in [exp : Nat, may : SUBSET BOOLEAN, linked : BOOLEAN]
        /\ held[d].exp = asking[d].held.exp /\ (held[d].linked <=> asking[d].held.linked)
        /\ asking[d].raw = raw => held[d].may \subseteq asking[d].held.may \cup {TRUE}
        /\ asking[d].raw # raw => held[d] = asking[d].held
  <2> TAKE d \in Client
  <2> DEFINE h == asking[d].held
             may == h.may \cup {TRUE}
  <2>1. /\ h \in [exp : Nat, may : SUBSET BOOLEAN, linked : BOOLEAN]
        /\ h.exp \in Nat /\ may \in SUBSET BOOLEAN
    BY <1>3, CallFields
  <2>2. held[d] = IF asking[d].raw = raw /\ h.linked THEN Held(h.exp, may, TRUE) ELSE h
    OBVIOUS
  <2>3. h.may \subseteq may
    OBVIOUS
  <2> HIDE DEF may
  <2>4. LET g == Held(h.exp, may, TRUE) IN
        /\ g \in [exp : Nat, may : SUBSET BOOLEAN, linked : BOOLEAN]
        /\ g.exp = h.exp /\ g.may = may /\ g.linked
    BY <2>1 DEF Held
  <2> HIDE DEF h, held
  <2>5. CASE asking[d].raw = raw /\ h.linked
    BY <2>2, <2>4, <2>5 DEF h, may
  <2>6. CASE ~(asking[d].raw = raw /\ h.linked)
    BY <2>1, <2>2, <2>6 DEF h
  <2> QED BY <2>5, <2>6
<1>5. entry \in Entry /\ entry.exp = tokens[raw].exp /\ entry.revoked /\ entry # NoEntry
  <2>1. tokens[raw].exp \in Nat
    BY <1>1, <1>3, MapFields
  <2> QED BY <2>1, EntryFacts
<1> HIDE DEF held, entry
<1>6. /\ asking' \in [Client -> Call]
      /\ \A d \in Client : asking'[d].pc # "idle" => asking'[d].raw \in Raw
      /\ \A d \in Client :
           LET k == asking[d]  k1 == asking'[d] IN
           /\ k1.pc = k.pc /\ k1.raw = k.raw /\ k1.held = held[d] /\ k1.at = k.at
           /\ k1.answer = k.answer
           /\ k.truths \subseteq k1.truths
           /\ IsOpen(d)' <=> IsOpen(d)
           /\ IsOpen(d) => k1.truths = k.truths \cup {Active(k.raw)'}
           /\ ~IsOpen(d) => k1.truths = k.truths
  BY <1>2, <1>3, <1>4, WitnessStep
<1>7. ASTypeOK'
  BY <1>1, <1>3, <1>5, <1>6 DEF ASTypeOK, Call
<1>8. \A r \in Raw : /\ tokens'[r] # NoEntry => r \in Issued /\ r.iat + Lifetime <= tokens'[r].exp
                     /\ (tokens'[r] # NoEntry) <=> (tokens[r] # NoEntry)
                     /\ tokens'[r].exp = tokens[r].exp
  BY <1>1, <1>3, <1>5 DEF ASInv, ASTypeOK, Tracked
<1>9. ~Active(raw)'
  BY <1>1, <1>3, <1>5 DEF Active, ActiveIn, ASTypeOK
<1>10. ASSUME NEW d \in Client PROVE CallTracked(d)'
  <2> DEFINE k == asking[d]
             k1 == asking'[d]
  <2>1. CallTracked(d)
    BY DEF ASInv, Tracked
  <2>2. /\ k1.pc = k.pc /\ k1.raw = k.raw /\ k1.held = held[d] /\ k1.at = k.at
        /\ k1.answer = k.answer /\ k.truths \subseteq k1.truths
        /\ IsOpen(d)' <=> IsOpen(d)
        /\ IsOpen(d) => Active(asking[d].raw)' \in k1.truths
        /\ ~IsOpen(d) => k1.truths = k.truths
        /\ k1.pc = "found" => IsOpen(d)
    BY <1>6 DEF IsOpen
  <2>3. k1.pc = "found" /\ k.raw = raw => FALSE \in k1.truths
    <3>1. k.raw = raw => (Active(asking[d].raw)' <=> Active(raw)')
      BY <2>2 DEF Active, ActiveIn
    <3> QED BY <1>9, <2>2, <3>1 DEF Active, ActiveIn
  <2>4. /\ held[d].exp = k.held.exp /\ (held[d].linked <=> k.held.linked)
        /\ k.raw = raw => held[d].may \subseteq k.held.may \cup {TRUE}
        /\ k.raw # raw => held[d] = k.held
        /\ k.pc # "idle" => k.raw \in Raw
    BY <1>3, <1>4, CallFields
  <2>5. k.pc = "found" =>
          /\ k.at <= now /\ now <= k.at + AskLag
          /\ TRUE \in k.held.may => FALSE \in k.truths
          /\ FALSE \in k.held.may /\ k.at <= k.held.exp => TRUE \in k.truths
          /\ k.held.linked => tokens[k.raw] # NoEntry /\ k.held.exp = tokens[k.raw].exp
          /\ ~k.held.linked => /\ k.raw \in Issued /\ k.at <= k.raw.iat + IssueLag
                               /\ k.raw.iat + Lifetime <= k.held.exp
    BY <2>1 DEF CallTracked
  <2>6. k.pc = "answered" => ~IsOpen(d) /\ k.answer \in k.truths
    BY <2>1 DEF CallTracked, IsOpen
  <2> HIDE DEF k
  <2>7. k1.pc = "found" =>
          /\ k1.at <= now' /\ now' <= k1.at + AskLag
          /\ TRUE \in k1.held.may => FALSE \in k1.truths
          /\ FALSE \in k1.held.may /\ k1.at <= k1.held.exp => TRUE \in k1.truths
    BY <1>1, <2>2, <2>3, <2>4, <2>5
  <2>8. k1.pc = "found" /\ k1.held.linked =>
          tokens'[k1.raw] # NoEntry /\ k1.held.exp = tokens'[k1.raw].exp
    BY SMT, <1>8, <2>2, <2>4, <2>5
  <2>9. k1.pc = "found" /\ ~k1.held.linked =>
          /\ k1.raw \in Issued /\ k1.at <= k1.raw.iat + IssueLag
          /\ k1.raw.iat + Lifetime <= k1.held.exp
    BY <2>2, <2>4, <2>5
  <2>10. k1.pc = "answered" => k1.answer \in k1.truths
    BY <2>2, <2>6
  <2> QED BY <2>2, <2>7, <2>8, <2>9, <2>10 DEF CallTracked
<1>11. Server!Change
  BY <1>2, <1>3, <1>4, <1>7, ChangeStep
<1>12. ASSUME NEW d \in Client PROVE KeepsCall(d)
  <2>1. ASSUME asking[d] = Quiet PROVE asking'[d] = Quiet
    <3>1. held[d] = asking[d].held
      <4>1. asking[d].raw = NoToken
        BY SMT, <2>1 DEF Quiet, Asking
      <4> QED BY <1>4, <4>1, TokenAssumption
    <3>2. asking'[d] = Witness(d, tokens', now', asking[d].held)
      BY <1>2, <3>1
    <3> QED BY <2>1, <3>2, QuietStays
  <2> QED BY <1>6, <2>1 DEF KeepsCall
<1> QED BY <1>1, <1>6, <1>7, <1>8, <1>10, <1>11, <1>12 DEF ASInv, Tracked

LEMMA ASTickTracked ==
  ASSUME ASInv, ASTick
  PROVE  /\ ASInv' /\ Server!Change
         /\ \A d \in Client : KeepsCall(d)
<1> DEFINE held == [d \in Client |-> asking[d].held]
<1>1. /\ now' = now + 1 /\ now < MaxTime
      /\ UNCHANGED <<tokens, issuing>>
  BY DEF ASTick
<1>2. asking' = [d \in Client |-> Witness(d, tokens', now', held[d])]
  BY DEF ASTick
<1>3. ASTypeOK /\ now \in Nat /\ MaxTime \in Nat /\ AskLag \in Nat /\ IssueLag \in Nat
  BY SMT, LocalASAssumption DEF ASInv, ASTypeOK
<1>4. \A d \in Client : held[d] = asking[d].held
  OBVIOUS
<1>5. \A d \in Client : held[d] \in [exp : Nat, may : SUBSET BOOLEAN, linked : BOOLEAN]
  BY <1>3, CallFields
<1> HIDE DEF held
<1>6. /\ asking' \in [Client -> Call]
      /\ \A d \in Client : asking'[d].pc # "idle" => asking'[d].raw \in Raw
      /\ \A d \in Client :
           LET k == asking[d]  k1 == asking'[d] IN
           /\ k1.pc = k.pc /\ k1.raw = k.raw /\ k1.held = held[d] /\ k1.at = k.at
           /\ k1.answer = k.answer
           /\ k.truths \subseteq k1.truths
           /\ IsOpen(d)' <=> IsOpen(d)
           /\ IsOpen(d) => k1.truths = k.truths \cup {Active(k.raw)'}
           /\ ~IsOpen(d) => k1.truths = k.truths
  BY <1>2, <1>3, <1>5, WitnessStep
<1>7. ASTypeOK'
  BY SMT, <1>1, <1>3, <1>6 DEF ASTypeOK, Call
<1>8. \A d \in Client : issuing'[d] # NoToken =>
        issuing'[d].iat <= now' /\ now' <= issuing'[d].iat + IssueLag
  BY SMT, <1>1, <1>3 DEF ASInv, ASTypeOK, Tracked, ASTick, Issued
<1>9. ASSUME NEW d \in Client PROVE CallTracked(d)'
  <2> DEFINE k == asking[d]
             k1 == asking'[d]
  <2>1. CallTracked(d)
    BY DEF ASInv, Tracked
  <2>2. /\ k1.pc = k.pc /\ k1.raw = k.raw /\ k1.held = k.held /\ k1.at = k.at
        /\ k1.answer = k.answer /\ k.truths \subseteq k1.truths
        /\ IsOpen(d)' <=> IsOpen(d)
        /\ IsOpen(d) => Active(asking[d].raw)' \in k1.truths
        /\ ~IsOpen(d) => k1.truths = k.truths
    BY <1>4, <1>6
  <2>3. k.at \in Nat /\ (k.pc = "found" => now < k.at + AskLag)
    BY SMT, <1>3, CallFields DEF ASTick
  <2>4. k.pc = "found" =>
          /\ k.at <= now
          /\ TRUE \in k.held.may => FALSE \in k.truths
          /\ FALSE \in k.held.may /\ k.at <= k.held.exp => TRUE \in k.truths
          /\ k.held.linked => tokens[k.raw] # NoEntry /\ k.held.exp = tokens[k.raw].exp
          /\ ~k.held.linked => /\ k.raw \in Issued /\ k.at <= k.raw.iat + IssueLag
                               /\ k.raw.iat + Lifetime <= k.held.exp
    BY <2>1 DEF CallTracked
  <2>5. k.pc = "answered" => ~IsOpen(d) /\ k.answer \in k.truths
    BY <2>1 DEF CallTracked, IsOpen
  <2> HIDE DEF k
  <2>6. k1.pc = "found" => k1.at <= now' /\ now' <= k1.at + AskLag
    BY SMT, <1>1, <1>3, <2>2, <2>3, <2>4
  <2>7. k1.pc = "found" =>
          /\ TRUE \in k1.held.may => FALSE \in k1.truths
          /\ FALSE \in k1.held.may /\ k1.at <= k1.held.exp => TRUE \in k1.truths
          /\ k1.held.linked => tokens'[k1.raw] # NoEntry /\ k1.held.exp = tokens'[k1.raw].exp
          /\ ~k1.held.linked => /\ k1.raw \in Issued /\ k1.at <= k1.raw.iat + IssueLag
                                /\ k1.raw.iat + Lifetime <= k1.held.exp
    BY <1>1, <2>2, <2>4
  <2>8. k1.pc = "answered" => k1.answer \in k1.truths
    BY <2>2, <2>5
  <2> QED BY <2>2, <2>6, <2>7, <2>8 DEF CallTracked
<1>10. Server!Change
  BY <1>2, <1>3, <1>5, <1>7, ChangeStep
<1>11. ASSUME NEW d \in Client PROVE KeepsCall(d)
  <2>1. ASSUME asking[d] = Quiet PROVE asking'[d] = Quiet
    <3>1. held[d] = asking[d].held
      BY <1>4
    <3>2. asking'[d] = Witness(d, tokens', now', asking[d].held)
      BY <1>2, <3>1
    <3> QED BY <2>1, <3>2, QuietStays
  <2> QED BY <1>6, <2>1 DEF KeepsCall
<1> QED BY <1>1, <1>6, <1>7, <1>8, <1>9, <1>10, <1>11 DEF ASInv, Tracked

\* A step of one call leaves the others as they are.
LEMMA OneCall ==
  ASSUME ASInv, NEW c \in Client, NEW k \in Call,
         k.pc # "idle" => k.raw \in Raw,
         asking' = [asking EXCEPT ![c] = k], UNCHANGED <<now, tokens, issuing>>,
         CallTracked(c)'
  PROVE  ASInv'
<1>1. ASTypeOK'
  BY SMT DEF ASInv, ASTypeOK, Call
<1>2. \A d \in Client \ {c} : asking'[d] = asking[d] /\ CallTracked(d)
  BY DEF ASInv, ASTypeOK, Tracked
<1>3. ASSUME NEW d \in Client \ {c} PROVE CallTracked(d)'
  <2>1. asking'[d] = asking[d] /\ CallTracked(d)
    BY <1>2
  <2> QED BY <2>1 DEF CallTracked, IsOpen, Active, ActiveIn
<1> QED BY <1>1, <1>3 DEF ASInv, Tracked

LEMMA AskTracked ==
  ASSUME ASInv, NEW c \in Client, NEW raw \in Raw, Ask(c, raw)
  PROVE  /\ ASInv' /\ Server!Ask(c, raw)
         /\ asking'[c].pc = "received" /\ asking'[c].raw = raw
         /\ \A d \in Client \ {c} : asking'[d] = asking[d]
<1> DEFINE truths == {Active(raw)}
           k == Asking("received", raw, NotHeld, 0, truths, FALSE)
<1>1. asking' = [asking EXCEPT ![c] = k] /\ UNCHANGED <<now, tokens, issuing>>
  BY DEF Ask
<1>2. truths \in SUBSET BOOLEAN
  BY DEF Active, ActiveIn
<1>3. 0 \in 0..MaxTime
  BY SMT, LocalASAssumption
<1>4. k \in Call /\ k.pc = "received" /\ k.raw = raw /\ k.truths = truths
  <2> HIDE DEF truths
  <2> QED BY <1>2, <1>3, NotHeldType DEF Asking, Call
<1> HIDE DEF k
<1>5. asking'[c] = k /\ \A d \in Client \ {c} : asking'[d] = asking[d]
  BY <1>1 DEF ASInv, ASTypeOK
<1>6. Active(asking[c].raw)' <=> Active(raw)
  BY <1>1, <1>4, <1>5 DEF Active, ActiveIn
<1>7. CallTracked(c)'
  BY <1>4, <1>5, <1>6 DEF CallTracked, Active, ActiveIn
<1>8. ASInv'
  BY <1>1, <1>4, <1>7, OneCall
<1>9. Server!Ask(c, raw)
  <2>1. CallOf(c).state = "none"
    BY CallStates DEF Ask, ASInv
  <2>2. CallOf(c)' = [state |-> "open", raw |-> raw, truths |-> truths]
    BY <1>4, <1>5 DEF CallOf, IsOpen
  <2>3. truths = {[r \in Raw |-> Active(r)][raw]}
    OBVIOUS
  <2> HIDE DEF truths
  <2>4. /\ [r \in Raw |-> Active(r)]' = [r \in Raw |-> Active(r)]
        /\ [d \in Client |-> CallOf(d)]' = [[d \in Client |-> CallOf(d)] EXCEPT ![c] = CallOf(c)']
    BY <1>1, <1>5, OneCallStep DEF ASInv
  <2> QED BY <2>1, <2>2, <2>3, <2>4 DEF Server!Ask, Server!Open
<1> QED BY <1>4, <1>5, <1>8, <1>9

LEMMA LookupTracked ==
  ASSUME ASInv, NEW c \in Client, Lookup(c)
  PROVE  /\ ASInv' /\ (Server!Reply(c) \/ UNCHANGED Server!vars)
         /\ asking'[c].pc \in {"found", "answered"} /\ asking'[c].raw = asking[c].raw
         /\ asking'[c].truths = asking[c].truths
         /\ \A d \in Client \ {c} : asking'[d] = asking[d]
<1> DEFINE raw == asking[c].raw
           truths == asking[c].truths
           held == Held(tokens[raw].exp, {tokens[raw].revoked}, TRUE)
<1>1. /\ ASTypeOK /\ asking[c].pc = "received" /\ raw \in Raw /\ now \in 0..MaxTime
      /\ 0 \in 0..MaxTime /\ truths \in SUBSET BOOLEAN
  BY SMT, CallFields, LocalASAssumption DEF Lookup, ASInv, ASTypeOK
<1>2. /\ asking' \in [Client -> Call] => asking'[c] \in Call
      /\ \A d \in Client \ {c} : asking'[d] = asking[d]
      /\ UNCHANGED <<now, tokens, issuing>>
  BY <1>1 DEF Lookup, ASTypeOK
<1>3. Active(raw) \in truths /\ (Active(asking[c].raw)' <=> ActiveIn(tokens, now, asking'[c].raw))
  BY <1>1, <1>2 DEF ASInv, Tracked, CallTracked, IsOpen, Active, ActiveIn
<1>4. CASE tokens[raw] = NoEntry
  <2> DEFINE k == Asking("answered", raw, NotHeld, 0, truths, FALSE)
  <2>1. asking' = [asking EXCEPT ![c] = k]
    BY <1>4 DEF Lookup
  <2>2. k \in Call /\ k.pc = "answered" /\ k.raw = raw /\ k.truths = truths /\ ~k.answer
    <3> HIDE DEF raw, truths
    <3> QED BY <1>1, NotHeldType DEF Asking, Call
  <2>3. k.answer \in BOOLEAN
    BY <2>2 DEF Call
  <2> HIDE DEF k
  <2>4. ~Active(raw)
    BY <1>1, <1>4, MapFields DEF Active, ActiveIn
  <2>5. asking'[c] = k
    BY <1>1, <2>1 DEF ASTypeOK
  <2>6. CallTracked(c)'
    BY <1>3, <2>2, <2>3, <2>4, <2>5 DEF CallTracked, IsOpen, Active, ActiveIn
  <2>7. ASInv'
    BY <1>1, <1>2, <2>1, <2>2, <2>6, OneCall
  <2>8. Server!Reply(c)
    BY <1>1, <1>2, <2>2, <2>5, <2>7, ReplyStep DEF IsOpen
  <2> QED BY <1>2, <2>2, <2>5, <2>7, <2>8
<1>5. CASE tokens[raw] # NoEntry
  <2> DEFINE k == Asking("found", raw, held, now, truths, FALSE)
  <2>1. asking' = [asking EXCEPT ![c] = k]
    BY <1>5 DEF Lookup
  <2>2. tokens[raw].exp \in Nat /\ tokens[raw].revoked \in BOOLEAN
    BY <1>1, <1>5, MapFields
  <2>3. /\ held \in [exp : Nat, may : SUBSET BOOLEAN, linked : BOOLEAN]
        /\ held.exp = tokens[raw].exp /\ held.may = {tokens[raw].revoked} /\ held.linked
    BY <2>2 DEF Held
  <2> HIDE DEF held
  <2>4. k \in Call /\ k.pc = "found" /\ k.raw = raw /\ k.truths = truths /\ k.held = held /\ k.at = now
    <3> HIDE DEF raw, truths
    <3> QED BY <1>1, <2>3 DEF Asking, Call
  <2> HIDE DEF k
  <2>5. asking'[c] = k
    BY <1>1, <2>1 DEF ASTypeOK
  <2>6. /\ TRUE \in held.may => FALSE \in truths
        /\ FALSE \in held.may /\ now <= held.exp => TRUE \in truths
    BY <1>3, <2>2, <2>3 DEF Active, ActiveIn
  <2>7. IsOpen(c)' => Active(asking[c].raw)' \in asking'[c].truths
    BY <1>2, <1>3, <2>4, <2>5 DEF Active, ActiveIn
  <2>8. AskLag \in Nat /\ now \in Nat
    BY SMT, <1>1, LocalASAssumption
  <2>9. CallTracked(c)'
    <3> DEFINE k1 == asking'[c]
    <3>1. /\ k1.pc = "found" /\ k1.raw = raw /\ k1.truths = truths /\ k1.held = held
          /\ k1.at = now /\ k1.held.linked
      BY <2>3, <2>4, <2>5
    <3>2. k1.at <= now' /\ now' <= k1.at + AskLag
      BY SMT, <1>2, <2>8, <3>1
    <3>3. tokens'[k1.raw] # NoEntry /\ k1.held.exp = tokens'[k1.raw].exp
      BY <1>2, <1>5, <2>3, <3>1
    <3>4. /\ TRUE \in k1.held.may => FALSE \in k1.truths
          /\ FALSE \in k1.held.may /\ k1.at <= k1.held.exp => TRUE \in k1.truths
      BY <2>6, <3>1
    <3> QED BY <2>7, <3>1, <3>2, <3>3, <3>4 DEF CallTracked
  <2>10. ASInv'
    BY <1>1, <1>2, <2>1, <2>4, <2>9, OneCall
  <2>11. UNCHANGED Server!vars
    <3>1. CallOf(c)' = CallOf(c)
      BY <1>1, <2>4, <2>5 DEF CallOf, IsOpen
    <3>2. /\ [r \in Raw |-> Active(r)]' = [r \in Raw |-> Active(r)]
          /\ [d \in Client |-> CallOf(d)]' = [[d \in Client |-> CallOf(d)] EXCEPT ![c] = CallOf(c)']
      BY <1>1, <1>2, OneCallStep
    <3> QED BY <3>1, <3>2 DEF Server!vars
  <2> QED BY <1>2, <2>4, <2>5, <2>10, <2>11
<1> QED BY <1>4, <1>5

LEMMA AnswerTracked ==
  ASSUME ASInv, NEW c \in Client, Answer(c)
  PROVE  /\ ASInv' /\ Server!Reply(c)
         /\ asking'[c].pc = "answered" /\ asking'[c].raw = asking[c].raw
         /\ asking'[c].truths = asking[c].truths
         /\ \A d \in Client \ {c} : asking'[d] = asking[d]
<1> DEFINE raw == asking[c].raw
           held == asking[c].held
           truths == asking[c].truths
<1>1. /\ ASTypeOK /\ asking[c].pc = "found" /\ raw \in Raw /\ now \in Nat /\ 0 \in 0..MaxTime
      /\ truths \in SUBSET BOOLEAN /\ held.exp \in Nat /\ asking[c].at \in Nat
      /\ held.may \in SUBSET BOOLEAN
      /\ AskLag \in Nat /\ IssueLag \in Nat /\ Lifetime \in Nat /\ IssueLag + AskLag <= Lifetime
  BY SMT, CallFields, LocalASAssumption DEF Answer, ASInv, ASTypeOK
<1>2. PICK revoked \in held.may :
        /\ asking' = [asking EXCEPT ![c] =
             Asking("answered", raw, NotHeld, 0, truths, ~revoked /\ now <= held.exp)]
        /\ UNCHANGED <<now, tokens, issuing>>
  BY DEF Answer
<1> DEFINE answer == ~revoked /\ now <= held.exp
           k == Asking("answered", raw, NotHeld, 0, truths, answer)
<1>3. answer \in BOOLEAN
  OBVIOUS
<1>4. k \in Call /\ k.pc = "answered" /\ k.raw = raw /\ k.truths = truths /\ k.answer = answer
  <2> HIDE DEF raw, truths, answer
  <2> QED BY SMT, <1>1, <1>3, NotHeldType, AskingFields
<1>5. /\ asking[c].at <= now /\ now <= asking[c].at + AskLag
      /\ TRUE \in held.may => FALSE \in truths
      /\ FALSE \in held.may /\ asking[c].at <= held.exp => TRUE \in truths
      /\ held.linked => held.exp = tokens[raw].exp
      /\ ~held.linked => /\ raw \in Issued /\ asking[c].at <= raw.iat + IssueLag
                         /\ raw.iat + Lifetime <= held.exp
      /\ Active(raw) \in truths
  BY <1>1 DEF ASInv, Tracked, CallTracked, IsOpen
<1>6. answer \in truths
  <2>1. CASE ~revoked /\ now <= held.exp
    <3>1. FALSE \in held.may
      BY <1>1, <1>2, <2>1
    <3>2. TRUE \in truths
      <4>1. asking[c].at <= held.exp
        BY SMT, <1>1, <1>5, <2>1
      <4> QED BY <1>5, <3>1, <4>1
    <3>3. answer = TRUE
      BY <2>1
    <3> QED BY <3>2, <3>3
  <2>2. CASE revoked
    <3>1. TRUE \in held.may
      BY <1>1, <1>2, <2>2
    <3>2. FALSE \in truths
      BY <1>5, <3>1
    <3>3. answer = FALSE
      BY <2>2
    <3> QED BY <3>2, <3>3
  <2>3. CASE now > held.exp
    <3>1. CASE held.linked
      <4>1. ~Active(raw)
        BY SMT, <1>1, <1>5, <2>3, <3>1 DEF Active, ActiveIn
      <4> QED BY SMT, <1>1, <1>5, <2>3, <4>1 DEF Active, ActiveIn
    <3>2. CASE ~held.linked
      <4>1. raw.iat \in Nat
        BY SMT, <1>5, <3>2 DEF Issued
      <4> QED BY SMT, <1>1, <1>5, <2>3, <3>2, <4>1
    <3> QED BY <3>1, <3>2
  <2> QED BY SMT, <1>1, <2>1, <2>2, <2>3
<1> HIDE DEF answer
<1>7. asking' = [asking EXCEPT ![c] = k]
  BY <1>2 DEF answer
<1> HIDE DEF k
<1>8. asking'[c] = k /\ \A d \in Client \ {c} : asking'[d] = asking[d]
  BY <1>1, <1>7 DEF ASTypeOK
<1>9. CallTracked(c)'
  BY <1>4, <1>6, <1>8 DEF CallTracked, IsOpen
<1>10. ASInv'
  BY <1>1, <1>2, <1>4, <1>7, <1>9, OneCall
<1>11. Server!Reply(c)
  BY <1>1, <1>2, <1>4, <1>8, <1>10, ReplyStep DEF IsOpen
<1> QED BY <1>4, <1>8, <1>10, <1>11

LEMMA LeaveTracked ==
  ASSUME ASInv, NEW c \in Client, Leave(c)
  PROVE  /\ ASInv' /\ (Server!Leave(c) \/ UNCHANGED Server!vars)
         /\ asking'[c] = Quiet
         /\ \A d \in Client \ {c} : asking'[d] = asking[d]
<1>1. Quiet \in Call /\ Quiet.pc = "idle"
  BY SMT, LocalASAssumption, NotHeldType DEF Asking, Call, Quiet
<1>2. asking'[c] = Quiet /\ \A d \in Client \ {c} : asking'[d] = asking[d]
  BY DEF Leave, ASInv, ASTypeOK
<1>3. CallTracked(c)'
  BY <1>1, <1>2 DEF CallTracked, IsOpen
<1>4. ASInv'
  BY <1>1, <1>3, OneCall DEF Leave
<1>5. ASTypeOK /\ CallOf(c)' = [state |-> "none"]
  BY <1>1, <1>2 DEF CallOf, IsOpen, ASInv
<1>6. /\ [r \in Raw |-> Active(r)]' = [r \in Raw |-> Active(r)]
      /\ [d \in Client |-> CallOf(d)]' = [[d \in Client |-> CallOf(d)] EXCEPT ![c] = CallOf(c)']
  BY <1>2, <1>5, OneCallStep DEF Leave
<1>7. CASE asking[c].pc = "idle"
  <2>1. CallOf(c)' = CallOf(c)
    BY <1>5, <1>7, CallStates DEF Server!NoCall
  <2> QED BY <1>2, <1>4, <1>6, <2>1 DEF Server!vars
<1>8. CASE asking[c].pc # "idle"
  <2>1. CallOf(c).state # "none"
    BY <1>5, <1>8, CallStates
  <2>2. Server!Leave(c)
    BY <1>5, <1>6, <2>1 DEF Server!Leave, Server!NoCall
  <2> QED BY <1>2, <1>4, <2>2
<1> QED BY <1>7, <1>8

-----------------------------------------------------------------------------
\* What is said of one client by TypeOK and ServedJustified.
ClientOK(c) ==
  LET k == client[c] IN
  /\ k.pc \in {"start", "issuing", "ready", "sent", "asking", "deciding", "lost", "answered",
              "served", "refused"}
  /\ k.token \in Raw \cup {NoToken} /\ k.proof \in Proof
  /\ k.run \in Seq(Config) /\ k.seen \subseteq Engines
  /\ k.pc = "issuing" <=> issuing[c] # NoToken
  /\ k.pc \in {"start", "issuing", "ready", "sent"} => asking[c] = Quiet
  /\ k.pc \in {"asking", "deciding"} => asking[c].pc # "idle" /\ asking[c].raw = k.token
  /\ k.pc \in {"sent", "asking", "deciding"} => engine \in k.seen
  /\ k.pc \in {"sent", "asking"} /\ engine = NoEngine => k.seen = {NoEngine}
  /\ k.pc = "deciding" =>
       /\ k.run # <<>> /\ k.run[Len(k.run)] = engine
       /\ \A m \in 1..Len(k.run) : k.run[m] \in k.seen
  /\ k.pc = "answered" <=> k.reply # NoReply
  /\ k.pc \in {"deciding", "served"} => TRUE \in asking[c].truths
  /\ k.pc = "served" /\ k.seen # {NoEngine} =>
       Authorized(k.seen, PolicyRequest(c, k.token.acr), NoPolicy)

\* The inductive invariant.
Inv ==
  /\ ASInv
  /\ engine \in Engines
  /\ events \in 0..MaxEvents
  /\ DOMAIN client = Client
  /\ \A c \in Client : ClientOK(c)

LEMMA InvImplies == Inv => TypeOK /\ ServedJustified
BY DEF Inv, ASInv, ClientOK, TypeOK, ServedJustified

LEMMA StateFields ==
  ASSUME NEW pc, NEW wish, NEW token, NEW proof, NEW reply, NEW run, NEW seen
  PROVE  LET k == State(pc, wish, token, proof, reply, run, seen) IN
         /\ k.pc = pc /\ k.wish = wish /\ k.token = token
         /\ k.proof = proof /\ k.reply = reply /\ k.run = run /\ k.seen = seen
BY DEF State

\* A client that is not in a call of Evaluate has the empty history.
LEMMA NoRun == <<>> \in Seq(Config)
BY EmptySeq

LEMMA AtFields ==
  ASSUME NEW c, NEW pc
  PROVE  /\ At(c, pc).pc = pc /\ At(c, pc).token = client[c].token
         /\ At(c, pc).proof = client[c].proof /\ At(c, pc).reply = client[c].reply
         /\ At(c, pc).run \in Seq(Config) /\ At(c, pc).seen = client[c].seen
<1>1. PICK none : none = <<>>
  OBVIOUS
<1>2. none \in Seq(Config)
  BY <1>1, NoRun
<1>3. PICK wish, token, proof, reply, seen :
        /\ wish = client[c].wish /\ token = client[c].token /\ proof = client[c].proof
        /\ reply = client[c].reply /\ seen = client[c].seen
  OBVIOUS
<1>4. At(c, pc) = State(pc, wish, token, proof, reply, none, seen)
  BY <1>1, <1>3 DEF At
<1>5. LET k == State(pc, wish, token, proof, reply, none, seen) IN
      /\ k.pc = pc /\ k.token = token /\ k.proof = proof /\ k.reply = reply
      /\ k.run = none /\ k.seen = seen
  BY SMT, StateFields
<1> QED BY <1>2, <1>3, <1>4, <1>5

\* A client whose own state stays as it is.
LEMMA Bystander ==
  ASSUME NEW c \in Client, ClientOK(c), KeepsCall(c), client'[c] = client[c],
         issuing'[c] = issuing[c], engine' = engine
  PROVE  ClientOK(c)'
BY DEF ClientOK, KeepsCall

\* A step of client c is seen by the others through the server only.
LEMMA OwnStep ==
  ASSUME Inv, ASInv', NEW c \in Client, NEW k, client' = [client EXCEPT ![c] = k],
         engine' = engine, events' \in 0..MaxEvents,
         \A d \in Client \ {c} : KeepsCall(d) /\ issuing'[d] = issuing[d],
         ClientOK(c)'
  PROVE  Inv'
<1>1. DOMAIN client' = Client /\ \A d \in Client \ {c} : client'[d] = client[d]
  BY DEF Inv
<1>2. \A d \in Client \ {c} : ClientOK(d)'
  BY <1>1, Bystander DEF Inv
<1> QED BY <1>1, <1>2 DEF Inv

LEMMA SameCall ==
  ASSUME NEW c \in Client, asking'[c] = asking[c]
  PROVE  KeepsCall(c)
BY DEF KeepsCall

LEMMA DenialIsReply ==
  ASSUME NEW c \in Client, NEW error, NEW acr, NEW maxAge
  PROVE  Denial(c, error, acr, maxAge) # NoReply
BY DEF Denial, Header, WWWAuthenticateHeader, StepUpChallenge, NoReply

LEMMA RequestTokenStep ==
  ASSUME Inv, NEW c \in Client, RequestToken(c)
  PROVE  Inv' /\ UNCHANGED Server!vars
<1>1. /\ client[c].pc = "start" /\ client' = [client EXCEPT ![c] = At(c, "issuing")]
      /\ UNCHANGED <<engine, events>>
  BY DEF RequestToken
<1>2. UserOf[c] \in User
  BY MiddlewareAssumption
<1>3. /\ ASInv' /\ UNCHANGED Server!vars
      /\ asking' = asking /\ issuing'[c] # NoToken
      /\ \A d \in Client \ {c} : issuing'[d] = issuing[d]
  BY <1>2, HandleTokenTracked DEF RequestToken, Inv
<1>4. ClientOK(c) /\ LET k == client'[c] IN
        /\ k.pc = "issuing" /\ k.token = client[c].token /\ k.proof = client[c].proof
        /\ k.reply = client[c].reply /\ k.run \in Seq(Config) /\ k.seen = client[c].seen
  BY <1>1, AtFields DEF Inv
<1>5. ClientOK(c)'
  BY <1>1, <1>3, <1>4 DEF ClientOK
<1>6. \A d \in Client : KeepsCall(d)
  BY <1>3, SameCall
<1>7. events' \in 0..MaxEvents
  BY <1>1 DEF Inv
<1> QED BY <1>1, <1>3, <1>5, <1>6, <1>7, OwnStep

LEMMA ReceiveTokenStep ==
  ASSUME Inv, NEW c \in Client, ReceiveToken(c)
  PROVE  Inv' /\ Server!Change
<1> DEFINE k == State("ready", client[c].wish, issuing[c], client[c].proof, NoReply, <<>>, {})
<1>1. /\ client[c].pc = "issuing" /\ client' = [client EXCEPT ![c] = k]
      /\ IssueToken(c) /\ UNCHANGED <<engine, events>>
  BY DEF ReceiveToken, Between
<1>2. ASInv' /\ Server!Change /\ \A d \in Client : KeepsCall(d)
  BY <1>1, IssueTokenTracked DEF Inv
<1>3. /\ issuing'[c] = NoToken /\ issuing[c] \in Raw
      /\ \A d \in Client \ {c} : issuing'[d] = issuing[d]
  BY <1>1 DEF IssueToken, Inv, ASInv, ASTypeOK, Raw
<1>4. client'[c] = k /\ ClientOK(c) /\ DOMAIN client = Client
  BY <1>1 DEF Inv
<1>5. /\ k.pc = "ready" /\ k.token = issuing[c] /\ k.proof = client[c].proof
      /\ k.reply = NoReply /\ k.run = <<>> /\ k.seen = {}
  BY SMT, StateFields
<1> HIDE DEF k
<1>6. asking'[c] = Quiet
  BY <1>1, <1>2, <1>4 DEF ClientOK, KeepsCall
<1>7. ClientOK(c)'
  BY <1>1, <1>3, <1>4, <1>5, <1>6, NoRun DEF ClientOK
<1>8. events' \in 0..MaxEvents
  BY <1>1 DEF Inv
<1> QED BY <1>1, <1>2, <1>3, <1>7, <1>8, OwnStep

\* A request is sent with a proof of the right form.
LEMMA SendWithStep ==
  ASSUME Inv, NEW c \in Client, NEW proof \in Proof, client[c].pc = "ready",
         SendWith(c, proof), UNCHANGED <<asVars, engine>>, events' \in 0..MaxEvents
  PROVE  Inv' /\ UNCHANGED Server!vars
<1> DEFINE k == State("sent", client[c].wish, client[c].token, proof, NoReply, <<>>,
                      {engine})
<1>1. client' = [client EXCEPT ![c] = k] /\ UNCHANGED <<now, tokens, issuing, asking>>
  BY DEF SendWith, asVars
<1>2. client'[c] = k /\ ClientOK(c) /\ engine \in Engines
  BY <1>1 DEF Inv
<1>3. /\ k.pc = "sent" /\ k.token = client[c].token /\ k.proof = proof
      /\ k.reply = NoReply /\ k.run = <<>> /\ k.seen = {engine}
  BY SMT, StateFields
<1> HIDE DEF k
<1>4. ClientOK(c)'
  BY <1>1, <1>2, <1>3, NoRun DEF ClientOK
<1>5. ASInv'
  BY ServerUntouched DEF Inv
<1>6. \A d \in Client : KeepsCall(d) /\ issuing'[d] = issuing[d]
  BY <1>1, SameCall
<1> QED BY <1>1, <1>4, <1>5, <1>6, OwnStep, Stutter

LEMMA SendStep ==
  ASSUME Inv, NEW c \in Client, Send(c) \/ SendOldProof(c)
  PROVE  Inv' /\ UNCHANGED Server!vars
<1>1. now \in 0..MaxTime /\ 0 \in 0..MaxTime /\ MaxEvents \in Nat
  BY SMT, LocalASAssumption, MiddlewareAssumption DEF Inv, ASInv, ASTypeOK
<1>2. client[c].token \in Raw \cup {NoToken} /\ client[c].proof \in Proof
  BY DEF Inv, ClientOK
<1>3. CASE Send(c)
  <2> DEFINE proof == IF Signs(c) THEN [ath |-> client[c].token, iat |-> now] ELSE NoProof
  <2>1. proof \in Proof
    BY <1>1, <1>2 DEF Proof, NoProof
  <2>2. SendWith(c, proof) /\ client[c].pc = "ready" /\ UNCHANGED <<asVars, engine, events>>
    BY <1>3 DEF Send
  <2> HIDE DEF proof
  <2>3. events' \in 0..MaxEvents
    BY <2>2 DEF Inv
  <2> QED BY <2>1, <2>2, <2>3, SendWithStep
<1>4. CASE SendOldProof(c)
  <2>1. /\ SendWith(c, client[c].proof) /\ client[c].pc = "ready"
        /\ UNCHANGED <<asVars, engine>>
    BY <1>4 DEF SendOldProof
  <2>2. events' \in 0..MaxEvents
    BY SMT, <1>1, <1>4 DEF SendOldProof, Disturb, Inv
  <2> QED BY <1>2, <2>1, <2>2, SendWithStep
<1> QED BY <1>3, <1>4

LEMMA DenyStep ==
  ASSUME Inv, ASInv', NEW c \in Client, NEW error, NEW acr, NEW maxAge,
         Deny(c, error, acr, maxAge), client[c].pc # "issuing", issuing' = issuing,
         \A d \in Client \ {c} : asking'[d] = asking[d],
         engine' = engine, events' \in 0..MaxEvents
  PROVE  Inv'
<1> DEFINE reply == Denial(c, error, acr, maxAge)
           k == State("answered", client[c].wish, client[c].token, client[c].proof, reply,
                      <<>>, client[c].seen)
<1>1. client' = [client EXCEPT ![c] = k]
  BY DEF Deny
<1>2. /\ k.pc = "answered" /\ k.token = client[c].token /\ k.proof = client[c].proof
      /\ k.reply = reply /\ k.run = <<>> /\ k.seen = client[c].seen
  BY SMT, StateFields
<1>3. reply # NoReply
  BY DenialIsReply
<1> HIDE DEF k, reply
<1>4. client'[c] = k /\ ClientOK(c)
  BY <1>1 DEF Inv
<1>5. ClientOK(c)'
  BY <1>2, <1>3, <1>4, NoRun DEF ClientOK
<1> QED BY <1>1, <1>5, OwnStep, SameCall

LEMMA AuthenticateStep ==
  ASSUME Inv, NEW c \in Client, Authenticate(c)
  PROVE  Inv' /\ [Server!Next]_(Server!vars)
<1>1. client[c].pc = "sent" /\ UNCHANGED <<engine, events>>
  BY DEF Authenticate
<1>2. events' \in 0..MaxEvents /\ ClientOK(c)
  BY <1>1 DEF Inv
<1>3. CASE Deny(c, "invalid_token", NoACR, 0) /\ UNCHANGED asVars
  <2>1. UNCHANGED <<now, tokens, issuing, asking>>
    BY <1>3 DEF asVars
  <2>2. ASInv'
    BY <1>3, ServerUntouched DEF Inv
  <2> QED BY <1>1, <1>2, <1>3, <2>1, <2>2, DenyStep, Stutter
<1>4. CASE /\ client[c].token # NoToken /\ Ask(c, client[c].token)
           /\ client' = [client EXCEPT ![c] = At(c, "asking")]
  <2>1. client[c].token \in Raw
    BY <1>2, <1>4 DEF ClientOK
  <2>2. /\ ASInv' /\ Server!Ask(c, client[c].token)
        /\ asking'[c].pc = "received" /\ asking'[c].raw = client[c].token
        /\ \A d \in Client \ {c} : asking'[d] = asking[d]
    BY <1>4, <2>1, AskTracked DEF Inv
  <2>3. issuing' = issuing
    BY <1>4 DEF Ask
  <2>4. LET k == client'[c] IN
        /\ k.pc = "asking" /\ k.token = client[c].token /\ k.proof = client[c].proof
        /\ k.reply = client[c].reply /\ k.run \in Seq(Config) /\ k.seen = client[c].seen
    BY <1>4, AtFields DEF Inv
  <2>5. ClientOK(c)'
    BY <1>1, <1>2, <2>2, <2>3, <2>4 DEF ClientOK
  <2>6. Inv'
    BY <1>1, <1>2, <1>4, <2>2, <2>3, <2>5, OwnStep, SameCall
  <2> QED BY <2>1, <2>2, <2>6 DEF Server!Next
<1> QED BY <1>3, <1>4 DEF Authenticate

LEMMA ServeStep ==
  ASSUME Inv, NEW c \in Client, Serve(c)
  PROVE  Inv' /\ [Server!Next]_(Server!vars)
<1>1. client[c].pc = "asking" /\ UNCHANGED <<engine, client, events>> /\ issuing' = issuing
  BY DEF Serve, Lookup, Answer
<1>2. /\ ASInv' /\ (Server!Reply(c) \/ UNCHANGED Server!vars)
      /\ asking'[c].pc # "idle" /\ asking'[c].raw = asking[c].raw
      /\ \A d \in Client \ {c} : asking'[d] = asking[d]
  BY LookupTracked, AnswerTracked DEF Serve, Inv
<1>3. ClientOK(c) /\ events' \in 0..MaxEvents /\ DOMAIN client' = Client /\ engine' \in Engines
  BY <1>1 DEF Inv
<1>4. ClientOK(c)'
  BY <1>1, <1>2, <1>3 DEF ClientOK
<1>5. \A d \in Client \ {c} : ClientOK(d)'
  BY <1>1, <1>2, SameCall, Bystander DEF Inv
<1>6. Inv'
  BY <1>2, <1>3, <1>4, <1>5 DEF Inv
<1> QED BY <1>2, <1>6 DEF Server!Next

LEMMA IntrospectionFailsStep ==
  ASSUME Inv, NEW c \in Client, IntrospectionFails(c)
  PROVE  Inv' /\ [Server!Next]_(Server!vars)
<1>1. /\ client[c].pc = "asking" /\ Leave(c) /\ Deny(c, "invalid_token", NoACR, 0)
      /\ engine' = engine /\ issuing' = issuing
  BY DEF IntrospectionFails, Leave
<1>2. events' \in 0..MaxEvents
  BY SMT, MiddlewareAssumption DEF IntrospectionFails, Disturb, Inv
<1>3. /\ ASInv' /\ (Server!Leave(c) \/ UNCHANGED Server!vars)
      /\ \A d \in Client \ {c} : asking'[d] = asking[d]
  BY <1>1, LeaveTracked DEF Inv
<1>4. Inv'
  BY <1>1, <1>2, <1>3, DenyStep
<1> QED BY <1>3, <1>4 DEF Server!Next

LEMMA DecideStep ==
  ASSUME Inv, NEW c \in Client, Decide(c)
  PROVE  Inv' /\ UNCHANGED Server!vars
<1>1. /\ client[c].pc = "asking" /\ asking[c].pc = "answered"
      /\ UNCHANGED <<now, tokens, issuing, asking, engine, events>> /\ UNCHANGED asVars
  BY DEF Decide, asVars
<1>2. ASInv' /\ ClientOK(c) /\ events' \in 0..MaxEvents
  BY <1>1, ServerUntouched DEF Inv
<1>3. UNCHANGED Server!vars
  BY <1>1, Stutter
<1>4. CASE Deny(c, "invalid_token", NoACR, 0)
  BY <1>1, <1>2, <1>3, <1>4, DenyStep
<1>5. CASE asking[c].answer /\ Judge(c)
  <2>1. TRUE \in asking'[c].truths
    <3>1. asking[c].answer \in asking[c].truths /\ asking[c].answer \in BOOLEAN
      BY <1>1, CallFields DEF Inv, ASInv, Tracked, CallTracked
    <3>2. asking[c].answer = TRUE
      BY <1>5, <3>1
    <3> QED BY <1>1, <3>1, <3>2
  <2>2. CASE engine = NoEngine
    <3>1. client' = [client EXCEPT ![c] = At(c, "served")]
      BY <1>5, <2>2 DEF Judge
    <3>2. LET k == client'[c] IN
          /\ k.pc = "served" /\ k.token = client[c].token /\ k.proof = client[c].proof
          /\ k.reply = client[c].reply /\ k.run \in Seq(Config) /\ k.seen = client[c].seen
      BY <3>1, AtFields DEF Inv
    <3>3. client[c].seen = {NoEngine}
      BY <1>1, <1>2, <2>2 DEF ClientOK
    <3>4. ClientOK(c)'
      BY <1>1, <1>2, <2>1, <3>2, <3>3 DEF ClientOK
    <3> QED BY <1>1, <1>2, <1>3, <3>1, <3>4, OwnStep, SameCall
  <2>3. CASE engine # NoEngine
    <3>1. PICK run, seen : run = <<engine>> /\ seen = client[c].seen
      OBVIOUS
    <3>2. client' = [client EXCEPT ![c] = In(c, run, seen)]
      BY <1>5, <2>3, <3>1 DEF Judge
    <3>3. LET k == client'[c] IN
          /\ k.pc = "deciding" /\ k.token = client[c].token /\ k.proof = client[c].proof
          /\ k.reply = client[c].reply /\ k.run = run /\ k.seen = seen
      <4>1. client'[c] = In(c, run, seen)
        BY <3>2 DEF Inv
      <4> QED BY SMT, <4>1 DEF In, State
    <3>4. engine \in Config /\ engine \in seen
      BY <1>1, <1>2, <2>3, <3>1 DEF ClientOK, Inv, Engines
    <3>5. /\ run \in Seq(Config) /\ run # <<>> /\ Len(run) = 1 /\ run[Len(run)] = engine
          /\ \A m \in 1..Len(run) : m = 1
      BY SMT, <3>1, <3>4
    <3>6. \A m \in 1..Len(run) : run[m] \in seen
      BY <3>4, <3>5
    <3>7. ClientOK(c)'
      BY <1>1, <1>2, <2>1, <3>1, <3>3, <3>4, <3>5, <3>6 DEF ClientOK
    <3> QED BY <1>1, <1>2, <1>3, <3>2, <3>7, OwnStep, SameCall
  <2> QED BY <2>2, <2>3
<1> QED BY <1>4, <1>5 DEF Decide

\* The decision of Evaluate over the configurations that were installed.
LEMMA AllowedOut ==
  ASSUME Inv, NEW c \in Client, client[c].pc = "deciding",
         NEW q, q = PolicyRequest(c, client[c].token.acr),
         NEW out \in Outcomes(client[c].run, q, NoPolicy), out.reason = "allowed"
  PROVE  Authorized(client[c].seen, q, NoPolicy)
<1>1. PICK run : run = client[c].run
  OBVIOUS
<1>2. run \in Seq(Config) /\ \A m \in 1..Len(run) : run[m] \in client[c].seen
  BY <1>1 DEF Inv, ClientOK
<1>3. Len(run) \in Nat /\ \A m \in 1..Len(run) : run[m] \in Config
  BY SMT, <1>2
<1>4. \A m \in 1..Len(run) : WellFormed(run[m])
  BY <1>3, MiddlewareAssumption
<1>5. q.authAge \in Int
  BY SMT DEF PolicyRequest
<1> QED BY <1>1, <1>2, <1>3, <1>4, <1>5, AllowedIsAuthorized

\* The request is lost, whatever the others do.
LEMMA LostOK ==
  ASSUME NEW c \in Client, ClientOK(c), client[c].pc \in {"sent", "asking", "deciding"},
         client'[c] = At(c, "lost"), UNCHANGED <<issuing, asking>>
  PROVE  ClientOK(c)'
<1>1. LET k == client'[c] IN
      /\ k.pc = "lost" /\ k.token = client[c].token /\ k.proof = client[c].proof
      /\ k.reply = client[c].reply /\ k.run \in Seq(Config) /\ k.seen = client[c].seen
  <2>1. PICK pc : pc = "lost"
    OBVIOUS
  <2>2. client'[c] = At(c, pc)
    BY <2>1
  <2>3. PICK k : k = At(c, pc)
    OBVIOUS
  <2>4. /\ k.pc = pc /\ k.token = client[c].token /\ k.proof = client[c].proof
        /\ k.reply = client[c].reply /\ k.run \in Seq(Config) /\ k.seen = client[c].seen
    BY <2>3, AtFields
  <2> QED BY <2>1, <2>2, <2>3, <2>4
<1> QED BY <1>1 DEF ClientOK

LEMMA PanicStep ==
  ASSUME Inv, ASInv', NEW c \in Client, client[c].pc = "deciding", Panic(c),
         UNCHANGED <<issuing, asking, events>>
  PROVE  Inv'
<1>1. events' \in 0..MaxEvents
  BY DEF Inv
<1>2. CASE client' = [client EXCEPT ![c] = At(c, "lost")] /\ UNCHANGED engine
  <2>1. client'[c] = At(c, "lost") /\ ClientOK(c)
    BY <1>2 DEF Inv
  <2>2. ClientOK(c)'
    BY <2>1, LostOK
  <2> QED BY <1>1, <1>2, <2>2, OwnStep, SameCall
<1>3. CASE /\ client' = [d \in Client |->
                IF client[d].pc \in {"sent", "asking", "deciding"}
                THEN At(d, "lost") ELSE client[d]]
           /\ engine' \in Config
  <2>1. ASSUME NEW d \in Client PROVE ClientOK(d)'
    <3>1. ClientOK(d)
      BY DEF Inv
    <3>2. CASE client[d].pc \in {"sent", "asking", "deciding"}
      BY <1>3, <3>1, <3>2, LostOK
    <3>3. CASE client[d].pc \notin {"sent", "asking", "deciding"}
      <4>1. client'[d] = client[d]
        BY <1>3, <3>3
      <4> QED BY <3>1, <3>3, <4>1 DEF ClientOK
    <3> QED BY <3>2, <3>3
  <2>2. DOMAIN client' = Client /\ engine' \in Engines
    BY <1>3 DEF Engines
  <2> QED BY <1>1, <2>1, <2>2 DEF Inv
<1> QED BY <1>2, <1>3 DEF Panic

LEMMA EvaluateStep ==
  ASSUME Inv, NEW c \in Client, Evaluate(c)
  PROVE  Inv' /\ UNCHANGED Server!vars
<1>1. PICK q : q = PolicyRequest(c, client[c].token.acr)
  OBVIOUS
<1>2. /\ client[c].pc = "deciding" /\ UNCHANGED asVars
      /\ UNCHANGED <<now, tokens, issuing, asking, events>>
  BY DEF Evaluate, asVars
<1>3. PICK out \in Outcomes(client[c].run, q, NoPolicy) :
        \/ /\ out.reason = "allowed"
           /\ client' = [client EXCEPT ![c] = At(c, "served")]
           /\ UNCHANGED engine
        \/ Panic(c)
        \/ /\ Deny(c, "insufficient_user_authentication", out.policy.acr, out.policy.maxAge)
           /\ UNCHANGED engine
  BY <1>1 DEF Evaluate
<1>4. ASInv' /\ ClientOK(c) /\ events' \in 0..MaxEvents
  BY <1>2, ServerUntouched DEF Inv
<1>5. UNCHANGED Server!vars
  BY <1>2, Stutter
<1>6. CASE Deny(c, "insufficient_user_authentication", out.policy.acr, out.policy.maxAge)
             /\ UNCHANGED engine
  BY <1>2, <1>4, <1>5, <1>6, DenyStep
<1>7. CASE Panic(c)
  BY <1>2, <1>4, <1>5, <1>7, PanicStep
<1>8. CASE /\ out.reason = "allowed" /\ client' = [client EXCEPT ![c] = At(c, "served")]
           /\ UNCHANGED engine
  <2>1. LET k == client'[c] IN
        /\ k.pc = "served" /\ k.token = client[c].token /\ k.proof = client[c].proof
        /\ k.reply = client[c].reply /\ k.run \in Seq(Config) /\ k.seen = client[c].seen
    BY <1>8, AtFields DEF Inv
  <2>2. Authorized(client[c].seen, q, NoPolicy)
    BY <1>1, <1>2, <1>8, AllowedOut
  <2>3. Authorized(client'[c].seen, PolicyRequest(c, client'[c].token.acr), NoPolicy)
    BY <1>1, <2>1, <2>2
  <2>4. ClientOK(c)'
    BY <1>2, <1>4, <2>1, <2>3 DEF ClientOK, PolicyRequest
  <2> QED BY <1>2, <1>4, <1>5, <1>8, <2>4, OwnStep, SameCall
<1> QED BY <1>3, <1>6, <1>7, <1>8

\* The client gives up its call and begins anew.
LEMMA RestartStep ==
  ASSUME Inv, NEW c \in Client, NEW pc \in {"start", "ready", "refused"}, NEW wish,
         NEW token \in Raw \cup {NoToken}, Leave(c), client[c].pc # "issuing",
         client' = [client EXCEPT ![c] =
           Between(c, pc, wish, token)],
         UNCHANGED <<engine, events>>
  PROVE  Inv' /\ [Server!Next]_(Server!vars)
<1> DEFINE k == Between(c, pc, wish, token)
<1>1. /\ k.pc = pc /\ k.token = token /\ k.proof = client[c].proof
      /\ k.reply = NoReply /\ k.run = <<>> /\ k.seen = {}
  BY SMT DEF Between, State
<1>2. client'[c] = k /\ ClientOK(c) /\ events' \in 0..MaxEvents /\ issuing' = issuing
  BY DEF Inv, Leave
<1> HIDE DEF k
<1>3. /\ ASInv' /\ (Server!Leave(c) \/ UNCHANGED Server!vars) /\ asking'[c] = Quiet
      /\ \A d \in Client \ {c} : asking'[d] = asking[d]
  BY LeaveTracked DEF Inv
<1>4. ClientOK(c)'
  BY <1>1, <1>2, <1>3, NoRun DEF ClientOK
<1>5. Inv'
  BY <1>2, <1>3, <1>4, OwnStep, SameCall DEF k
<1> QED BY <1>3, <1>5 DEF Server!Next

LEMMA FollowStep ==
  ASSUME Inv, NEW c \in Client, Follow(c)
  PROVE  Inv' /\ [Server!Next]_(Server!vars)
<1> DEFINE k == client[c]
           error == Parameter(k.reply, "error", "none")
           wish == IF error = "insufficient_user_authentication"
                   THEN Parameter(k.reply, "acr_values", NoACR) ELSE k.wish
           pc == IF <<"code", "PermissionDenied">> \in k.reply THEN "refused" ELSE "start"
           token == IF pc = "refused" THEN k.token ELSE NoToken
<1>1. /\ k.pc = "answered" /\ Leave(c) /\ UNCHANGED <<engine, events>>
      /\ client' = [client EXCEPT ![c] = Between(c, pc, wish, token)]
  BY DEF Follow
<1>2. pc \in {"start", "ready", "refused"}
  OBVIOUS
<1>3. token \in Raw \cup {NoToken}
  BY DEF Inv, ClientOK
<1> HIDE DEF error, wish, pc, token
<1> QED BY <1>1, <1>2, <1>3, RestartStep

LEMMA AgainStep ==
  ASSUME Inv, NEW c \in Client, Again(c) \/ Retry(c)
  PROVE  Inv' /\ [Server!Next]_(Server!vars)
<1>1. client[c].token \in Raw \cup {NoToken}
  BY DEF Inv, ClientOK
<1> QED BY <1>1, RestartStep DEF Again, Retry

LEMMA ReloadStep ==
  ASSUME Inv, NEW cfg \in Config, Reload(cfg)
  PROVE  Inv' /\ UNCHANGED Server!vars
<1>1. UNCHANGED <<now, tokens, issuing, asking>> /\ UNCHANGED asVars
  BY DEF Reload, asVars
<1>2. ASInv' /\ events' \in 0..MaxEvents
  BY SMT, <1>1, ServerUntouched, MiddlewareAssumption DEF Reload, Disturb, Inv
<1>3. engine' \in Engines
  BY DEF Reload, Engines
<1>4. engine' = cfg /\ engine # NoEngine /\ cfg # NoEngine
  BY MiddlewareAssumption DEF Reload
<1>5. ASSUME NEW c \in Client PROVE ClientOK(c)'
  <2> DEFINE k == client[c]
  <2>0. PICK seen : seen = k.seen \cup {cfg}
    OBVIOUS
  <2>1. ClientOK(c) /\ seen \subseteq Engines /\ cfg \in seen
    BY <2>0 DEF Inv, ClientOK, Engines
  <2>2. CASE k.pc \in {"sent", "asking"}
    <3>1. client'[c] = State(k.pc, k.wish, k.token, k.proof, k.reply, <<>>, seen)
      BY <2>0, <2>2 DEF Reload
    <3>2. LET k1 == client'[c] IN
          /\ k1.pc = k.pc /\ k1.token = k.token /\ k1.proof = k.proof
          /\ k1.reply = k.reply /\ k1.run = <<>> /\ k1.seen = seen
      BY SMT, <3>1 DEF State
    <3> QED BY <1>1, <1>4, <2>1, <2>2, <3>2, NoRun DEF ClientOK
  <2>3. CASE k.pc = "deciding"
    <3>1. PICK run, longer : run = k.run /\ longer = Append(run, cfg)
      OBVIOUS
    <3>2. client'[c] = In(c, longer, seen)
      BY <2>0, <2>3, <3>1 DEF Reload
    <3>3. LET k1 == client'[c] IN
          /\ k1.pc = "deciding" /\ k1.token = k.token /\ k1.proof = k.proof
          /\ k1.reply = k.reply /\ k1.run = longer /\ k1.seen = seen
      BY SMT, <3>2 DEF In, State
    <3>4. run \in Seq(Config)
      BY <2>1, <3>1 DEF ClientOK
    <3>5. /\ longer \in Seq(Config) /\ longer # <<>> /\ Len(longer) = Len(run) + 1
          /\ longer[Len(run) + 1] = cfg /\ \A m \in 1..Len(run) : longer[m] = run[m]
      BY SMT, <3>1, <3>4, AppendProperties
    <3>6. \A m \in 1..Len(longer) : m \in 1..Len(run) \/ m = Len(run) + 1
      BY SMT, <3>4, <3>5
    <3>7. \A m \in 1..Len(longer) : longer[m] \in seen
      <4>1. \A m \in 1..Len(run) : run[m] \in k.seen
        BY <2>1, <2>3, <3>1 DEF ClientOK
      <4> QED BY <2>0, <3>5, <3>6, <4>1
    <3> QED BY <1>1, <1>4, <2>1, <2>3, <3>3, <3>5, <3>7 DEF ClientOK
  <2>4. CASE k.pc \notin {"sent", "asking", "deciding"}
    <3>1. client'[c] = k
      BY <2>4 DEF Reload
    <3> QED BY <1>1, <2>1, <2>4, <3>1 DEF ClientOK
  <2> QED BY <2>2, <2>3, <2>4
<1>6. DOMAIN client' = Client
  BY DEF Reload
<1>7. Inv'
  BY <1>2, <1>3, <1>5, <1>6 DEF Inv
<1> QED BY <1>1, <1>7, Stutter

\* A revocation and a tick touch no client's own state.
LEMMA OutsideStep ==
  ASSUME Inv, ASInv', \A c \in Client : KeepsCall(c),
         UNCHANGED <<issuing, engine, client>>, events' \in 0..MaxEvents
  PROVE  Inv'
<1>1. \A c \in Client : ClientOK(c)'
  BY Bystander DEF Inv
<1> QED BY <1>1 DEF Inv

LEMMA RevokeStep ==
  ASSUME Inv, NEW raw \in Raw, Revoke(raw)
  PROVE  Inv' /\ Server!Change
<1>1. HandleRevoke(raw) /\ UNCHANGED <<issuing, engine, client>>
  BY DEF Revoke, HandleRevoke
<1>2. events' \in 0..MaxEvents
  BY SMT, MiddlewareAssumption DEF Revoke, Disturb, Inv
<1>3. ASInv' /\ Server!Change /\ \A c \in Client : KeepsCall(c)
  BY <1>1, HandleRevokeTracked DEF Inv
<1> QED BY <1>1, <1>2, <1>3, OutsideStep

LEMMA TickStep ==
  ASSUME Inv, Tick
  PROVE  Inv' /\ Server!Change
<1>1. ASTick /\ UNCHANGED <<issuing, engine, client, events>>
  BY DEF Tick, ASTick
<1>2. events' \in 0..MaxEvents
  BY <1>1 DEF Inv
<1>3. ASInv' /\ Server!Change /\ \A c \in Client : KeepsCall(c)
  BY <1>1, ASTickTracked DEF Inv
<1> QED BY <1>1, <1>2, <1>3, OutsideStep

-----------------------------------------------------------------------------
LEMMA InvInit == Init => Inv /\ Server!Init
<1> SUFFICES ASSUME Init PROVE Inv /\ Server!Init
  OBVIOUS
<1>1. /\ now = 0 /\ tokens = [raw \in Raw |-> NoEntry]
      /\ issuing = [c \in Client |-> NoToken] /\ asking = [c \in Client |-> Quiet]
      /\ 0 \in 0..MaxTime
  BY SMT, LocalASAssumption DEF Init, ASInit
<1>2. Quiet \in Call /\ Quiet.pc = "idle"
  BY SMT, LocalASAssumption, NotHeldType DEF Quiet, Asking, Call
<1>3. ASTypeOK
  BY <1>1, <1>2 DEF ASTypeOK, Call
<1>4. Tracked
  BY <1>1, <1>2 DEF Tracked, CallTracked, IsOpen
<1>5. DOMAIN client = Client /\ engine \in Engines /\ events \in 0..MaxEvents
  BY SMT, MiddlewareAssumption DEF Init
<1>6. ASSUME NEW c \in Client PROVE ClientOK(c)
  <2>1. PICK token \in {NoToken, Stray} :
          client[c] = State("ready", NoACR, token, NoProof, NoReply, <<>>, {})
    BY DEF Init
  <2>2. /\ client[c].pc = "ready" /\ client[c].token = token /\ client[c].proof = NoProof
        /\ client[c].reply = NoReply /\ client[c].run = <<>> /\ client[c].seen = {}
    BY SMT, <2>1, StateFields
  <2>3. NoProof \in Proof /\ token \in Raw \cup {NoToken}
    BY <1>1 DEF NoProof, Proof, Raw
  <2> QED BY <1>1, <2>2, <2>3, NoRun DEF ClientOK
<1>7. [raw \in Raw |-> Active(raw)] = [raw \in Raw |-> FALSE]
  <2>1. \A raw \in Raw : ~Active(raw)
    BY <1>1, EntryFacts DEF Active, ActiveIn
  <2> QED BY <2>1 DEF Active, ActiveIn
<1>8. [c \in Client |-> CallOf(c)] = [c \in Client |-> [state |-> "none"]]
  BY <1>1, <1>2 DEF CallOf, IsOpen
<1> QED BY <1>3, <1>4, <1>5, <1>6, <1>7, <1>8 DEF Inv, ASInv, Server!Init, Server!NoCall

LEMMA InvNext == Inv /\ [Next]_vars => Inv' /\ [Server!Next]_(Server!vars)
<1> SUFFICES ASSUME Inv, [Next]_vars PROVE Inv' /\ [Server!Next]_(Server!vars)
  OBVIOUS
<1>1. ASSUME NEW c \in Client, Progress(c) PROVE Inv' /\ [Server!Next]_(Server!vars)
  BY <1>1, RequestTokenStep, ReceiveTokenStep, SendStep, AuthenticateStep, ServeStep,
     DecideStep, EvaluateStep, AgainStep, FollowStep DEF Progress, Server!Next
<1>2. ASSUME NEW c \in Client, SendOldProof(c) \/ IntrospectionFails(c) \/ Again(c)
      PROVE  Inv' /\ [Server!Next]_(Server!vars)
  BY <1>2, SendStep, IntrospectionFailsStep, AgainStep
<1>3. ASSUME NEW cfg \in Config, Reload(cfg) PROVE Inv' /\ UNCHANGED Server!vars
  BY <1>3, ReloadStep
<1>4. ASSUME NEW raw \in Raw, Revoke(raw) PROVE Inv' /\ Server!Change
  BY <1>4, RevokeStep
<1>5. ASSUME Tick PROVE Inv' /\ Server!Change
  BY <1>5, TickStep
<1>6. ASSUME UNCHANGED vars PROVE Inv' /\ UNCHANGED Server!vars
  <2>1. UNCHANGED <<now, tokens, issuing, asking>> /\ UNCHANGED asVars
    BY <1>6 DEF vars, asVars
  <2>2. ASInv' /\ UNCHANGED <<engine, client, events>>
    BY <1>6, <2>1, ServerUntouched DEF Inv, vars
  <2>3. Inv'
    BY <2>1, <2>2, OutsideStep, SameCall DEF Inv
  <2> QED BY <2>1, <2>3, Stutter
<1> QED BY <1>1, <1>2, <1>3, <1>4, <1>5, <1>6 DEF Next, Server!Next

\* Type correctness of a protected service with its server and its clients,
\* for any number of clients, users and configurations: a request keeps the
\* call it made, and an answer is there exactly when the middleware gave one.
THEOREM TypeCorrect == Spec => []TypeOK
<1>1. Init => Inv
  BY InvInit
<1>2. Inv /\ [Next]_vars => Inv'
  BY InvNext
<1>3. Inv => TypeOK
  BY InvImplies
<1> QED BY <1>1, <1>2, <1>3, PTL DEF Spec

\* The middleware serves nobody on old news: the token of a request its
\* handler answers was active at the server at some instant since the request
\* was sent, and is authorized by the policies installed since then, even if
\* they were reloaded in the middle of their evaluation.
THEOREM ServedIsJustified == Spec => []ServedJustified
<1>1. Init => Inv
  BY InvInit
<1>2. Inv /\ [Next]_vars => Inv'
  BY InvNext
<1>3. Inv => ServedJustified
  BY InvImplies
<1> QED BY <1>1, <1>2, <1>3, PTL DEF Spec

\* The devkit's server implements the abstract one: whatever handleIntrospect
\* answers was true at some instant of the call, although it reads the entry
\* without the lock.
THEOREM ServerImplementsAuthServer == Spec => ImplementsAuthServer
<1>1. Init => Inv /\ Server!Init
  BY InvInit
<1>2. Inv /\ [Next]_vars => Inv' /\ [Server!Next]_(Server!vars)
  BY InvNext
<1> QED BY <1>1, <1>2, PTL DEF Spec, ImplementsAuthServer, Server!Spec
=============================================================================
