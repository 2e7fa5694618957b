------------------------ MODULE JWTValidator_proofs -------------------------
(***************************************************************************)
(* Proofs about the JWKS cache.  Neither property is inductive.  Converged *)
(* needs what is true of answers that are not stored yet (Timely) and of   *)
(* the cache since its last store (Faithful); NotFoundOnlyIfOvertaken      *)
(* needs that a key published since a call began is in every answer given  *)
(* since then (Lasting).                                                   *)
(***************************************************************************)
EXTENDS JWTValidator, WellFoundedInduction, TLAPS

\* Zenon proves a leaf unless it names SMT, for arithmetic and records.
USE ZenonT(30)

USE ValidatorAssumption

\* A non-empty set of positions has a last one.
LEMMA LastExists ==
  ASSUME NEW n \in Nat, NEW S, S \subseteq 1..n, S # {}
  PROVE  \E i \in S : \A j \in S : j <= i
<1> DEFINE T == {n - i : i \in S}
<1>1. T \subseteq Nat /\ T # {}
  <2>1. \A i \in S : i \in 1..n
    OBVIOUS
  <2>2. \A i \in S : n - i \in Nat
    BY SMT, <2>1
  <2> QED BY <2>2
<1>2. PICK m \in T : \A t \in T : ~(<<t, m>> \in OpToRel(<, Nat))
  <2> HIDE DEF T
  <2> QED BY <1>1, WFMin, NatLessThanWellFounded
<1>3. PICK i \in S : m = n - i
  BY <1>2
<1>4. \A t \in T : ~(t < m)
  <2> HIDE DEF T
  <2> QED BY <1>1, <1>2 DEF OpToRel
<1>5. \A j \in S : n - j \in T
  OBVIOUS
<1>6. \A j \in S : ~(n - j < n - i)
  BY <1>3, <1>4, <1>5
<1> QED BY SMT, <1>3, <1>6

\* fetchJWKS builds a map from kids to keys.
LEMMA KeysType ==
  ASSUME NEW d \in Documents
  PROVE  Keys(d) \in KeyMap
<1>1. d \in Seq(JWK) /\ Len(d) \in Nat /\ \A i \in 1..Len(d) : d[i] \in JWK
  BY SMT
<1>2. SUFFICES ASSUME NEW k \in Kid PROVE Keys(d)[k] \in Key \cup {NoKey}
  BY DEF Keys, KeyMap
<1> DEFINE at == {i \in 1..Len(d) : d[i].kid = k /\ d[i].supported}
<1>3. Keys(d)[k] = IF at = {} THEN NoKey ELSE d[CHOOSE i \in at : \A j \in at : j <= i].key
  BY DEF Keys
<1>4. CASE at # {}
  <2>1. \E i \in at : \A j \in at : j <= i
    <3>1. at \subseteq 1..Len(d)
      OBVIOUS
    <3> HIDE DEF at
    <3> QED BY <1>1, <1>4, <3>1, LastExists
  <2>2. (CHOOSE i \in at : \A j \in at : j <= i) \in at
    <3> HIDE DEF at
    <3> QED BY <2>1
  <2> DEFINE m == CHOOSE i \in at : \A j \in at : j <= i
  <2>3. m \in 1..Len(d)
    BY <2>2
  <2> HIDE DEF m
  <2>4. d[m].key \in Key
    BY <1>1, <2>3 DEF JWK
  <2> QED BY <1>3, <1>4, <2>4 DEF m
<1> QED BY <1>3, <1>4

\* The value of a call, field by field.
Is(e, pc, token, snap, at, steady, older, overtaken) ==
  /\ e \in CallState
  /\ e.pc = pc
  /\ e.token = token
  /\ e.snap = snap
  /\ e.at = at
  /\ e.steady = steady
  /\ e.older = older
  /\ e.overtaken = overtaken

\* Assigning one field of a call keeps its type and the other fields.
LEMMA SetPc ==
  ASSUME NEW e \in CallState, NEW p \in Pcs, NEW f, f = [e EXCEPT !.pc = p]
  PROVE  Is(f, p, e.token, e.snap, e.at, e.steady, e.older, e.overtaken)
BY DEF CallState, Is

LEMMA SetSnap ==
  ASSUME NEW e \in CallState, NEW s \in KeyMap, NEW f, f = [e EXCEPT !.snap = s]
  PROVE  Is(f, e.pc, e.token, s, e.at, e.steady, e.older, e.overtaken)
BY DEF CallState, Is

LEMMA SetAt ==
  ASSUME NEW e \in CallState, NEW n \in Nat, NEW f, f = [e EXCEPT !.at = n]
  PROVE  Is(f, e.pc, e.token, e.snap, n, e.steady, e.older, e.overtaken)
BY DEF CallState, Is

LEMMA SetSteady ==
  ASSUME NEW e \in CallState, NEW b \in BOOLEAN, NEW f, f = [e EXCEPT !.steady = b]
  PROVE  Is(f, e.pc, e.token, e.snap, e.at, b, e.older, e.overtaken)
BY DEF CallState, Is

LEMMA SetOlder ==
  ASSUME NEW e \in CallState, NEW S \in SUBSET Caller, NEW f, f = [e EXCEPT !.older = S]
  PROVE  Is(f, e.pc, e.token, e.snap, e.at, e.steady, S, e.overtaken)
BY DEF CallState, Is

LEMMA SetOvertaken ==
  ASSUME NEW e \in CallState, NEW b \in BOOLEAN, NEW f, f = [e EXCEPT !.overtaken = b]
  PROVE  Is(f, e.pc, e.token, e.snap, e.at, e.steady, e.older, b)
BY DEF CallState, Is

\* A new call.
LEMMA NewCall ==
  ASSUME NEW p \in Pcs, NEW t \in Token \cup {NoToken}
  PROVE  Is(Call(p, t), p, t, [k \in Kid |-> NoKey], 0, FALSE, {}, FALSE)
<1>1. [k \in Kid |-> NoKey] \in KeyMap
  BY DEF KeyMap
<1>2. Call(p, t) \in CallState
  BY <1>1 DEF Call, CallState
<1> QED BY <1>2 DEF Call, Is

-----------------------------------------------------------------------------
\* What each action makes of the calls.
LEMMA ValidateCalls ==
  ASSUME TypeOK, NEW c \in Caller, NEW t \in Token, Validate(c, t)
  PROVE  /\ call' \in [Caller -> CallState]
         /\ \A d \in Caller \ {c} : call'[d] = call[d]
         /\ call[c].pc \in Done
         /\ Is(call'[c], "lookup", t, [k \in Kid |-> NoKey], 0, Keys(doc)[t.kid] = t.key,
               {d \in Caller : call[d].pc = "store"}, FALSE)
<1> DEFINE e == Call("lookup", t)
           st == Keys(doc)[t.kid] = t.key
           ol == {d \in Caller : call[d].pc = "store"}
           f == [e EXCEPT !.steady = st]
           g == [f EXCEPT !.older = ol]
<1>1. call \in [Caller -> CallState] /\ call' = [call EXCEPT ![c] = g] /\ call[c].pc \in Done
  BY DEF Validate, TypeOK
<1>2. st \in BOOLEAN /\ ol \in SUBSET Caller
  OBVIOUS
<1>3. Is(e, "lookup", t, [k \in Kid |-> NoKey], 0, FALSE, {}, FALSE)
  BY NewCall DEF Pcs
<1> HIDE DEF e, st, ol
<1>4. Is(f, e.pc, e.token, e.snap, e.at, st, e.older, e.overtaken)
  <2>1. e \in CallState
    BY <1>3 DEF Is
  <2> QED BY <1>2, <2>1, SetSteady
<1> HIDE DEF f
<1>5. Is(g, f.pc, f.token, f.snap, f.at, f.steady, ol, f.overtaken)
  <2>1. f \in CallState
    BY <1>4 DEF Is
  <2> QED BY <1>2, <2>1, SetOlder
<1> HIDE DEF g
<1>6. Is(g, "lookup", t, [k \in Kid |-> NoKey], 0, st, ol, FALSE)
  BY <1>3, <1>4, <1>5 DEF Is
<1>7. call' \in [Caller -> CallState] /\ call'[c] = g /\ \A d \in Caller \ {c} : call'[d] = call[d]
  BY <1>1, <1>6 DEF Is
<1> QED BY <1>1, <1>6, <1>7 DEF st, ol

LEMMA AnswerCalls ==
  ASSUME TypeOK, NEW c \in Caller, Answer(c)
  PROVE  /\ call' \in [Caller -> CallState]
         /\ \A d \in Caller \ {c} : call'[d] = call[d]
         /\ Is(call'[c], "store", call[c].token, Keys(doc), now,
               call[c].steady, call[c].older, call[c].overtaken)
<1> DEFINE e == call[c]
           f == [e EXCEPT !.pc = "store"]
           g == [f EXCEPT !.snap = Keys(doc)]
           h == [g EXCEPT !.at = now]
<1>1. call \in [Caller -> CallState] /\ call' = [call EXCEPT ![c] = h]
  BY DEF Answer, TypeOK
<1>2. e \in CallState /\ Keys(doc) \in KeyMap /\ now \in Nat /\ "store" \in Pcs
  BY KeysType DEF TypeOK, Pcs
<1> HIDE DEF e
<1>3. Is(f, "store", e.token, e.snap, e.at, e.steady, e.older, e.overtaken)
  BY <1>2, SetPc
<1> HIDE DEF f
<1>4. Is(g, f.pc, f.token, Keys(doc), f.at, f.steady, f.older, f.overtaken)
  BY SMT, <1>2, <1>3, SetSnap DEF Is
<1> HIDE DEF g
<1>5. Is(h, g.pc, g.token, g.snap, now, g.steady, g.older, g.overtaken)
  BY SMT, <1>2, <1>4, SetAt DEF Is
<1> HIDE DEF h
<1>6. Is(h, "store", e.token, Keys(doc), now, e.steady, e.older, e.overtaken)
  BY <1>3, <1>4, <1>5 DEF Is
<1>7. call' \in [Caller -> CallState] /\ call'[c] = h /\ \A d \in Caller \ {c} : call'[d] = call[d]
  BY <1>1, <1>6 DEF Is
<1> QED BY <1>6, <1>7 DEF e

LEMMA OvertakeCalls ==
  ASSUME call \in [Caller -> CallState], NEW c \in Caller, NEW d \in Caller
  PROVE  Is(Overtake(c)[d], call[d].pc, call[d].token, call[d].snap, call[d].at,
            call[d].steady, call[d].older \ {c},
            call[d].overtaken \/ (call[d].pc = "retry" /\ c \in call[d].older))
<1> DEFINE e == call[d]
           ol == e.older \ {c}
           ov == e.overtaken \/ (e.pc = "retry" /\ c \in e.older)
           f == [e EXCEPT !.older = ol]
           g == [f EXCEPT !.overtaken = ov]
<1>1. e \in CallState /\ Overtake(c)[d] = [e EXCEPT !.older = ol, !.overtaken = f.overtaken \/ (e.pc = "retry" /\ c \in e.older)]
  BY DEF Overtake
<1>2. ol \in SUBSET Caller /\ ov \in BOOLEAN
  BY <1>1 DEF CallState
<1> HIDE DEF e, ol
<1>3. Is(f, e.pc, e.token, e.snap, e.at, e.steady, ol, e.overtaken)
  BY <1>1, <1>2, SetOlder
<1>4. Overtake(c)[d] = g
  BY <1>1, <1>3 DEF Is
<1> HIDE DEF f, ov
<1>5. Is(g, f.pc, f.token, f.snap, f.at, f.steady, f.older, ov)
  BY SMT, <1>2, <1>3, SetOvertaken DEF Is
<1> HIDE DEF g
<1>6. Is(g, e.pc, e.token, e.snap, e.at, e.steady, ol, ov)
  BY <1>3, <1>5 DEF Is
<1> QED BY <1>4, <1>6 DEF e, ol, ov

LEMMA StoreCalls ==
  ASSUME TypeOK, NEW c \in Caller, Store(c)
  PROVE  /\ call' \in [Caller -> CallState]
         /\ \A d \in Caller \ {c} :
              Is(call'[d], call[d].pc, call[d].token, call[d].snap, call[d].at,
                 call[d].steady, call[d].older \ {c},
                 call[d].overtaken \/ (call[d].pc = "retry" /\ c \in call[d].older))
         /\ call[c].token = NoToken => call'[c] = Idle
         /\ call[c].token # NoToken =>
              Is(call'[c], "retry", call[c].token, [k \in Kid |-> NoKey], call[c].at,
                 call[c].steady, call[c].older \ {c}, call[c].overtaken)
<1> DEFINE O == Overtake(c)
           e == O[c]
           none == [k \in Kid |-> NoKey]
           f == [e EXCEPT !.pc = "retry"]
           g == [f EXCEPT !.snap = none]
<1>1. call \in [Caller -> CallState] /\ call' = [O EXCEPT ![c] = Stored(O[c])] /\ call[c].pc = "store"
  BY DEF Store, TypeOK
<1>2. \A d \in Caller :
        Is(O[d], call[d].pc, call[d].token, call[d].snap, call[d].at,
           call[d].steady, call[d].older \ {c},
           call[d].overtaken \/ (call[d].pc = "retry" /\ c \in call[d].older))
  BY <1>1, OvertakeCalls
<1>3. O \in [Caller -> CallState]
  <2>1. \A d \in Caller : O[d] \in CallState
    BY <1>2 DEF Is
  <2>2. O = [d \in Caller |-> O[d]]
    BY DEF Overtake
  <2> HIDE DEF O
  <2> QED BY <2>1, <2>2
<1>4. Is(e, "store", call[c].token, call[c].snap, call[c].at, call[c].steady,
         call[c].older \ {c}, call[c].overtaken)
  BY SMT, <1>1, <1>2 DEF Is, CallState
<1>5. none \in KeyMap /\ "retry" \in Pcs
  BY DEF KeyMap, Pcs
<1>6. Stored(e) = IF e.token = NoToken THEN Idle ELSE g
  BY DEF Stored
<1> HIDE DEF O, e, none
<1>7. Is(f, "retry", e.token, e.snap, e.at, e.steady, e.older, e.overtaken)
  BY SMT, <1>4, <1>5, SetPc DEF Is
<1> HIDE DEF f
<1>8. Is(g, f.pc, f.token, none, f.at, f.steady, f.older, f.overtaken)
  BY SMT, <1>5, <1>7, SetSnap DEF Is
<1> HIDE DEF g
<1>9. Is(g, "retry", call[c].token, none, call[c].at, call[c].steady,
         call[c].older \ {c}, call[c].overtaken)
  BY <1>4, <1>7, <1>8 DEF Is
<1>10. Stored(e) \in CallState
  <2>1. Idle \in CallState
    BY NewCall DEF Idle, Is, Pcs
  <2> QED BY <1>6, <1>9, <2>1 DEF Is
<1>11. call' \in [Caller -> CallState] /\ call'[c] = Stored(e) /\ \A d \in Caller \ {c} : call'[d] = O[d]
  BY <1>1, <1>3, <1>10 DEF e
<1>12. call[c].token = e.token
  BY <1>4 DEF Is
<1>13. call[c].token # NoToken => call'[c] = g
  BY <1>6, <1>11, <1>12
<1> QED BY <1>2, <1>6, <1>9, <1>11, <1>12, <1>13 DEF none

LEMMA RotateCalls ==
  ASSUME TypeOK, NEW d \in Documents, Rotate(d)
  PROVE  /\ call' \in [Caller -> CallState]
         /\ \A c \in Caller :
              Is(call'[c], call[c].pc, call[c].token, call[c].snap, call[c].at,
                 call[c].steady /\ (call[c].pc \in Done
                                      \/ Keys(d)[call[c].token.kid] = call[c].token.key),
                 call[c].older, call[c].overtaken)
<1>1. ASSUME NEW c \in Caller
      PROVE  Is(call'[c], call[c].pc, call[c].token, call[c].snap, call[c].at,
                call[c].steady /\ (call[c].pc \in Done
                                     \/ Keys(d)[call[c].token.kid] = call[c].token.key),
                call[c].older, call[c].overtaken)
  <2> DEFINE e == call[c]
             st == e.steady /\ (e.pc \in Done \/ Keys(d)[e.token.kid] = e.token.key)
  <2>1. e \in CallState /\ call'[c] = [e EXCEPT !.steady = st]
    BY DEF Rotate, TypeOK
  <2>2. st \in BOOLEAN
    BY <2>1 DEF CallState
  <2> HIDE DEF e, st
  <2>3. Is(call'[c], e.pc, e.token, e.snap, e.at, st, e.older, e.overtaken)
    BY <2>1, <2>2, SetSteady
  <2> QED BY <2>3 DEF e, st
<1>2. call' = [c \in Caller |-> call'[c]]
  BY DEF Rotate
<1>3. \A c \in Caller : call'[c] \in CallState
  BY <1>1 DEF Is
<1>4. call' \in [Caller -> CallState]
  BY <1>2, <1>3
<1> QED BY <1>1, <1>4

LEMMA RefreshCalls ==
  ASSUME TypeOK, NEW c \in Caller, RefreshKeys(c)
  PROVE  /\ call' \in [Caller -> CallState]
         /\ \A d \in Caller \ {c} : call'[d] = call[d]
         /\ call[c].pc \in Done
         /\ Is(call'[c], "fetch", NoToken, [k \in Kid |-> NoKey], 0, FALSE, {}, FALSE)
<1>1. Is(Call("fetch", NoToken), "fetch", NoToken, [k \in Kid |-> NoKey], 0, FALSE, {}, FALSE)
  BY NewCall DEF Pcs
<1>2. call \in [Caller -> CallState] /\ call' = [call EXCEPT ![c] = Call("fetch", NoToken)]
  BY DEF RefreshKeys, TypeOK
<1>3. Call("fetch", NoToken) \in CallState
  BY <1>1 DEF Is
<1>4. call' \in [Caller -> CallState] /\ call'[c] = Call("fetch", NoToken)
      /\ \A d \in Caller \ {c} : call'[d] = call[d]
  BY <1>2, <1>3
<1> QED BY <1>1, <1>4 DEF RefreshKeys

\* An idle caller.
LEMMA IdleCall == Is(Idle, "idle", NoToken, [k \in Kid |-> NoKey], 0, FALSE, {}, FALSE)
BY NewCall DEF Idle, Pcs

LEMMA FailCalls ==
  ASSUME TypeOK, NEW c \in Caller, Fail(c)
  PROVE  /\ call' \in [Caller -> CallState]
         /\ \A d \in Caller \ {c} : call'[d] = call[d]
         /\ call'[c] = Idle
<1>1. call \in [Caller -> CallState] /\ call' = [call EXCEPT ![c] = Idle] /\ Idle \in CallState
  BY IdleCall DEF Fail, TypeOK, Is
<1> QED BY <1>1

LEMMA LookupCalls ==
  ASSUME TypeOK, NEW c \in Caller, Lookup(c)
  PROVE  /\ call' \in [Caller -> CallState]
         /\ \A d \in Caller \ {c} : call'[d] = call[d]
         /\ \/ call'[c] = Idle
            \/ Is(call'[c], "fetch", call[c].token, call[c].snap, call[c].at,
                  call[c].steady, call[c].older, call[c].overtaken)
<1> DEFINE e == call[c]
           f == [e EXCEPT !.pc = "fetch"]
           r == IF Found(e.token.kid) THEN Idle ELSE f
<1>1. call \in [Caller -> CallState] /\ call' = [call EXCEPT ![c] = r] /\ e \in CallState
  BY DEF Lookup, TypeOK
<1>2. Idle \in CallState /\ "fetch" \in Pcs
  BY IdleCall DEF Is, Pcs
<1> HIDE DEF e
<1>3. Is(f, "fetch", e.token, e.snap, e.at, e.steady, e.older, e.overtaken)
  BY <1>1, <1>2, SetPc
<1>4. r \in CallState /\ (r = Idle \/ r = f)
  BY <1>2, <1>3 DEF Is
<1> HIDE DEF f, r
<1>5. call' \in [Caller -> CallState] /\ call'[c] = r /\ \A d \in Caller \ {c} : call'[d] = call[d]
  BY <1>1, <1>4
<1>6. call'[c] = f => Is(call'[c], "fetch", e.token, e.snap, e.at, e.steady, e.older, e.overtaken)
  BY <1>3
<1> QED BY <1>4, <1>5, <1>6 DEF e

LEMMA RetryCalls ==
  ASSUME TypeOK, NEW c \in Caller, Retry(c)
  PROVE  /\ call' \in [Caller -> CallState]
         /\ \A d \in Caller \ {c} : call'[d] = call[d]
         /\ \/ call'[c] = Idle
            \/ /\ ~Found(call[c].token.kid)
               /\ Is(call'[c], "notfound", NoToken, [k \in Kid |-> NoKey], 0,
                     call[c].steady, {}, call[c].overtaken)
<1> DEFINE e == Call("notfound", NoToken)
           st == call[c].steady
           ov == call[c].overtaken
           f == [e EXCEPT !.steady = st]
           g == [f EXCEPT !.overtaken = ov]
           r == IF Found(call[c].token.kid) THEN Idle ELSE g
<1>1. call \in [Caller -> CallState] /\ call' = [call EXCEPT ![c] = r]
  BY DEF Retry, TypeOK, Result
<1>2. st \in BOOLEAN /\ ov \in BOOLEAN /\ Idle \in CallState
  BY <1>1, IdleCall DEF CallState, Is
<1>3. Is(e, "notfound", NoToken, [k \in Kid |-> NoKey], 0, FALSE, {}, FALSE)
  BY NewCall DEF Pcs
<1> HIDE DEF e, st, ov
<1>4. Is(f, e.pc, e.token, e.snap, e.at, st, e.older, e.overtaken)
  BY SMT, <1>2, <1>3, SetSteady DEF Is
<1> HIDE DEF f
<1>5. Is(g, f.pc, f.token, f.snap, f.at, f.steady, f.older, ov)
  BY SMT, <1>2, <1>4, SetOvertaken DEF Is
<1> HIDE DEF g
<1>6. Is(g, "notfound", NoToken, [k \in Kid |-> NoKey], 0, st, {}, ov)
  BY <1>3, <1>4, <1>5 DEF Is
<1>7. r \in CallState /\ (r = Idle \/ (r = g /\ ~Found(call[c].token.kid)))
  BY <1>2, <1>6 DEF Is
<1> HIDE DEF r
<1>8. call' \in [Caller -> CallState] /\ call'[c] = r /\ \A d \in Caller \ {c} : call'[d] = call[d]
  BY <1>1, <1>7
<1>9. call'[c] = g => Is(call'[c], "notfound", NoToken, [k \in Kid |-> NoKey], 0, st, {}, ov)
  BY <1>6
<1> QED BY <1>7, <1>8, <1>9 DEF st, ov

-----------------------------------------------------------------------------
LEMMA TypeStep == TypeOK /\ [Next]_vars => TypeOK'
<1> SUFFICES ASSUME TypeOK, [Next]_vars PROVE TypeOK'
  OBVIOUS
<1>0. \A c \in Caller : call[c].older \subseteq Caller
  BY DEF TypeOK, CallState
<1>1. ASSUME NEW c \in Caller, NEW t \in Token, Validate(c, t) PROVE TypeOK'
  <2>1. /\ call' \in [Caller -> CallState]
        /\ call'[c].pc = "lookup" /\ call'[c].token \in Token
        /\ call'[c].older = {d \in Caller : call[d].pc = "store"}
        /\ \A d \in Caller \ {c} : call'[d] = call[d]
        /\ call[c].pc # "store"
    BY <1>1, ValidateCalls DEF Is, Done
  <2> QED BY SMT, <1>1, <2>1 DEF Validate, TypeOK
<1>2. ASSUME NEW c \in Caller, RefreshKeys(c) PROVE TypeOK'
  <2>1. /\ call' \in [Caller -> CallState]
        /\ call'[c].pc = "fetch" /\ call'[c].older = {}
        /\ \A d \in Caller \ {c} : call'[d] = call[d]
        /\ call[c].pc # "store"
    BY <1>2, RefreshCalls DEF Is, Done
  <2> QED BY SMT, <1>2, <2>1 DEF RefreshKeys, TypeOK
<1>3. ASSUME NEW c \in Caller, Lookup(c) PROVE TypeOK'
  <2>1. /\ call' \in [Caller -> CallState]
        /\ call'[c].pc \in {"idle", "fetch"} /\ call'[c].older \subseteq call[c].older
        /\ \A d \in Caller \ {c} : call'[d] = call[d]
        /\ call[c].pc = "lookup"
    BY <1>3, LookupCalls, IdleCall DEF Is, Lookup
  <2> QED BY SMT, <1>3, <2>1 DEF Lookup, TypeOK
<1>4. ASSUME NEW c \in Caller, Answer(c) PROVE TypeOK'
  <2>1. /\ call' \in [Caller -> CallState]
        /\ call'[c].pc = "store" /\ call'[c].older = call[c].older
        /\ \A d \in Caller \ {c} : call'[d] = call[d]
    BY <1>4, AnswerCalls DEF Is
  <2> QED BY SMT, <1>0, <1>4, <2>1 DEF Answer, TypeOK
<1>5. ASSUME NEW c \in Caller, Fail(c) PROVE TypeOK'
  <2>1. /\ call' \in [Caller -> CallState]
        /\ call'[c].pc = "idle" /\ call'[c].older = {}
        /\ \A d \in Caller \ {c} : call'[d] = call[d]
        /\ call[c].pc = "fetch"
    BY <1>5, FailCalls, IdleCall DEF Is, Fail
  <2> QED BY SMT, <1>5, <2>1 DEF Fail, TypeOK
<1>6. ASSUME NEW c \in Caller, Store(c) PROVE TypeOK'
  <2>1. /\ call' \in [Caller -> CallState]
        /\ \A d \in Caller \ {c} : call'[d].pc = call[d].pc /\ call'[d].token = call[d].token
        /\ \A d \in Caller : call'[d].older \subseteq call[d].older \ {c}
        /\ call'[c].pc = "idle" \/ (call'[c].pc = "retry" /\ call[c].token # NoToken)
        /\ call'[c].pc = "retry" => call'[c].token = call[c].token
    BY SMT, <1>6, StoreCalls, IdleCall DEF Is
  <2>2. call[c].token \in Token \cup {NoToken} /\ call[c].snap \in KeyMap
    BY DEF TypeOK, CallState
  <2>3. \A x \in Caller : call'[x].pc \in {"lookup", "retry"} => call'[x].token \in Token
    BY <2>1, <2>2 DEF TypeOK
  <2>4. \A x \in Caller : \A d \in call'[x].older : call'[d].pc = "store" /\ d # x
    BY SMT, <1>0, <2>1 DEF TypeOK
  <2> QED BY SMT, <1>6, <2>1, <2>2, <2>3, <2>4 DEF Store, TypeOK
<1>7. ASSUME NEW c \in Caller, Retry(c) PROVE TypeOK'
  <2>1. /\ call' \in [Caller -> CallState]
        /\ call'[c].pc \in {"idle", "notfound"} /\ call'[c].older = {}
        /\ \A d \in Caller \ {c} : call'[d] = call[d]
        /\ call[c].pc = "retry"
    BY <1>7, RetryCalls, IdleCall DEF Is, Retry
  <2> QED BY SMT, <1>7, <2>1 DEF Retry, TypeOK
<1>8. ASSUME NEW d \in Documents, Rotate(d) PROVE TypeOK'
  <2>1. /\ call' \in [Caller -> CallState]
        /\ \A c \in Caller : /\ call'[c].pc = call[c].pc
                             /\ call'[c].token = call[c].token
                             /\ call'[c].older = call[c].older
    BY <1>8, RotateCalls DEF Is
  <2>2. since' \in [Kid -> 0..now']
    BY SMT, <1>8 DEF Rotate, TypeOK
  <2> QED BY <1>0, <1>8, <2>1, <2>2 DEF Rotate, TypeOK
<1>9. ASSUME Tick PROVE TypeOK'
  BY SMT, <1>9 DEF Tick, TypeOK
<1>10. CASE UNCHANGED vars
  BY <1>10 DEF vars, TypeOK
<1> QED BY <1>1, <1>2, <1>3, <1>4, <1>5, <1>6, <1>7, <1>8, <1>9, <1>10 DEF Next

-----------------------------------------------------------------------------
\* An answer under way is at most MaxLag old, and the server has changed what
\* it no longer says; a call that looks again has stored its answer or a later
\* store has replaced it.
Timely ==
  \A c \in Caller :
    /\ call[c].pc = "store" =>
         /\ call[c].at <= now
         /\ now <= call[c].at + MaxLag
         /\ \A k \in Kid : call[c].snap[k] = Keys(doc)[k] \/ call[c].at <= since[k]
    /\ call[c].pc = "retry" =>
         now <= call[c].at + MaxLag /\ fetchedAt # Never /\ call[c].at <= fetchedAt

\* What the cache says was still published at most MaxLag before the store.
Faithful ==
  fetchedAt # Never =>
    \A k \in Kid : keySet[k] = Keys(doc)[k] \/ fetchedAt - MaxLag <= since[k]

\* A key that has been published since the call began is in every answer given
\* since then, and in the cache until an older answer overtakes.
Lasting ==
  \A c \in Caller :
    call[c].steady /\ call[c].pc \notin Done =>
      /\ call[c].token \in Token
      /\ Keys(doc)[call[c].token.kid] = call[c].token.key
      /\ \A d \in Caller \ call[c].older :
           call[d].pc = "store" => call[d].snap[call[c].token.kid] = call[c].token.key
      /\ call[c].pc = "retry" /\ ~call[c].overtaken =>
           keySet[call[c].token.kid] = call[c].token.key

IInv == TypeOK /\ Timely /\ Faithful /\ Lasting /\ NotFoundOnlyIfOvertaken

LEMMA TimelyStep == TypeOK /\ Timely /\ [Next]_vars => Timely'
<1> SUFFICES ASSUME TypeOK, Timely, [Next]_vars PROVE Timely'
  OBVIOUS
<1>1. ASSUME NEW c \in Caller, NEW t \in Token, Validate(c, t) PROVE Timely'
  <2>1. /\ call'[c].pc \notin {"store", "retry"}
        /\ \A d \in Caller \ {c} : call'[d] = call[d]
    BY <1>1, ValidateCalls DEF Is
  <2> QED BY SMT, <1>1, <2>1 DEF Validate, Timely
<1>2. ASSUME NEW c \in Caller, RefreshKeys(c) PROVE Timely'
  <2>1. /\ call'[c].pc \notin {"store", "retry"}
        /\ \A d \in Caller \ {c} : call'[d] = call[d]
    BY <1>2, RefreshCalls DEF Is
  <2> QED BY <1>2, <2>1 DEF RefreshKeys, Timely
<1>3. ASSUME NEW c \in Caller, Lookup(c) PROVE Timely'
  <2>1. /\ call'[c].pc \notin {"store", "retry"}
        /\ \A d \in Caller \ {c} : call'[d] = call[d]
    BY <1>3, LookupCalls, IdleCall DEF Is
  <2> QED BY SMT, <1>3, <2>1 DEF Lookup, Timely
<1>4. ASSUME NEW c \in Caller, Answer(c) PROVE Timely'
  <2>1. /\ call'[c].pc = "store" /\ call'[c].snap = Keys(doc) /\ call'[c].at = now
        /\ \A d \in Caller \ {c} : call'[d] = call[d]
    BY <1>4, AnswerCalls DEF Is
  <2>2. now \in Nat
    BY DEF TypeOK
  <2>3. UNCHANGED <<now, doc, since, fetchedAt>>
    BY <1>4 DEF Answer
  <2> QED BY SMT, <2>1, <2>2, <2>3 DEF Timely
<1>5. ASSUME NEW c \in Caller, Fail(c) PROVE Timely'
  <2>1. /\ call'[c].pc \notin {"store", "retry"}
        /\ \A d \in Caller \ {c} : call'[d] = call[d]
    BY <1>5, FailCalls, IdleCall DEF Is
  <2> QED BY SMT, <1>5, <2>1 DEF Fail, Timely
<1>6. ASSUME NEW c \in Caller, Store(c) PROVE Timely'
  <2>1. /\ \A d \in Caller \ {c} : /\ call'[d].pc = call[d].pc
                                   /\ call'[d].at = call[d].at
                                   /\ call'[d].snap = call[d].snap
        /\ call'[c].pc = "idle" \/ (call'[c].pc = "retry" /\ call'[c].at = call[c].at)
    BY SMT, <1>6, StoreCalls, IdleCall DEF Is
  <2>2. /\ now \in Nat /\ fetchedAt \in {Never} \cup 0..now /\ Never < 0
        /\ \A d \in Caller : call[d].at \in Nat
    BY SMT DEF TypeOK, CallState, Never
  <2>3. /\ fetchedAt' = now /\ now' = now /\ since' = since /\ doc' = doc
        /\ call[c].pc = "store"
    BY <1>6 DEF Store
  <2> QED BY SMT, <2>1, <2>2, <2>3 DEF Timely
<1>7. ASSUME NEW c \in Caller, Retry(c) PROVE Timely'
  <2>1. /\ call'[c].pc \notin {"store", "retry"}
        /\ \A d \in Caller \ {c} : call'[d] = call[d]
    BY <1>7, RetryCalls, IdleCall DEF Is
  <2> QED BY SMT, <1>7, <2>1 DEF Retry, Timely
<1>8. ASSUME NEW d \in Documents, Rotate(d) PROVE Timely'
  <2>1. \A c \in Caller : /\ call'[c].pc = call[c].pc
                          /\ call'[c].at = call[c].at
                          /\ call'[c].snap = call[c].snap
    BY <1>8, RotateCalls DEF Is
  <2>2. /\ now' = now /\ fetchedAt' = fetchedAt /\ doc' = d
        /\ \A k \in Kid : IF Keys(d)[k] = Keys(doc)[k] THEN since'[k] = since[k] ELSE since'[k] = now
    BY <1>8 DEF Rotate
  <2> QED BY SMT, <2>1, <2>2 DEF Timely
<1>9. ASSUME Tick PROVE Timely'
  <2>1. /\ now' = now + 1 /\ UNCHANGED <<doc, since, keySet, fetchedAt, call>>
        /\ \A c \in Caller : call[c].pc \in {"store", "retry"} => now < call[c].at + MaxLag
    BY <1>9 DEF Tick
  <2>2. now \in Nat /\ \A c \in Caller : call[c].at \in Nat
    BY DEF TypeOK, CallState
  <2> QED BY SMT, <2>1, <2>2 DEF Timely
<1>10. CASE UNCHANGED vars
  BY <1>10 DEF vars, Timely
<1> QED BY <1>1, <1>2, <1>3, <1>4, <1>5, <1>6, <1>7, <1>8, <1>9, <1>10 DEF Next

LEMMA FaithfulStep == TypeOK /\ Timely /\ Faithful /\ [Next]_vars => Faithful'
<1> SUFFICES ASSUME TypeOK, Timely, Faithful, [Next]_vars PROVE Faithful'
  OBVIOUS
<1>1. ASSUME NEW c \in Caller, Store(c) PROVE Faithful'
  <2>1. /\ keySet' = call[c].snap /\ fetchedAt' = now /\ doc' = doc /\ since' = since
        /\ call[c].pc = "store"
    BY <1>1 DEF Store
  <2>2. now \in Nat /\ call[c].at \in Nat /\ \A k \in Kid : since[k] \in Nat
    BY SMT DEF TypeOK, CallState
  <2> QED BY SMT, <2>1, <2>2 DEF Timely, Faithful
<1>2. ASSUME NEW d \in Documents, Rotate(d) PROVE Faithful'
  <2>1. /\ keySet' = keySet /\ fetchedAt' = fetchedAt /\ doc' = d
        /\ \A k \in Kid : IF Keys(d)[k] = Keys(doc)[k] THEN since'[k] = since[k] ELSE since'[k] = now
    BY <1>2 DEF Rotate
  <2>2. now \in Nat /\ fetchedAt \in {Never} \cup 0..now
    BY DEF TypeOK
  <2> QED BY SMT, <2>1, <2>2 DEF Faithful
<1>3. CASE UNCHANGED <<doc, since, keySet, fetchedAt>>
  BY <1>3 DEF Faithful
<1>4. \/ \E c \in Caller : Store(c)
      \/ \E d \in Documents : Rotate(d)
      \/ UNCHANGED <<doc, since, keySet, fetchedAt>>
  BY DEF Next, Validate, RefreshKeys, Lookup, Answer, Fail, Retry, Tick, vars
<1> QED BY <1>1, <1>2, <1>3, <1>4

LEMMA LastingStep == TypeOK /\ Lasting /\ [Next]_vars => Lasting'
<1> SUFFICES ASSUME TypeOK, Lasting, [Next]_vars PROVE Lasting'
  OBVIOUS
<1>1. ASSUME NEW c \in Caller, NEW t \in Token, Validate(c, t) PROVE Lasting'
  <2>1. /\ call'[c].pc = "lookup" /\ call'[c].token = t
        /\ call'[c].steady => Keys(doc)[t.kid] = t.key
        /\ call'[c].older = {d \in Caller : call[d].pc = "store"}
        /\ \A d \in Caller \ {c} : call'[d] = call[d]
    BY <1>1, ValidateCalls DEF Is
  <2>2. UNCHANGED <<doc, keySet>>
    BY <1>1 DEF Validate
  <2> QED BY SMT, <2>1, <2>2 DEF Lasting
<1>2. ASSUME NEW c \in Caller, RefreshKeys(c) PROVE Lasting'
  <2>1. /\ call'[c].pc = "fetch" /\ ~call'[c].steady
        /\ \A d \in Caller \ {c} : call'[d] = call[d]
    BY <1>2, RefreshCalls DEF Is
  <2>2. UNCHANGED <<doc, keySet>>
    BY <1>2 DEF RefreshKeys
  <2> QED BY SMT, <2>1, <2>2 DEF Lasting
<1>3. ASSUME NEW c \in Caller, Lookup(c) PROVE Lasting'
  <2>1. /\ \/ call'[c].pc = "idle"
           \/ /\ call'[c].pc = "fetch" /\ call[c].pc = "lookup"
              /\ call'[c].token = call[c].token
              /\ call'[c].steady = call[c].steady
              /\ call'[c].older = call[c].older
        /\ \A d \in Caller \ {c} : call'[d] = call[d]
    BY <1>3, LookupCalls, IdleCall DEF Is, Lookup
  <2>2. UNCHANGED <<doc, keySet>>
    BY <1>3 DEF Lookup
  <2> QED BY SMT, <2>1, <2>2 DEF Lasting, Done
<1>4. ASSUME NEW c \in Caller, Answer(c) PROVE Lasting'
  <2>1. /\ call'[c].pc = "store" /\ call[c].pc = "fetch"
        /\ call'[c].snap = Keys(doc)
        /\ call'[c].token = call[c].token
        /\ call'[c].steady = call[c].steady
        /\ call'[c].older = call[c].older
        /\ \A d \in Caller \ {c} : call'[d] = call[d]
    BY <1>4, AnswerCalls DEF Is, Answer
  <2>2. UNCHANGED <<doc, keySet>>
    BY <1>4 DEF Answer
  <2> QED BY SMT, <2>1, <2>2 DEF Lasting, Done
<1>5. ASSUME NEW c \in Caller, Fail(c) PROVE Lasting'
  <2>1. /\ call'[c].pc = "idle"
        /\ \A d \in Caller \ {c} : call'[d] = call[d]
    BY <1>5, FailCalls, IdleCall DEF Is
  <2>2. UNCHANGED <<doc, keySet>>
    BY <1>5 DEF Fail
  <2> QED BY SMT, <2>1, <2>2 DEF Lasting, Done
<1>6. ASSUME NEW c \in Caller, Store(c) PROVE Lasting'
  <2>1. /\ \A d \in Caller \ {c} :
             /\ call'[d].pc = call[d].pc
             /\ call'[d].token = call[d].token
             /\ call'[d].snap = call[d].snap
             /\ (call'[d].steady => call[d].steady)
             /\ call'[d].older = call[d].older \ {c}
             /\ ~call'[d].overtaken =>
                  ~call[d].overtaken /\ (call[d].pc = "retry" => c \notin call[d].older)
        /\ \/ call'[c].pc = "idle"
           \/ /\ call'[c].pc = "retry"
              /\ call'[c].token = call[c].token
              /\ (call'[c].steady => call[c].steady)
              /\ call'[c].older = call[c].older \ {c}
    BY <1>6, StoreCalls, IdleCall DEF Is
  <2>2. /\ doc' = doc /\ keySet' = call[c].snap /\ call[c].pc = "store"
        /\ c \notin call[c].older
    BY <1>6 DEF Store, TypeOK
  <2>3. ASSUME NEW d \in Caller \ {c}, call'[d].steady, call'[d].pc \notin Done
        PROVE  /\ call'[d].token \in Token
               /\ Keys(doc')[call'[d].token.kid] = call'[d].token.key
               /\ \A x \in Caller \ call'[d].older :
                    call'[x].pc = "store" => call'[x].snap[call'[d].token.kid] = call'[d].token.key
               /\ call'[d].pc = "retry" /\ ~call'[d].overtaken =>
                    keySet'[call'[d].token.kid] = call'[d].token.key
    BY SMT, <2>1, <2>2, <2>3 DEF Lasting
  <2>4. ASSUME call'[c].steady, call'[c].pc \notin Done
        PROVE  /\ call'[c].token \in Token
               /\ Keys(doc')[call'[c].token.kid] = call'[c].token.key
               /\ \A x \in Caller \ call'[c].older :
                    call'[x].pc = "store" => call'[x].snap[call'[c].token.kid] = call'[c].token.key
               /\ keySet'[call'[c].token.kid] = call'[c].token.key
    <3>1. /\ call[c].steady /\ call[c].pc \notin Done
          /\ call'[c].token = call[c].token
          /\ call'[c].older = call[c].older
      BY <2>1, <2>2, <2>4 DEF Done
    <3> QED BY SMT, <2>1, <2>2, <3>1 DEF Lasting
  <2> QED BY SMT, <2>3, <2>4 DEF Lasting
<1>7. ASSUME NEW c \in Caller, Retry(c) PROVE Lasting'
  <2>1. /\ call'[c].pc \in Done
        /\ \A d \in Caller \ {c} : call'[d] = call[d]
    BY <1>7, RetryCalls, IdleCall DEF Is, Done
  <2>2. UNCHANGED <<doc, keySet>>
    BY <1>7 DEF Retry
  <2> QED BY SMT, <2>1, <2>2 DEF Lasting, Done
<1>8. ASSUME NEW d \in Documents, Rotate(d) PROVE Lasting'
  <2>1. \A c \in Caller :
          /\ call'[c].pc = call[c].pc
          /\ call'[c].token = call[c].token
          /\ call'[c].snap = call[c].snap
          /\ call'[c].older = call[c].older
          /\ call'[c].overtaken = call[c].overtaken
          /\ call'[c].steady =>
               call[c].steady /\ (call[c].pc \in Done
                                   \/ Keys(d)[call[c].token.kid] = call[c].token.key)
    BY <1>8, RotateCalls DEF Is
  <2>2. doc' = d /\ keySet' = keySet
    BY <1>8 DEF Rotate
  <2> QED BY SMT, <2>1, <2>2 DEF Lasting
<1>9. ASSUME Tick PROVE Lasting'
  BY <1>9 DEF Tick, Lasting
<1>10. CASE UNCHANGED vars
  BY <1>10 DEF vars, Lasting
<1> QED BY <1>1, <1>2, <1>3, <1>4, <1>5, <1>6, <1>7, <1>8, <1>9, <1>10 DEF Next

LEMMA RefusedStep ==
  TypeOK /\ Timely /\ Lasting /\ NotFoundOnlyIfOvertaken /\ [Next]_vars => NotFoundOnlyIfOvertaken'
<1> SUFFICES ASSUME TypeOK, Timely, Lasting, NotFoundOnlyIfOvertaken, [Next]_vars
             PROVE  NotFoundOnlyIfOvertaken'
  OBVIOUS
<1>1. ASSUME NEW c \in Caller, NEW t \in Token, Validate(c, t) PROVE NotFoundOnlyIfOvertaken'
  <2>1. /\ call'[c].pc # "notfound"
        /\ \A d \in Caller \ {c} : call'[d] = call[d]
    BY <1>1, ValidateCalls DEF Is
  <2> QED BY <2>1 DEF NotFoundOnlyIfOvertaken
<1>2. ASSUME NEW c \in Caller, RefreshKeys(c) PROVE NotFoundOnlyIfOvertaken'
  <2>1. /\ call'[c].pc # "notfound"
        /\ \A d \in Caller \ {c} : call'[d] = call[d]
    BY <1>2, RefreshCalls DEF Is
  <2> QED BY <2>1 DEF NotFoundOnlyIfOvertaken
<1>3. ASSUME NEW c \in Caller, Lookup(c) PROVE NotFoundOnlyIfOvertaken'
  <2>1. /\ call'[c].pc # "notfound"
        /\ \A d \in Caller \ {c} : call'[d] = call[d]
    BY <1>3, LookupCalls, IdleCall DEF Is
  <2> QED BY <2>1 DEF NotFoundOnlyIfOvertaken
<1>4. ASSUME NEW c \in Caller, Answer(c) PROVE NotFoundOnlyIfOvertaken'
  <2>1. /\ call'[c].pc # "notfound"
        /\ \A d \in Caller \ {c} : call'[d] = call[d]
    BY <1>4, AnswerCalls DEF Is
  <2> QED BY <2>1 DEF NotFoundOnlyIfOvertaken
<1>5. ASSUME NEW c \in Caller, Fail(c) PROVE NotFoundOnlyIfOvertaken'
  <2>1. /\ call'[c].pc # "notfound"
        /\ \A d \in Caller \ {c} : call'[d] = call[d]
    BY <1>5, FailCalls, IdleCall DEF Is
  <2> QED BY <2>1 DEF NotFoundOnlyIfOvertaken
<1>6. ASSUME NEW c \in Caller, Store(c) PROVE NotFoundOnlyIfOvertaken'
  <2>1. /\ call'[c].pc # "notfound"
        /\ \A d \in Caller \ {c} : /\ call'[d].pc = call[d].pc
                                   /\ call'[d].steady => call[d].steady
                                   /\ call[d].overtaken => call'[d].overtaken
    BY <1>6, StoreCalls, IdleCall DEF Is
  <2>2. SUFFICES ASSUME MaxLag <= CacheTTL, NEW d \in Caller, call'[d].pc = "notfound", call'[d].steady
                 PROVE  call'[d].overtaken
    BY DEF NotFoundOnlyIfOvertaken
  <2>3. d # c /\ call[d].pc = "notfound" /\ call[d].steady
    BY <2>1, <2>2
  <2>4. call[d].overtaken
    BY <2>2, <2>3 DEF NotFoundOnlyIfOvertaken
  <2> QED BY <2>1, <2>3, <2>4
<1>7. ASSUME NEW c \in Caller, Retry(c) PROVE NotFoundOnlyIfOvertaken'
  <2>1. SUFFICES ASSUME MaxLag <= CacheTTL, call'[c].pc = "notfound", call'[c].steady
                 PROVE  call'[c].overtaken
    BY <1>7, RetryCalls DEF NotFoundOnlyIfOvertaken
  <2>2. /\ ~Found(call[c].token.kid) /\ call[c].pc = "retry"
        /\ call'[c].steady = call[c].steady
        /\ call'[c].overtaken = call[c].overtaken
    BY <1>7, <2>1, RetryCalls, IdleCall DEF Is, Retry
  <2>3. SUFFICES ASSUME ~call[c].overtaken PROVE FALSE
    BY <2>2
  <2>4. keySet[call[c].token.kid] = call[c].token.key /\ call[c].token.key # NoKey
    BY <2>1, <2>2, <2>3 DEF Lasting, Done, Token
  <2>5. ~Expired
    <3>1. now <= call[c].at + MaxLag /\ call[c].at <= fetchedAt
      BY <2>2 DEF Timely
    <3>2. now \in Nat /\ call[c].at \in Nat /\ fetchedAt \in Int
      BY SMT DEF TypeOK, CallState, Never
    <3> QED BY SMT, <2>1, <3>1, <3>2 DEF Expired
  <2> QED BY <2>2, <2>4, <2>5 DEF Found
<1>8. ASSUME NEW d \in Documents, Rotate(d) PROVE NotFoundOnlyIfOvertaken'
  <2>1. \A c \in Caller :
          /\ call'[c].pc = call[c].pc
          /\ call'[c].overtaken = call[c].overtaken
          /\ call'[c].steady => call[c].steady
    BY <1>8, RotateCalls DEF Is
  <2> QED BY <2>1 DEF NotFoundOnlyIfOvertaken
<1>9. ASSUME Tick PROVE NotFoundOnlyIfOvertaken'
  BY <1>9 DEF Tick, NotFoundOnlyIfOvertaken
<1>10. CASE UNCHANGED vars
  BY <1>10 DEF vars, NotFoundOnlyIfOvertaken
<1> QED BY <1>1, <1>2, <1>3, <1>4, <1>5, <1>6, <1>7, <1>8, <1>9, <1>10 DEF Next

-----------------------------------------------------------------------------
LEMMA InitInv == Init => IInv
<1> SUFFICES ASSUME Init PROVE IInv
  OBVIOUS
<1>1. /\ now = 0 /\ fetchedAt = Never /\ doc \in Documents
      /\ since = [k \in Kid |-> 0] /\ keySet = [k \in Kid |-> NoKey]
      /\ call = [c \in Caller |-> Idle]
  BY DEF Init
<1>2. \A c \in Caller : call[c].pc = "idle" /\ call[c].older = {}
  BY <1>1, IdleCall DEF Is
<1>3. Idle \in CallState
  BY IdleCall DEF Is
<1>4. TypeOK
  BY SMT, <1>1, <1>2, <1>3 DEF TypeOK, KeyMap
<1> QED BY <1>1, <1>2, <1>4 DEF IInv, Timely, Faithful, Lasting, NotFoundOnlyIfOvertaken, Done

LEMMA Inductive == Spec => []IInv
<1>1. IInv /\ [Next]_vars => IInv'
  BY TypeStep, TimelyStep, FaithfulStep, LastingStep, RefusedStep DEF IInv
<1> QED BY InitInv, <1>1, PTL DEF Spec

\* Type correctness of the JWKS cache: fetchedAt is never ahead of the clock
\* and the history of overlapping answers is exact.
THEOREM TypeCorrect == Spec => []TypeOK
<1>1. IInv => TypeOK
  BY DEF IInv
<1> QED BY Inductive, <1>1, PTL

\* Whatever the number of goroutines, the documents and the order in which
\* fetchJWKS stores its answers: an unexpired cache agrees with the server on
\* every kid the server has left alone for CacheTTL + MaxLag.
THEOREM CacheConverges == Spec => []Converged
<1>1. IInv => Converged
  <2> SUFFICES ASSUME IInv, ~Expired, NEW k \in Kid, now - since[k] > CacheTTL + MaxLag
               PROVE  keySet[k] = Keys(doc)[k]
    BY DEF Converged
  <2>1. now \in Nat /\ since[k] \in Nat /\ fetchedAt \in {Never} \cup 0..now
    BY SMT DEF IInv, TypeOK
  <2>2. fetchedAt # Never /\ fetchedAt \in Nat
    BY SMT, <2>1 DEF Expired, Never
  <2>3. ~(fetchedAt - MaxLag <= since[k])
    BY SMT, <2>1, <2>2 DEF Expired
  <2> QED BY <2>2, <2>3 DEF IInv, Faithful
<1> QED BY Inductive, <1>1, PTL

\* keyfunc's "refresh once and retry" finds a key that is published throughout
\* the call, unless an answer from before the call is stored in between.
THEOREM RetryFinds == Spec => []NotFoundOnlyIfOvertaken
<1>1. IInv => NotFoundOnlyIfOvertaken
  BY DEF IInv
<1> QED BY Inductive, <1>1, PTL

=============================================================================
