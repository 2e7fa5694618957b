----------------------------- MODULE DPoP_proofs -----------------------------
(***************************************************************************)
(* Proofs about DPoP for every window, age, skew, lag and number of proofs *)
(* and requests.                                                           *)
(***************************************************************************)
EXTENDS DPoP, TLAPS

\* Zenon proves a leaf unless it names SMT, for arithmetic and records.
USE ZenonT(30)

-----------------------------------------------------------------------------
\* Euclidean division, as the nonce windows use it.
LEMMA DivBounds ==
  ASSUME NEW a \in Nat, NEW w \in Nat \ {0}
  PROVE  a \div w \in Nat /\ w * (a \div w) <= a /\ a < w * (a \div w) + w
BY SMT

LEMMA MulCancel ==
  ASSUME NEW w \in Nat \ {0}, NEW x \in Int, NEW y \in Int, w * x < w * y
  PROVE  x < y
BY SMT

\* A window later at most is one window further at most.
LEMMA DivNear ==
  ASSUME NEW a \in Nat, NEW b \in Nat, NEW w \in Nat \ {0}, b <= a + w
  PROVE  b \div w <= (a \div w) + 1
<1> DEFINE x == a \div w
           y == b \div w
<1>1. x \in Nat /\ y \in Nat /\ a < w * x + w /\ w * y <= b
  BY DivBounds
<1> HIDE DEF x, y
<1>2. w * y < w * (x + 2)
  BY SMT, <1>1
<1>3. y < x + 2
  BY SMT, <1>1, <1>2, MulCancel
<1> QED BY SMT, <1>1, <1>3 DEF x, y

\* Two windows later at least is two windows further at least.
LEMMA DivFar ==
  ASSUME NEW a \in Nat, NEW b \in Nat, NEW w \in Nat \ {0}, b >= a + 2 * w
  PROVE  b \div w >= (a \div w) + 2
<1> DEFINE x == a \div w
           y == b \div w
<1>1. x \in Nat /\ y \in Nat /\ w * x <= a /\ b < w * y + w
  BY DivBounds
<1> HIDE DEF x, y
<1>2. w * (x + 1) < w * y
  BY SMT, <1>1
<1>3. x + 1 < y
  BY SMT, <1>1, <1>2, MulCancel
<1> QED BY SMT, <1>1, <1>3 DEF x, y

LEMMA DivMono ==
  ASSUME NEW a \in Nat, NEW b \in Nat, NEW w \in Nat \ {0}, a <= b
  PROVE  a \div w <= b \div w
<1> DEFINE x == a \div w
           y == b \div w
<1>1. x \in Nat /\ y \in Nat /\ w * x <= a /\ b < w * y + w
  BY DivBounds
<1> HIDE DEF x, y
<1>2. w * x < w * (y + 1)
  BY SMT, <1>1
<1>3. x < y + 1
  BY SMT, <1>1, <1>2, MulCancel
<1> QED BY SMT, <1>1, <1>3 DEF x, y

-----------------------------------------------------------------------------
LEMMA InitType == Init => TypeOK
<1>1. WindowOf(0) \in Nat
  BY DPoPAssumption, DivBounds DEF WindowOf
<1> QED BY SMT, <1>1, DPoPAssumption
        DEF Init, TypeOK, Unsigned, NoNonce, Never, Idle, Call, CallState, Many

LEMMA NextType == TypeOK /\ [Next]_vars => TypeOK'
<1> SUFFICES ASSUME TypeOK, [Next]_vars PROVE TypeOK'
  OBVIOUS
<1> USE DPoPAssumption
<1>0. now \in Nat /\ WindowOf(now) \in Nat
  BY DivBounds DEF TypeOK, WindowOf
<1>1. ASSUME NEW p \in Proof, Sign(p) PROVE TypeOK'
  <2>1. held \in Int
    BY SMT, <1>0 DEF TypeOK, NoNonce
  <2> QED BY SMT, <1>0, <1>1, <2>1 DEF Sign, TypeOK, WindowOf
<1>2. ASSUME NEW r \in Request, NEW p \in Proof, Present(r, p) PROVE TypeOK'
  <2>0. \/ held' = Current /\ heldAt' = now /\ UNCHANGED req
        \/ /\ req' = [req EXCEPT ![r] = Call("fresh", p, FALSE, now)]
           /\ UNCHANGED <<held, heldAt>>
    BY <1>2 DEF Present
  <2>1. held \in NoNonce..WindowOf(now) /\ Current \in NoNonce..WindowOf(now)
    BY SMT, <1>0 DEF TypeOK, Current, NoNonce
  <2>2. /\ req \in [Request -> CallState]
        /\ \A q \in Request : req[q].pc # "idle" => req[q].proof \in Proof
        /\ Call("fresh", p, FALSE, now) \in CallState
        /\ Call("fresh", p, FALSE, now).proof \in Proof
    BY <1>0 DEF TypeOK, CallState, Call
  <2>3. UNCHANGED <<now, proof, seen, last, accepts, faulted>>
    BY <1>2 DEF Present
  <2>4. CASE held' = Current /\ heldAt' = now /\ UNCHANGED req
    BY <1>0, <2>1, <2>3, <2>4 DEF TypeOK, WindowOf
  <2>5. CASE /\ req' = [req EXCEPT ![r] = Call("fresh", p, FALSE, now)]
             /\ UNCHANGED <<held, heldAt>>
    <3>1. /\ req' \in [Request -> CallState]
          /\ \A q \in Request : req'[q].pc # "idle" => req'[q].proof \in Proof
      BY <2>2, <2>5
    <3> QED BY <2>3, <2>5, <3>1 DEF TypeOK, WindowOf
  <2> QED BY <2>0, <2>4, <2>5
<1>3. ASSUME NEW r \in Request, LookUp(r) PROVE TypeOK'
  <2>0. /\ req[r].pc = "fresh"
        /\ \/ req' = [req EXCEPT ![r] = Idle]
           \/ req' = [req EXCEPT ![r] = Call("unseen", req[r].proof, FALSE, req[r].at)]
    BY <1>3 DEF LookUp
  <2>1. /\ req \in [Request -> CallState] /\ req[r].proof \in Proof
        /\ \A q \in Request : req[q].pc # "idle" => req[q].proof \in Proof
        /\ Idle \in CallState /\ Idle.pc = "idle"
        /\ Call("unseen", req[r].proof, FALSE, req[r].at) \in CallState
        /\ Call("unseen", req[r].proof, FALSE, req[r].at).proof \in Proof
    BY <2>0 DEF TypeOK, CallState, Call, Idle
  <2>3. /\ req' \in [Request -> CallState]
        /\ \A q \in Request : req'[q].pc # "idle" => req'[q].proof \in Proof
    BY <2>0, <2>1
  <2>2. UNCHANGED <<now, proof, held, heldAt, seen, last, accepts>> /\ faulted' \subseteq Proof
    BY <1>3, <2>1 DEF LookUp, TypeOK
  <2> QED BY <2>2, <2>3 DEF TypeOK, WindowOf
<1>4. ASSUME NEW r \in Request, Accept(r) PROVE TypeOK'
  <2>1. req[r].proof \in Proof /\ req[r].raced \in BOOLEAN
    BY <1>4 DEF Accept, TypeOK, CallState
  <2>2. seen' \in [Proof -> Int] /\ last' \in [Proof -> Int]
    BY SMT, <1>0, <1>4, <2>1 DEF Accept, TypeOK, RecordExpiry
  <2>3. accepts' \in [Proof -> 0..Many]
    BY SMT, <1>4, <2>1 DEF Accept, TypeOK, Counted, Many
  <2>4. /\ req' \in [Request -> CallState]
        /\ \A q \in Request : req'[q].pc # "idle" => req'[q].proof \in Proof
    BY <1>4 DEF Accept, TypeOK, CallState, Call, Idle
  <2>5. faulted' \subseteq Proof
    BY <1>4, <2>1 DEF Accept, TypeOK
  <2> QED BY <1>4, <2>2, <2>3, <2>4, <2>5 DEF Accept, TypeOK, WindowOf
<1>5. CASE Tick
  <2>0. now' = now + 1
    BY <1>5 DEF Tick
  <2>1. WindowOf(now) <= WindowOf(now + 1) /\ WindowOf(now + 1) \in Nat
    BY SMT, <1>0, DivMono, DivBounds DEF WindowOf
  <2>2. held \in NoNonce..WindowOf(now + 1)
    BY SMT, <1>0, <2>1 DEF TypeOK, NoNonce
  <2> QED BY SMT, <1>5, <2>0, <2>2 DEF Tick, TypeOK, WindowOf
<1>6. CASE Restart
  <2>1. Idle \in CallState /\ Idle.pc = "idle"
    BY SMT DEF Idle, Call, CallState
  <2>2. seen' \in [Proof -> Int]
    BY SMT, <1>6 DEF Restart, TypeOK, Never
  <2> QED BY <1>6, <2>1, <2>2 DEF Restart, TypeOK, WindowOf
<1>7. CASE UNCHANGED vars
  BY <1>7 DEF vars, TypeOK, WindowOf
<1> QED BY <1>1, <1>2, <1>3, <1>4, <1>5, <1>6, <1>7 DEF Next

\* Validation keeps its state well typed, and never hands out a nonce of a
\* window that has not begun.
THEOREM TypeCorrect == Spec => []TypeOK
BY InitType, NextType, PTL DEF Spec

-----------------------------------------------------------------------------
\* The nonce the client holds is that of the window it was given in.
HeldInv ==
  held # NoNonce => held = WindowOf(heldAt) /\ heldAt <= now

\* A nonce works for a window's length after it was given, and not any more
\* after two.
THEOREM NonceLivesOneToTwoWindows == Spec => []NonceLifetime
<1> USE DPoPAssumption
<1>1. Init => HeldInv
  BY DEF Init, HeldInv
<1>2. TypeOK /\ HeldInv /\ [Next]_vars => HeldInv'
  <2> SUFFICES ASSUME TypeOK, HeldInv, [Next]_vars PROVE HeldInv'
    OBVIOUS
  <2>0. now \in Nat /\ heldAt \in Nat
    BY DEF TypeOK
  <2>1. ASSUME NEW r \in Request, NEW p \in Proof, Present(r, p) PROVE HeldInv'
    <3>1. \/ held' = Current /\ heldAt' = now
          \/ UNCHANGED <<held, heldAt>>
      BY <2>1 DEF Present
    <3> QED BY SMT, <2>0, <2>1, <3>1 DEF Present, HeldInv, Current, WindowOf
  <2>2. CASE UNCHANGED <<held, heldAt>> /\ (now' = now \/ now' = now + 1)
    BY SMT, <2>0, <2>2 DEF HeldInv, WindowOf
  <2> QED BY <2>1, <2>2 DEF Next, Sign, LookUp, Accept, Restart, Tick, vars
<1>3. TypeOK /\ HeldInv => NonceLifetime
  <2> SUFFICES ASSUME TypeOK, HeldInv, held # NoNonce
               PROVE  /\ now <= heldAt + Window => NonceValid(held)
                      /\ now >= heldAt + 2 * Window => ~NonceValid(held)
    BY DEF NonceLifetime
  <2>1. /\ now \in Nat /\ heldAt \in Nat /\ heldAt <= now
        /\ held = WindowOf(heldAt) /\ held \in Int
        /\ WindowOf(now) \in Nat
    BY SMT, DivBounds DEF HeldInv, TypeOK, NoNonce, WindowOf
  <2>2. WindowOf(heldAt) <= WindowOf(now)
    BY <2>1, DivMono DEF WindowOf
  <2>3. ASSUME now <= heldAt + Window PROVE NonceValid(held)
    <3>1. WindowOf(now) <= WindowOf(heldAt) + 1
      BY <2>1, <2>3, DivNear DEF WindowOf
    <3> QED BY SMT, <2>1, <2>2, <3>1 DEF NonceValid
  <2>4. ASSUME now >= heldAt + 2 * Window PROVE ~NonceValid(held)
    <3>1. WindowOf(now) >= WindowOf(heldAt) + 2
      BY <2>1, <2>4, DivFar DEF WindowOf
    <3> QED BY SMT, <2>1, <3>1 DEF NonceValid
  <2> QED BY <2>3, <2>4
<1> QED BY <1>1, <1>2, <1>3, TypeCorrect, PTL DEF Spec

-----------------------------------------------------------------------------
\* Unless a fault took it, the record of a proof is there for MaxAge from its
\* last acceptance, and a call that found no record and was not overtaken
\* since started after the record ended.
SpacedInv ==
  /\ \A p \in Proof : last[p] # Never =>
       /\ last[p] \in Nat /\ last[p] <= now
       /\ p \in faulted \/ now > last[p] + MaxAge \/ seen[p] = last[p] + MaxAge
  /\ \A r \in Request :
       /\ req[r].pc = "unseen"
       /\ req[r].raced = FALSE
       /\ last[req[r].proof] # Never
       => req[r].proof \in faulted \/ now > last[req[r].proof] + MaxAge

LEMMA InitSpaced == Init => SpacedInv
BY SMT DEF Init, SpacedInv, Idle, Call

\* What Accept does: the Set takes effect, or the proof has met a fault.
LEMMA AcceptEffect ==
  ASSUME TypeOK, NEW r \in Request, Accept(r)
  PROVE  /\ req[r].proof \in Proof /\ req[r].pc = "unseen"
         /\ \/ seen' = [seen EXCEPT ![req[r].proof] = now + MaxAge] /\ faulted' = faulted
            \/ seen' = seen /\ faulted' = faulted \cup {req[r].proof}
         /\ last' = [last EXCEPT ![req[r].proof] = now]
         /\ \A q \in Request :
              \/ req'[q] = Idle
              \/ /\ req[q].pc = "unseen" /\ req[q].proof = req[r].proof
                 /\ req'[q] = Call("unseen", req[r].proof, TRUE, req[q].at)
              \/ /\ req'[q] = req[q]
                 /\ req[q].pc = "unseen" => req[q].proof # req[r].proof
         /\ now' = now /\ proof' = proof
<1>2. \/ seen' = [seen EXCEPT ![req[r].proof] = now + MaxAge] /\ faulted' = faulted
      \/ seen' = seen /\ faulted' = faulted \cup {req[r].proof}
  BY DEF Accept, RecordExpiry
<1>3. req[r].proof \in Proof /\ req[r].pc = "unseen"
  BY DEF Accept, TypeOK
<1>4. \A q \in Request :
         \/ req'[q] = Idle
         \/ /\ req[q].pc = "unseen" /\ req[q].proof = req[r].proof
            /\ req'[q] = Call("unseen", req[r].proof, TRUE, req[q].at)
         \/ /\ req'[q] = req[q]
            /\ req[q].pc = "unseen" => req[q].proof # req[r].proof
  BY DEF Accept
<1> QED BY <1>2, <1>3, <1>4 DEF Accept

LEMMA NextSpaced ==
  ASSUME TypeOK, SpacedInv, [Next]_vars
  PROVE  SpacedInv'
<1> USE DPoPAssumption
<1>0. /\ now \in Nat /\ now # Never /\ MaxAge \in Nat
      /\ seen \in [Proof -> Int] /\ last \in [Proof -> Int]
      /\ req \in [Request -> CallState]
      /\ \A r \in Request : req[r].pc # "idle" => req[r].proof \in Proof
  BY SMT DEF TypeOK, Never
<1>1. ASSUME NEW p \in Proof, Sign(p) PROVE SpacedInv'
  BY <1>1 DEF Sign, SpacedInv
<1>2. ASSUME NEW r \in Request, NEW p \in Proof, Present(r, p) PROVE SpacedInv'
  <2>1. \/ UNCHANGED req
        \/ req' = [req EXCEPT ![r] = Call("fresh", p, FALSE, now)]
    BY <1>2 DEF Present
  <2>2. UNCHANGED <<now, seen, last, faulted>>
    BY <1>2 DEF Present
  <2> QED BY SMT, <1>0, <2>1, <2>2 DEF SpacedInv, Call
<1>3. ASSUME NEW r \in Request, LookUp(r) PROVE SpacedInv'
  <2> DEFINE p == req[r].proof
  <2>1. /\ req[r].pc = "fresh"
        /\ \/ req' = [req EXCEPT ![r] = Idle]
           \/ /\ ~Recorded(p) \/ p \in faulted'
              /\ req' = [req EXCEPT ![r] = Call("unseen", p, FALSE, req[r].at)]
    BY <1>3 DEF LookUp
  <2>2. UNCHANGED <<now, seen, last>> /\ faulted \subseteq faulted'
    BY <1>3 DEF LookUp
  <2>3. p \in Proof
    BY <1>0, <2>1
  <2>4. CASE req' = [req EXCEPT ![r] = Idle]
    BY <1>0, <2>2, <2>4 DEF SpacedInv, Idle, Call
  <2>5. CASE /\ ~Recorded(p) \/ p \in faulted'
             /\ req' = [req EXCEPT ![r] = Call("unseen", p, FALSE, req[r].at)]
    <3>1. last[p] # Never => p \in faulted' \/ now > last[p] + MaxAge
      <4>1. CASE p \in faulted'
        BY <4>1
      <4>2. CASE ~Recorded(p)
        <5>1. last[p] # Never => p \in faulted \/ now > last[p] + MaxAge
          BY SMT, <1>0, <2>3, <4>2 DEF SpacedInv, Recorded
        <5> QED BY <2>2, <5>1
      <4> QED BY <2>5, <4>1, <4>2
    <3>2. LET c == Call("unseen", p, FALSE, req[r].at) IN c.proof = p
      BY DEF Call
    <3> HIDE DEF p
    <3> QED BY <1>0, <2>2, <2>3, <2>5, <3>1, <3>2 DEF SpacedInv
  <2> QED BY <2>1, <2>4, <2>5
<1>4. ASSUME NEW r \in Request, Accept(r) PROVE SpacedInv'
  <2>1. /\ req[r].proof \in Proof
        /\ \/ seen' = [seen EXCEPT ![req[r].proof] = now + MaxAge] /\ faulted' = faulted
           \/ seen' = seen /\ faulted' = faulted \cup {req[r].proof}
        /\ last' = [last EXCEPT ![req[r].proof] = now]
        /\ now' = now
    BY <1>4, AcceptEffect
  <2>2. \A q \in Request :
           \/ req'[q] = Idle
           \/ req'[q] = Call("unseen", req[r].proof, TRUE, req[q].at)
           \/ /\ req'[q] = req[q]
              /\ req[q].pc = "unseen" => req[q].proof # req[r].proof
    BY <1>4, AcceptEffect
  <2>3. ASSUME NEW p \in Proof, last'[p] # Never
        PROVE  /\ last'[p] \in Nat /\ last'[p] <= now'
               /\ p \in faulted' \/ now' > last'[p] + MaxAge \/ seen'[p] = last'[p] + MaxAge
    <3>1. CASE p = req[r].proof
      BY SMT, <1>0, <2>1, <3>1
    <3>2. CASE p # req[r].proof
      <4>1. last'[p] = last[p] /\ seen'[p] = seen[p] /\ faulted \subseteq faulted'
        BY <1>0, <2>1, <3>2
      <4> QED BY <2>1, <2>3, <4>1 DEF SpacedInv
    <3> QED BY <3>1, <3>2
  <2>4. ASSUME NEW q \in Request, req'[q].pc = "unseen", req'[q].raced = FALSE,
               last'[req'[q].proof] # Never
        PROVE  req'[q].proof \in faulted' \/ now' > last'[req'[q].proof] + MaxAge
    <3>1. /\ req'[q] = req[q]
          /\ req[q].pc = "unseen" => req[q].proof # req[r].proof
      <4>1. Idle.pc # "unseen" /\ Call("unseen", req[r].proof, TRUE, req[q].at).raced = TRUE
        BY DEF Idle, Call
      <4> QED BY <2>2, <2>4, <4>1
    <3> QED BY <1>0, <2>1, <2>4, <3>1 DEF SpacedInv
  <2> QED BY <2>3, <2>4 DEF SpacedInv
<1>5. CASE Tick
  BY SMT, <1>0, <1>5 DEF Tick, SpacedInv
<1>6. CASE Restart
  <2>1. /\ UNCHANGED <<now, last>> /\ \A r \in Request : req'[r].pc # "unseen"
    BY <1>6 DEF Restart, Idle, Call
  <2>2. CASE UNCHANGED <<seen, faulted>>
    BY <2>1, <2>2 DEF SpacedInv
  <2>3. CASE faulted' = faulted \cup {p \in Proof : Recorded(p)}
    <3>1. \A p \in Proof : last[p] # Never => p \in faulted' \/ now > last[p] + MaxAge
      BY SMT, <1>0, <2>3 DEF SpacedInv, Recorded
    <3> QED BY <2>1, <3>1 DEF SpacedInv
  <2> QED BY <1>6, <2>2, <2>3 DEF Restart
<1>7. CASE UNCHANGED vars
  BY <1>7 DEF vars, SpacedInv
<1> QED BY <1>1, <1>2, <1>3, <1>4, <1>5, <1>6, <1>7 DEF Next

\* On any cache, failing and restarting ones included, a call that accepts a
\* proof again without being overtaken does so more than MaxAge after the last
\* acceptance, unless a fault has hit the record of that very proof.
THEOREM AcceptsAreSpaced == Spec => SpacedAccepts
<1>1. TypeOK /\ SpacedInv /\ [Next]_vars => SpacedInv'
  BY NextSpaced
<1>2. ASSUME TypeOK, SpacedInv, NEW r \in Request, Accept(r), ~req[r].raced,
             last[req[r].proof] # Never, req[r].proof \notin faulted
      PROVE  now - last[req[r].proof] > MaxAge
  <2>1. /\ now \in Nat /\ last[req[r].proof] \in Int
        /\ req[r].raced = FALSE /\ req[r].pc = "unseen"
    BY <1>2 DEF TypeOK, CallState, Accept
  <2>2. now > last[req[r].proof] + MaxAge
    BY <1>2, <2>1 DEF SpacedInv
  <2> QED BY SMT, <2>1, <2>2, DPoPAssumption
<1>3. TypeOK /\ SpacedInv =>
        [\A r \in Request :
           Accept(r) /\ ~req[r].raced =>
             LET p == req[r].proof IN
             last[p] # Never /\ p \notin faulted => now - last[p] > MaxAge]_vars
  BY <1>2
<1> QED BY <1>1, <1>3, InitSpaced, TypeCorrect, PTL DEF Spec, SpacedAccepts

-----------------------------------------------------------------------------
\* A call under way holds a signed proof that was fresh when it came in, at
\* most MaxLag ago.
TimelyInv ==
  \A r \in Request : req[r].pc # "idle" =>
    /\ proof[req[r].proof].signed = TRUE
    /\ req[r].at - proof[req[r].proof].iat <= MaxAge
    /\ proof[req[r].proof].iat <= req[r].at + Skew
    /\ req[r].at <= now /\ now <= req[r].at + MaxLag

LEMMA NextTimely ==
  ASSUME TypeOK, TimelyInv, [Next]_vars
  PROVE  TimelyInv'
<1> USE DPoPAssumption
<1>0. /\ now \in Nat
      /\ proof \in [Proof -> [signed : BOOLEAN, iat : Int, nonce : Int]]
      /\ req \in [Request -> CallState]
      /\ \A r \in Request : req[r].at \in Nat
      /\ \A r \in Request : req[r].pc # "idle" => req[r].proof \in Proof
  BY DEF TypeOK, CallState
<1>1. ASSUME NEW p \in Proof, Sign(p) PROVE TimelyInv'
  <2>1. /\ proof[p].signed # TRUE /\ UNCHANGED <<now, req>>
        /\ \A x \in Proof : x # p => proof'[x] = proof[x]
    BY <1>0, <1>1 DEF Sign
  <2>2. \A r \in Request : req[r].pc # "idle" => req[r].proof # p
    BY <1>0, <2>1 DEF TimelyInv
  <2>3. \A r \in Request : req[r].pc # "idle" => proof'[req[r].proof] = proof[req[r].proof]
    BY <1>0, <2>1, <2>2
  <2> QED BY <2>1, <2>3 DEF TimelyInv
<1>2. ASSUME NEW r \in Request, NEW p \in Proof, Present(r, p) PROVE TimelyInv'
  <2>1. \/ UNCHANGED req
        \/ req' = [req EXCEPT ![r] = Call("fresh", p, FALSE, now)]
    BY <1>2 DEF Present
  <2>2. UNCHANGED <<now, proof>> /\ Fresh(proof[p].iat)
    BY <1>2 DEF Present
  <2>3. proof[p].signed = TRUE
    BY <1>0, <1>2 DEF Present
  <2>4. CASE UNCHANGED req
    BY <2>2, <2>4 DEF TimelyInv
  <2>5. CASE req' = [req EXCEPT ![r] = Call("fresh", p, FALSE, now)]
    BY SMT, <1>0, <2>2, <2>3, <2>5 DEF TimelyInv, Call, Fresh
  <2> QED BY <2>1, <2>4, <2>5
<1>3. ASSUME NEW r \in Request, LookUp(r) PROVE TimelyInv'
  <2>1. /\ req[r].pc = "fresh"
        /\ \/ req' = [req EXCEPT ![r] = Idle]
           \/ req' = [req EXCEPT ![r] = Call("unseen", req[r].proof, FALSE, req[r].at)]
    BY <1>3 DEF LookUp
  <2>2. UNCHANGED <<now, proof>>
    BY <1>3 DEF LookUp
  <2> QED BY SMT, <1>0, <2>1, <2>2 DEF TimelyInv, Idle, Call
<1>4. ASSUME NEW r \in Request, Accept(r) PROVE TimelyInv'
  <2>1. \A q \in Request :
           \/ req'[q] = Idle
           \/ /\ req[q].pc = "unseen" /\ req[q].proof = req[r].proof
              /\ req'[q] = Call("unseen", req[r].proof, TRUE, req[q].at)
           \/ req'[q] = req[q]
    BY <1>4 DEF Accept
  <2>2. UNCHANGED <<now, proof>>
    BY <1>4 DEF Accept
  <2>3. \A q \in Request : req'[q].pc # "idle" =>
           req[q].pc # "idle" /\ req'[q].proof = req[q].proof /\ req'[q].at = req[q].at
    <3> TAKE q \in Request
    <3>1. Idle.pc = "idle"
      BY DEF Idle, Call
    <3>2. LET c == Call("unseen", req[r].proof, TRUE, req[q].at)
          IN  c.proof = req[r].proof /\ c.at = req[q].at
      BY DEF Call
    <3> QED BY <2>1, <3>1, <3>2
  <2> QED BY <2>2, <2>3 DEF TimelyInv
<1>5. CASE Tick
  BY SMT, <1>0, <1>5 DEF Tick, TimelyInv
<1>6. CASE Restart
  BY SMT, <1>6 DEF Restart, TimelyInv, Idle, Call
<1>7. CASE UNCHANGED vars
  BY <1>7 DEF vars, TimelyInv
<1> QED BY <1>1, <1>2, <1>3, <1>4, <1>5, <1>6, <1>7 DEF Next

\* Only signed proofs are accepted, and while a call under way is timely, so
\* is what it accepts.
FreshInv ==
  \A p \in Proof : last[p] # Never =>
    /\ proof[p].signed = TRUE
    /\ last[p] >= proof[p].iat - Skew
    /\ last[p] <= proof[p].iat + MaxAge + MaxLag

\* Accepting: the proof is signed and inside the time its iat allows.
LEMMA AcceptTimely ==
  ASSUME TypeOK, TimelyInv, NEW r \in Request, Accept(r)
  PROVE  LET p == req[r].proof IN
         /\ proof[p].signed = TRUE /\ proof[p].iat \in Int
         /\ now >= proof[p].iat - Skew
         /\ now <= proof[p].iat + MaxAge + MaxLag
<1>1. req[r].proof \in Proof /\ req[r].pc = "unseen" /\ req[r].at \in Nat
  BY DEF Accept, TypeOK, CallState
<1>2. proof[req[r].proof].iat \in Int /\ now \in Nat
  BY <1>1 DEF TypeOK
<1>3. /\ proof[req[r].proof].signed = TRUE
      /\ req[r].at - proof[req[r].proof].iat <= MaxAge
      /\ proof[req[r].proof].iat <= req[r].at + Skew
      /\ req[r].at <= now /\ now <= req[r].at + MaxLag
  BY SMT, <1>1 DEF TimelyInv
<1> QED BY SMT, <1>1, <1>2, <1>3, DPoPAssumption

LEMMA NextFresh ==
  ASSUME TypeOK, TimelyInv, FreshInv, [Next]_vars
  PROVE  FreshInv'
<1>1. ASSUME NEW p \in Proof, Sign(p) PROVE FreshInv'
  <2>1. /\ proof[p].signed # TRUE /\ UNCHANGED last
        /\ \A x \in Proof : x # p => proof'[x] = proof[x]
    BY <1>1 DEF Sign, TypeOK
  <2>2. last[p] = Never
    BY <2>1 DEF FreshInv
  <2> QED BY <2>1, <2>2 DEF FreshInv
<1>2. ASSUME NEW r \in Request, Accept(r) PROVE FreshInv'
  <2> DEFINE p == req[r].proof
  <2>1. p \in Proof /\ proof' = proof /\ last' = [last EXCEPT ![p] = now]
    BY <1>2, AcceptEffect
  <2>2. /\ proof[p].signed = TRUE
        /\ now >= proof[p].iat - Skew
        /\ now <= proof[p].iat + MaxAge + MaxLag
    BY <1>2, AcceptTimely
  <2>3. last \in [Proof -> Int]
    BY DEF TypeOK
  <2> HIDE DEF p
  <2> QED BY <2>1, <2>2, <2>3 DEF FreshInv
<1>3. CASE UNCHANGED <<proof, last>>
  BY <1>3 DEF FreshInv
<1> QED BY <1>1, <1>2, <1>3 DEF Next, Present, LookUp, Restart, Tick, vars

\* On any cache, whatever fails: a proof is accepted only inside the time its
\* iat allows, with MaxLag for the call.
THEOREM OnlyFreshProofsAccepted == Spec => []AcceptedWhileFresh
<1>1. Init => TimelyInv /\ FreshInv
  BY SMT DEF Init, TimelyInv, FreshInv, Idle, Call
<1>2. TypeOK /\ TimelyInv /\ [Next]_vars => TimelyInv'
  BY NextTimely
<1>3. TypeOK /\ TimelyInv /\ FreshInv /\ [Next]_vars => FreshInv'
  BY NextFresh
<1>4. FreshInv => AcceptedWhileFresh
  BY DEF FreshInv, AcceptedWhileFresh
<1> QED BY <1>1, <1>2, <1>3, <1>4, TypeCorrect, PTL DEF Spec

-----------------------------------------------------------------------------
\* The first acceptance is not before iat - Skew, and the second more than
\* MaxAge later; a third would come when the proof is too old.
CountInv ==
  \A p \in Proof : p \notin faulted =>
    /\ accepts[p] <= 2
    /\ accepts[p] >= 1 => last[p] # Never
    /\ accepts[p] >= 2 => last[p] > proof[p].iat - Skew + MaxAge

LEMMA NextCount ==
  ASSUME MaxAge >= Skew + MaxLag,
         TypeOK, SpacedInv, TimelyInv, FreshInv, CountInv, [Next]_vars
  PROVE  CountInv'
<1> USE DPoPAssumption
<1>0. /\ now \in Nat /\ now # Never
      /\ proof \in [Proof -> [signed : BOOLEAN, iat : Int, nonce : Int]]
      /\ last \in [Proof -> Int] /\ accepts \in [Proof -> 0..Many]
  BY SMT DEF TypeOK, Never
<1>1. ASSUME NEW p \in Proof, Sign(p) PROVE CountInv'
  <2>1. /\ proof[p].signed # TRUE /\ UNCHANGED <<last, accepts, faulted>>
        /\ \A x \in Proof : x # p => proof'[x] = proof[x]
    BY <1>0, <1>1 DEF Sign
  <2>2. p \notin faulted => accepts[p] = 0
    <3>1. accepts[p] \in 0..3
      BY <1>0 DEF Many
    <3>2. p \notin faulted => ~(accepts[p] >= 1)
      BY <2>1 DEF CountInv, FreshInv
    <3> QED BY SMT, <3>1, <3>2
  <2> QED BY SMT, <2>1, <2>2 DEF CountInv
<1>2. ASSUME NEW r \in Request, Accept(r) PROVE CountInv'
  <2> DEFINE p == req[r].proof
  <2>1. /\ p \in Proof /\ req[r].pc = "unseen" /\ proof' = proof
        /\ last' = [last EXCEPT ![p] = now] /\ faulted \subseteq faulted'
        /\ req[r].raced \in BOOLEAN
    BY <1>2, AcceptEffect DEF TypeOK, CallState
  <2>2. /\ proof[p].iat \in Int
        /\ now >= proof[p].iat - Skew
        /\ now <= proof[p].iat + MaxAge + MaxLag
    BY <1>2, AcceptTimely
  <2>3. /\ accepts' = IF req[r].raced THEN accepts ELSE [accepts EXCEPT ![p] = Counted(@)]
        /\ \A x \in Proof : x # p => accepts'[x] = accepts[x] /\ last'[x] = last[x]
    BY <1>0, <1>2, <2>1 DEF Accept
  <2>4. /\ last'[p] = now
        /\ last[p] # Never => last[p] <= now /\ last[p] >= proof[p].iat - Skew
    BY <1>0, <2>1 DEF SpacedInv, FreshInv
  <2>5. ASSUME p \notin faulted
        PROVE  /\ accepts'[p] <= 2
               /\ accepts'[p] >= 2 => now > proof[p].iat - Skew + MaxAge
    <3>0. /\ accepts[p] \in 0..3 /\ accepts[p] <= 2 /\ last[p] \in Int
          /\ accepts[p] >= 1 => last[p] # Never
          /\ accepts[p] >= 2 => last[p] > proof[p].iat - Skew + MaxAge
      BY <1>0, <2>1, <2>5 DEF CountInv, Many
    <3>1. CASE req[r].raced = TRUE
      <4>1. accepts'[p] = accepts[p]
        BY <2>3, <3>1
      <4> HIDE DEF p
      <4> QED BY SMT, <1>0, <2>2, <2>4, <3>0, <4>1
    <3>2. CASE req[r].raced = FALSE
      <4>1. last[p] # Never => now > last[p] + MaxAge
        BY <2>1, <2>5, <3>2 DEF SpacedInv
      <4>2. accepts[p] <= 1
        <5> HIDE DEF p
        <5> QED BY SMT, <1>0, <2>2, <2>4, <3>0, <4>1
      <4>3. accepts'[p] = accepts[p] + 1
        <5>1. accepts'[p] = Counted(accepts[p])
          BY <1>0, <2>1, <2>3, <3>2
        <5> HIDE DEF p
        <5> QED BY SMT, <3>0, <4>2, <5>1 DEF Counted, Many
      <4> HIDE DEF p
      <4> QED BY SMT, <1>0, <2>2, <2>4, <3>0, <4>1, <4>2, <4>3
    <3> QED BY <2>1, <3>1, <3>2
  <2> HIDE DEF p
  <2> QED BY <1>0, <2>1, <2>3, <2>4, <2>5 DEF CountInv
<1>3. CASE UNCHANGED <<proof, last, accepts>> /\ faulted \subseteq faulted'
  BY <1>3 DEF CountInv
<1>4. ASSUME NEW r \in Request, LookUp(r)
      PROVE  UNCHANGED <<proof, last, accepts>> /\ faulted \subseteq faulted'
  BY <1>4 DEF LookUp
<1> QED BY <1>1, <1>2, <1>3, <1>4 DEF Next, Present, Restart, Tick, vars

\* On any cache, failing and restarting ones included, and with MaxAge of at
\* least Skew + MaxLag, calls that are not overtaken accept no proof more than
\* twice, unless a fault has hit the record of that very proof.
THEOREM AtMostTwoAcceptances == Spec => []AcceptedTwiceAtMost
<1>1. CASE MaxAge >= Skew + MaxLag
  <2>1. Init => SpacedInv /\ TimelyInv /\ FreshInv /\ CountInv
    BY SMT, InitSpaced DEF Init, TimelyInv, FreshInv, CountInv, Idle, Call
  <2>2. /\ TypeOK /\ SpacedInv /\ [Next]_vars => SpacedInv'
        /\ TypeOK /\ TimelyInv /\ [Next]_vars => TimelyInv'
        /\ TypeOK /\ TimelyInv /\ FreshInv /\ [Next]_vars => FreshInv'
    BY NextSpaced, NextTimely, NextFresh
  <2>3. TypeOK /\ SpacedInv /\ TimelyInv /\ FreshInv /\ CountInv /\ [Next]_vars => CountInv'
    BY <1>1, NextCount
  <2>4. CountInv => AcceptedTwiceAtMost
    BY DEF CountInv, AcceptedTwiceAtMost
  <2> QED BY <2>1, <2>2, <2>3, <2>4, TypeCorrect, PTL DEF Spec
<1>2. CASE ~(MaxAge >= Skew + MaxLag)
  <2>1. AcceptedTwiceAtMost
    BY <1>2 DEF AcceptedTwiceAtMost
  <2> QED BY <2>1, PTL
<1> QED BY <1>1, <1>2
=============================================================================
