---------------------------- MODULE AuthServer ----------------------------
(***************************************************************************)
(* What a resource server expects of an authorization server it asks about *)
(* tokens (RFC 7662, as pkg/core/token/introspect.go uses it): tokens      *)
(* become active and inactive at any time, and an answer was true at some  *)
(* instant between the question and the answer.  It may be out of date     *)
(* when it arrives, but it is never older than its question.               *)
(***************************************************************************)
CONSTANTS
  Caller,  \* whoever may have one question open
  Raw      \* tokens, as strings

VARIABLES
  active,  \* [Raw -> whether the token is active]
  call     \* [Caller -> its question and, once there is one, the answer]

vars == <<active, call>>

NoCall == [state |-> "none"]
Open(raw, truths) == [state |-> "open", raw |-> raw, truths |-> truths]
Answered(answer) == [state |-> "answered", answer |-> answer]

Init ==
  /\ active = [raw \in Raw |-> FALSE]
  /\ call = [c \in Caller |-> NoCall]

\* A token is issued, revoked or expires; open questions may be answered by
\* what was true before as well as by what is true now.
Change ==
  /\ active' \in [Raw -> BOOLEAN]
  /\ call' = [c \in Caller |->
       IF call[c].state = "open"
       THEN Open(call[c].raw, call[c].truths \cup {active'[call[c].raw]})
       ELSE call[c]]

Ask(c, raw) ==
  /\ call[c].state = "none"
  /\ call' = [call EXCEPT ![c] = Open(raw, {active[raw]})]
  /\ UNCHANGED active

Reply(c) ==
  /\ call[c].state = "open"
  /\ \E answer \in call[c].truths : call' = [call EXCEPT ![c] = Answered(answer)]
  /\ UNCHANGED active

\* The caller has read the answer, or has given up waiting for one.
Leave(c) ==
  /\ call[c].state # "none"
  /\ call' = [call EXCEPT ![c] = NoCall]
  /\ UNCHANGED active

Next ==
  \/ Change
  \/ \E c \in Caller : (\E raw \in Raw : Ask(c, raw)) \/ Reply(c) \/ Leave(c)

Spec == Init /\ [][Next]_vars
=============================================================================
