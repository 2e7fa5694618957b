------------------------------- MODULE Webhook -------------------------------
(***************************************************************************)
(* RevocationHandler (pkg/core/token/revocation.go): a webhook event names *)
(* a token hash, a jti, a session or a subject; process resolves it to     *)
(* cache keys and deletes them one by one.  204 is the answer when process *)
(* returned nil, 500 when it returned an error.  Deliveries run            *)
(* concurrently with each other and with the request path, and each call   *)
(* to the cache is a step.                                                 *)
(*                                                                         *)
(* A delivery that is not a POST, fails the signature check or does not    *)
(* parse is refused before process, and an event without a reference makes *)
(* process fail at once: neither touches the cache, and both are           *)
(* stuttering steps here.                                                  *)
(***************************************************************************)
EXTENDS ClaimsCache

CONSTANTS
  Hook,   \* webhook deliveries being handled
  Event   \* the events the authorization server sends

\* RevocationEvent, its fields None when omitted from the JSON.
EventRecord ==
  [hash : Token \cup {None}, jti : Id \cup {None}, sid : Id \cup {None},
   sub : Id \cup {None}, all : BOOLEAN]

ASSUME EventAssumption == Event \subseteq EventRecord

VARIABLES
  hook,   \* [Hook -> the local state of a call to process]
  acked   \* history: the references answered with 204

\* The reference process acts on: the first of the fields, in the code's
\* order, that is set.  A subject counts only with revoke_all.
Reference(ev) ==
  IF ev.hash # None THEN <<"hash", ev.hash>>
  ELSE IF ev.jti # None THEN <<"jti", ev.jti>>
  ELSE IF ev.sid # None THEN <<"sid", ev.sid>>
  ELSE IF ev.all /\ ev.sub # None THEN <<"sub", ev.sub>>
  ELSE <<"none", None>>

Ref == ({"hash"} \X Token) \cup {k \in IndexKey : k[2] # None}

\* The tokens a reference is about.
Covered(ref) ==
  IF ref[1] = "hash" THEN {ref[2]}
  ELSE {t \in Token : <<ref[1], ClaimsOf[t][ref[1]]>> = ref}

\* first and last are the keys still to delete, in that order; listed is the
\* set of tokens the reference was resolved to; failed is firstErr # nil.
Delivery(pc, ref, first, last, listed, failed) ==
  [pc |-> pc, ref |-> ref, first |-> first, last |-> last,
   listed |-> listed, failed |-> failed]

Free == Delivery("free", <<>>, {}, {}, {}, FALSE)

HookState ==
  [pc : {"free", "resolve", "delete"}, ref : Ref \cup {<<>>},
   first : SUBSET Key, last : SUBSET Key, listed : SUBSET Token,
   failed : BOOLEAN]

HookTypeOK ==
  /\ hook \in [Hook -> HookState]
  /\ \A h \in Hook : /\ hook[h].pc # "free" => hook[h].ref \in Ref
                     /\ hook[h].pc = "resolve" => hook[h].ref \in IndexKey
  /\ acked \subseteq Ref

HookInit ==
  /\ hook = [h \in Hook |-> Free]
  /\ acked = {}

-----------------------------------------------------------------------------
\* Mutant of Receive: a token hash is looked up in the index like the rest.
ReceiveToIndex(h, ev) ==
  /\ hook[h].pc = "free"
  /\ Reference(ev) \in Ref
  /\ hook' = [hook EXCEPT ![h] = Delivery("resolve", Reference(ev), {}, {}, {}, FALSE)]
  /\ UNCHANGED <<now, cache, acked>>

\* ServeHTTP and the head of process.  A hash needs no lookup.
Receive(h, ev) ==
  LET ref == Reference(ev) IN
  /\ hook[h].pc = "free"
  /\ ref \in Ref
  /\ hook' = [hook EXCEPT ![h] =
       IF ref[1] = "hash"
       THEN Delivery("delete", ref, {ref[2]}, {}, {ref[2]}, FALSE)
       ELSE Delivery("resolve", ref, {}, {}, {}, FALSE)]
  /\ UNCHANGED <<now, cache, acked>>

\* Mutant of Resolve: the jti is taken for the cache key, no index lookup.
ResolveWithoutIndex(h) ==
  /\ hook[h].pc = "resolve"
  /\ hook' = [hook EXCEPT ![h] = Delivery("delete", hook[h].ref, {}, {}, {}, FALSE)]
  /\ UNCHANGED <<now, cache, acked>>

\* lookupIndexHash / indexHashes.  For a jti the index entry goes first and
\* then the token; for a session or a subject the tokens go first.  A jti
\* that is not indexed is deleted as a key of its own, which nothing in the
\* gateway writes: that call can only succeed or fail.
Resolve(h) ==
  LET ref == hook[h].ref IN
  /\ hook[h].pc = "resolve"
  /\ \E ok \in Outcome, failed \in {~o : o \in Outcome} :
       LET hashes == IndexHashes(ref, ok) IN
       hook' = [hook EXCEPT ![h] =
         IF ref[1] # "jti" THEN Delivery("delete", ref, hashes, {ref}, hashes, FALSE)
         ELSE IF hashes # {} THEN Delivery("delete", ref, {ref}, hashes, hashes, FALSE)
         ELSE Delivery("delete", ref, {}, {}, {}, failed)]
  /\ UNCHANGED <<now, cache, acked>>

\* Mutant of ErrorIgnored: every failed Delete is ignored.
EveryErrorIgnored(ref, k) == TRUE

\* Whether process drops the error of deleting key k.
ErrorIgnored(ref, k) == ref[1] = "jti" /\ k = ref

\* One cache.Delete of process or of the loop of deleteIndexedTokens, which
\* goes on after an error and remembers it.
DeleteKey(h, k) ==
  LET ref == hook[h].ref  first == hook[h].first  last == hook[h].last IN
  /\ hook[h].pc = "delete"
  /\ k \in IF first # {} THEN first ELSE last
  /\ \E ok \in Outcome :
       /\ Delete(k, ok)
       /\ hook' = [hook EXCEPT ![h] =
            Delivery("delete", ref, first \ {k},
                     IF first # {} THEN last ELSE last \ {k}, hook[h].listed,
                     hook[h].failed \/ (~ok /\ ~ErrorIgnored(ref, k)))]
  /\ UNCHANGED <<now, acked>>

\* process has returned: 204, or 500 when it returned an error.  The sender
\* may deliver the event again, after either.
Reply(h) ==
  /\ hook[h].pc = "delete"
  /\ hook[h].first = {} /\ hook[h].last = {}
  /\ acked' = IF hook[h].failed THEN acked ELSE acked \cup {hook[h].ref}
  /\ hook' = [hook EXCEPT ![h] = Free]
  /\ UNCHANGED <<now, cache>>
=============================================================================
