---------------------------- MODULE Idempotency ----------------------------
(***************************************************************************)
(* What an idempotency key promises (API_CONTRACT.md section 4, as the     *)
(* header of packages/app/src/api/idempotency.ts quotes it): of the        *)
(* requests that carry one key, at most one is performed while the key is  *)
(* retained, and each of the others is answered with that one's response,  *)
(* or refused.                                                             *)
(***************************************************************************)
CONSTANTS Requests, Keys, KeyOf, BodyOf, NONE, REFUSED

VARIABLES
  effects,      \* the requests performed, of keys still retained
  answers,      \* the request whose response each was given, or REFUSED
  old           \* keys whose retention is over

idemVars == <<effects, answers, old>>

Init ==
  /\ effects = {}
  /\ answers = [r \in Requests |-> NONE]
  /\ old = {}

Unanswered(r) == answers[r] = NONE

Perform(r) ==
  /\ Unanswered(r)
  /\ \A e \in effects : KeyOf[e] # KeyOf[r]
  /\ effects' = effects \cup {r}
  /\ answers' = [answers EXCEPT ![r] = r]
  /\ UNCHANGED old

Replay(r) ==
  /\ Unanswered(r)
  /\ \E e \in effects :
       /\ KeyOf[e] = KeyOf[r] /\ BodyOf[e] = BodyOf[r]
       /\ answers' = [answers EXCEPT ![r] = e]
  /\ UNCHANGED <<effects, old>>

Refuse(r) ==
  /\ Unanswered(r)
  /\ answers' = [answers EXCEPT ![r] = REFUSED]
  /\ UNCHANGED <<effects, old>>

Expire(k) ==
  /\ old' = old \cup {k}
  /\ UNCHANGED <<effects, answers>>

Forget ==
  /\ effects' = {e \in effects : KeyOf[e] \notin old}
  /\ old' = {}
  /\ UNCHANGED answers

Next ==
  \/ \E r \in Requests : Perform(r) \/ Replay(r) \/ Refuse(r)
  \/ \E k \in Keys : Expire(k)
  \/ Forget

Spec == Init /\ [][Next]_idemVars
=============================================================================
