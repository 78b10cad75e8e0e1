-------------------------------- MODULE Api --------------------------------
(***************************************************************************)
(* The request pipeline of the public API (apps/api/src/pipeline.ts): the  *)
(* key is resolved, the rate limit counted, and the operation performed    *)
(* under its idempotency claim (packages/app/src/api/idempotency.ts).      *)
(*                                                                         *)
(* A request's claim, its operation and the response to replay commit in   *)
(* one transaction; inserting a claim another transaction holds waits for  *)
(* that one, and gives up after CLAIM_LOCK_TIMEOUT_MS.  Clients repeat a   *)
(* request under its key while the first is still running, after its       *)
(* process died, or after its response was lost; the retention sweep       *)
(* deletes claims meanwhile, and the API key may be revoked.               *)
(***************************************************************************)
EXTENDS Integers

CONSTANTS
  Requests,     \* the requests sent, the repeated ones included
  Keys,         \* idempotency keys, with the endpoint each is used on
  KeyOf,        \* the key of each request
  BodyOf,       \* the fingerprint of each request
  Limit,        \* RateLimitPolicy.limit
  NONE, REFUSED

ASSUME ApiAssumption ==
  /\ KeyOf \in [Requests -> Keys]
  /\ Limit \in Nat \ {0}
  /\ NONE \notin Requests \cup Keys /\ REFUSED \notin Requests \cup {NONE}

VARIABLES
  phase,        \* how far the pipeline has got with each request
  claims,       \* idempotency_claims: the request that wrote the key's claim
  holder,       \* the claim a transaction has inserted and not committed
  effects,      \* operations committed, of keys whose claim is not swept
  answers,      \* the answer decided for each request
  old,          \* keys whose claim is past expires_at
  revoked,      \* api_keys.revoked_at
  rate,         \* api_rate_limits: the window's count, and whether it is over
  admitted,     \* requests the limit let through in the window
  racedFirst    \* two requests counted themselves the bucket's first

txVars == <<claims, holder, effects>>
rateVars == <<rate, admitted, racedFirst>>
apiVars == <<phase, txVars, answers, old, revoked, rateVars>>

Phases == {"new", "limiting", "counting", "confirming", "claiming", "working", "looking", "done"}

goTo(r, p) == phase' = [phase EXCEPT ![r] = p]

answer(r, a) ==
  /\ goTo(r, "done")
  /\ answers' = [answers EXCEPT ![r] = a]

-----------------------------------------------------------------------------
(* Before the transaction *)

(***************************************************************************)
(* resolveApiKey, in a statement of its own.                               *)
(***************************************************************************)
resolveApiKey(r) ==
  /\ phase[r] = "new"
  /\ \/ ~revoked /\ goTo(r, "limiting") /\ UNCHANGED answers
     \/ revoked /\ answer(r, REFUSED)
  /\ UNCHANGED <<txVars, old, revoked, rateVars>>

NoRow == [found |-> FALSE, over |-> FALSE, count |-> 0]

used(row) == IF row.over THEN 0 ELSE row.count

allowsOneMore(row) == used(row) <= Limit                 \* mutant: off by one

evaluateRateLimit(row) == used(row) < Limit

(***************************************************************************)
(* RateLimiter.consume: SELECT ... FOR UPDATE, decide, upsert.  With no    *)
(* row to lock the upsert is a step of its own, and overwrites the count   *)
(* of whoever came first too.                                              *)
(***************************************************************************)
consume(r) ==
  /\ phase[r] = "limiting"
  /\ \/ /\ rate.found /\ evaluateRateLimit(rate)
        /\ rate' = [found |-> TRUE, over |-> FALSE, count |-> used(rate) + 1]
        /\ admitted' = IF rate.over THEN 1 ELSE admitted + 1
        /\ goTo(r, "confirming") /\ UNCHANGED answers
     \/ /\ rate.found /\ ~evaluateRateLimit(rate)
        /\ answer(r, REFUSED) /\ UNCHANGED <<rate, admitted>>
     \/ /\ ~rate.found
        /\ goTo(r, "counting") /\ UNCHANGED <<rate, admitted, answers>>
  /\ UNCHANGED <<txVars, old, revoked, racedFirst>>

countFirst(r) ==
  /\ phase[r] = "counting"
  /\ rate' = [found |-> TRUE, over |-> FALSE, count |-> 1]
  /\ admitted' = admitted + 1
  /\ racedFirst' = (racedFirst \/ rate.found)
  /\ goTo(r, "confirming")
  /\ UNCHANGED <<txVars, answers, old, revoked>>

(***************************************************************************)
(* windowSeconds pass; a transaction that counts does not take that long.  *)
(***************************************************************************)
windowPasses ==
  /\ rate.found /\ ~rate.over /\ \A r \in Requests : phase[r] # "counting"
  /\ rate' = [rate EXCEPT !.over = TRUE]
  /\ UNCHANGED <<phase, txVars, answers, old, revoked, admitted, racedFirst>>

revokeApiKey ==
  /\ ~revoked /\ revoked' = TRUE
  /\ UNCHANGED <<phase, txVars, answers, old, rateVars>>

-----------------------------------------------------------------------------
(* The transaction *)

(***************************************************************************)
(* withTenant, and confirmKeyInScope in it.                                *)
(***************************************************************************)
confirmKeyInScope(r) ==
  /\ phase[r] = "confirming"
  /\ \/ ~revoked /\ goTo(r, "claiming") /\ UNCHANGED answers
     \/ revoked /\ answer(r, REFUSED)
  /\ UNCHANGED <<txVars, old, revoked, rateVars>>

(***************************************************************************)
(* The slot of the unique index is neither committed nor held.             *)
(***************************************************************************)
slotFree(k) == claims[k] = NONE /\ holder[k] = NONE

(***************************************************************************)
(* INSERT ... ON CONFLICT DO NOTHING: the claim is inserted, or another is *)
(* there, or a transaction holds the slot and the insert waits until it    *)
(* ends, or until lock_timeout: 409 idempotency_in_progress.               *)
(***************************************************************************)
insertClaim(r) ==
  LET k == KeyOf[r]
  IN  /\ phase[r] = "claiming"
      /\ \/ slotFree(k) /\ holder' = [holder EXCEPT ![k] = r] /\ goTo(r, "working") /\ UNCHANGED answers
         \/ claims[k] # NONE /\ goTo(r, "looking") /\ UNCHANGED <<holder, answers>>
         \/ holder[k] # NONE /\ answer(r, REFUSED) /\ UNCHANGED holder
      /\ UNCHANGED <<claims, effects, old, revoked, rateVars>>

(***************************************************************************)
(* The operation succeeds, and it, the claim and the response commit.      *)
(***************************************************************************)
commit(r) ==
  /\ phase[r] = "working"
  /\ claims' = [claims EXCEPT ![KeyOf[r]] = r]
  /\ holder' = [holder EXCEPT ![KeyOf[r]] = NONE]
  /\ effects' = effects \cup {r}
  /\ answer(r, r)
  /\ UNCHANGED <<old, revoked, rateVars>>

keepsClaim(r) == UNCHANGED holder                        \* mutant: the claim stays in the way

rollback(r) ==
  holder' = [k \in Keys |-> IF holder[k] = r THEN NONE ELSE holder[k]]

(***************************************************************************)
(* It refuses: the ApiError aborts the transaction, claim and all.         *)
(***************************************************************************)
refuse(r) ==
  /\ phase[r] = "working"
  /\ rollback(r)
  /\ answer(r, REFUSED)
  /\ UNCHANGED <<claims, effects, old, revoked, rateVars>>

(***************************************************************************)
(* The process dies before the answer was decided: none is ever given.     *)
(***************************************************************************)
crash(r) ==
  /\ phase[r] \notin {"new", "done"}
  /\ rollback(r)
  /\ goTo(r, "done")
  /\ UNCHANGED <<claims, effects, answers, old, revoked, rateVars>>

replaysAnyBody(r) == claims[KeyOf[r]] # NONE             \* mutant: fingerprints not compared

(***************************************************************************)
(* Found, with the same fingerprint: its response is replayed.             *)
(***************************************************************************)
replayable(r) ==
  LET found == claims[KeyOf[r]]
  IN  found # NONE /\ BodyOf[found] = BodyOf[r]

(***************************************************************************)
(* The claim read in a statement of its own: swept in between (a 500 that  *)
(* executed nothing), of another request (409 idempotency_key_reuse), or   *)
(* replayed.                                                               *)
(***************************************************************************)
lookup(r) ==
  /\ phase[r] = "looking"
  /\ \/ replayable(r) /\ answer(r, claims[KeyOf[r]])
     \/ ~replayable(r) /\ answer(r, REFUSED)
  /\ UNCHANGED <<txVars, old, revoked, rateVars>>

(***************************************************************************)
(* Retention: 24 hours after it was written a claim may be swept.          *)
(***************************************************************************)
expire(k) ==
  /\ claims[k] # NONE /\ k \notin old
  /\ old' = old \cup {k}
  /\ UNCHANGED <<phase, txVars, answers, revoked, rateVars>>

sweepExpiredIdempotencyClaims ==
  /\ old # {}
  /\ claims' = [k \in Keys |-> IF k \in old THEN NONE ELSE claims[k]]
  /\ effects' = {e \in effects : KeyOf[e] \notin old}
  /\ old' = {}
  /\ UNCHANGED <<phase, holder, answers, revoked, rateVars>>

-----------------------------------------------------------------------------
ApiInit ==
  /\ phase = [r \in Requests |-> "new"]
  /\ claims = [k \in Keys |-> NONE]
  /\ holder = [k \in Keys |-> NONE]
  /\ effects = {}
  /\ answers = [r \in Requests |-> NONE]
  /\ old = {}
  /\ revoked = FALSE
  /\ rate = NoRow /\ admitted = 0 /\ racedFirst = FALSE

Handling(r) ==
  \/ consume(r) \/ countFirst(r) \/ confirmKeyInScope(r) \/ insertClaim(r)
  \/ commit(r) \/ refuse(r) \/ lookup(r)

ApiNext ==
  \/ \E r \in Requests : resolveApiKey(r) \/ Handling(r) \/ crash(r)
  \/ \E k \in Keys : expire(k)
  \/ sweepExpiredIdempotencyClaims
  \/ revokeApiKey
  \/ windowPasses

(***************************************************************************)
(* A request that was let in is handled to its end.                        *)
(***************************************************************************)
ApiSpec == ApiInit /\ [][ApiNext]_apiVars /\ WF_apiVars(\E r \in Requests : Handling(r))

-----------------------------------------------------------------------------
(* Properties *)

(***************************************************************************)
(* Types; a claim is held only by the request working under it, and a held *)
(* slot has no committed claim.                                            *)
(***************************************************************************)
ApiTypeOK ==
  /\ phase \in [Requests -> Phases]
  /\ claims \in [Keys -> Requests \cup {NONE}]
  /\ holder \in [Keys -> Requests \cup {NONE}]
  /\ answers \in [Requests -> Requests \cup {NONE, REFUSED}]
  /\ effects \subseteq Requests
  /\ old \subseteq Keys
  /\ revoked \in BOOLEAN /\ racedFirst \in BOOLEAN
  /\ rate \in [found : BOOLEAN, over : BOOLEAN, count : Nat] /\ admitted \in Nat
  /\ \A r \in Requests, k \in Keys : holder[k] = r <=> phase[r] = "working" /\ KeyOf[r] = k
  /\ \A k \in Keys : holder[k] # NONE => claims[k] = NONE

(***************************************************************************)
(* withIdempotencyClaim keeps the promise of the abstract specification:   *)
(* concurrent repeats, crashes, waits and sweeps of live claims included,  *)
(* one key performs once and every other answer is that one's.             *)
(***************************************************************************)
Promise == INSTANCE Idempotency
KeyPerformsOnce == Promise!Spec

(***************************************************************************)
(* The limit holds in every window, except that requests which found no    *)
(* row at all may each have counted themselves the first.                  *)
(***************************************************************************)
AdmittedWithinLimit == admitted > Limit => racedFirst

(***************************************************************************)
(* A key does not stay in progress: whoever holds its claim commits, is    *)
(* refused or dies, and a repeat is then performed or answered.            *)
(***************************************************************************)
NoKeyIsStuck == []<>(\A k \in Keys : holder[k] = NONE)
=============================================================================
