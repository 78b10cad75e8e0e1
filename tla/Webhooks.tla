------------------------------ MODULE Webhooks ------------------------------
(***************************************************************************)
(* Outbound webhooks: the outbox, the fan-out into deliveries, the         *)
(* attempts of the delivery job, and the life of an endpoint               *)
(* (packages/app/src/webhook-delivery.service.ts and webhook.service.ts).  *)
(*                                                                         *)
(* The fan-out is one transaction.  An attempt is three steps: a           *)
(* transaction that reads what to send, the post, which holds no lock, and *)
(* a transaction that records the answer; other attempts, deletions and    *)
(* re-openings of the endpoint happen in between.  A worker may die at any *)
(* of them, or lose its job to another while it is still running.          *)
(***************************************************************************)
EXTENDS Integers, FiniteSets

CONSTANTS
  Endpoints,
  CustomerEvents,     \* events of a type in CUSTOMER_EVENT_TYPES
  InternalEvents,     \* the others
  Wants,              \* the event types each endpoint listed; {} is every type
  Workers,            \* bound: attempts under way at once, 1..n
  MaxAttempts,        \* RETRY_SCHEDULE_SECONDS.length + 1: 14
  CircuitAfter,       \* CIRCUIT_BREAK_AFTER_CONSECUTIVE_FAILURES: 20
  MaxReplays,         \* bound: replays and test events
  MaxRotations,       \* bound: secrets of an endpoint, less one
  MaxFaults,          \* bound: worker crashes and expired job locks
  TEST                \* TEST_EVENT_TYPE

ASSUME WebhooksAssumption ==
  /\ CustomerEvents \cap InternalEvents = {}
  /\ TEST \notin CustomerEvents \cup InternalEvents
  /\ Wants \in [Endpoints -> SUBSET CustomerEvents]
  /\ MaxAttempts \in Nat \ {0} /\ CircuitAfter \in Nat /\ MaxAttempts < CircuitAfter
  /\ {MaxReplays, MaxRotations, MaxFaults} \subseteq Nat

VARIABLES
  endpoints,          \* webhook_endpoints
  outbox,             \* outbox: "none", "pending" or "delivered" for each event
  deliveries,         \* webhook_deliveries, by endpoint, event and origin
  log,                \* webhook_attempts: what was answered, by attempt number
  queue,              \* webhook.deliver jobs, keyed by delivery
  workers,            \* what each worker read and has been answered
  faults

whVars == <<endpoints, outbox, deliveries, log, queue, workers, faults>>

Events == CustomerEvents \cup InternalEvents
Keys == (Endpoints \X CustomerEvents \X {"outbox", "replay"}) \cup (Endpoints \X {TEST} \X {"test"})
Outcomes == {"delivered", "rejected", "retryable"}
Settled == {"succeeded", "exhausted"}

NoDelivery == [status |-> "none", attempts |-> 0]
NoEndpoint == [status |-> "none", openedAt |-> FALSE, failures |-> 0, secret |-> 0, previous |-> 0,
               inARow |-> 0, overtaken |-> FALSE]
Idle == [key |-> << >>, number |-> 0, failures |-> 0, secret |-> 0, previous |-> 0, answer |-> "none"]

Busy == {w \in Workers : workers[w] # Idle}

(***************************************************************************)
(* inARow and overtaken are history, for a property alone: the failed      *)
(* attempts recorded since the endpoint last took a delivery or was        *)
(* reopened, and whether one of them recorded a failure count that had     *)
(* changed since its worker read it.                                       *)
(***************************************************************************)
inARowAfter(ep, run) == IF run.answer = "delivered" THEN 0 ELSE ep.inARow + 1

overtakenAfter(ep, run) ==
  run.answer # "delivered" /\ (ep.overtaken \/ run.failures # ep.failures)

-----------------------------------------------------------------------------
(* The outbox and its fan-out *)

(***************************************************************************)
(* eventSink.event with `deliver`: the outbox row is in the transaction of *)
(* the change the event tells.                                             *)
(***************************************************************************)
event(ev) ==
  /\ outbox[ev] = "none"
  /\ outbox' = [outbox EXCEPT ![ev] = "pending"]
  /\ UNCHANGED <<endpoints, deliveries, log, queue, workers, faults>>

isCustomerEventType(ev) == ev \in CustomerEvents

endpointWantsEvent(e, ev) ==
  /\ isCustomerEventType(ev)
  /\ Wants[e] = {} \/ ev \in Wants[e]

pendingDelivery == [status |-> "pending", attempts |-> 0]

unqueuedDrain(ks) == UNCHANGED queue                     \* mutant: no job

enqueueDeliveries(ks) == queue' = queue \cup ks

(***************************************************************************)
(* drainOutbox: SKIP LOCKED and LIMIT decide which pending rows.  A row    *)
(* wanted by no endpoint enabled now is delivered to nobody.               *)
(***************************************************************************)
drainOutbox(rows) ==
  LET fanOut == {<<e, ev, "outbox">> : e \in {x \in Endpoints : endpoints[x].status = "enabled"},
                                       ev \in {y \in rows : isCustomerEventType(y)}}
      new == {k \in fanOut : endpointWantsEvent(k[1], k[2]) /\ deliveries[k] = NoDelivery}
  IN  /\ rows # {} /\ \A ev \in rows : outbox[ev] = "pending"
      /\ deliveries' = [k \in Keys |-> IF k \in new THEN pendingDelivery ELSE deliveries[k]]
      /\ enqueueDeliveries(new)
      /\ outbox' = [ev \in Events |-> IF ev \in rows THEN "delivered" ELSE outbox[ev]]
      /\ UNCHANGED <<endpoints, log, workers, faults>>

-----------------------------------------------------------------------------
(* One attempt *)

(***************************************************************************)
(* loadContext, by a worker that took the job: the delivery settled, or    *)
(* the endpoint disabled, ends the job.  A deleted endpoint does not.  The *)
(* workers are alike: the first idle one takes the job.                    *)
(***************************************************************************)
skipped(k) == deliveries[k].status \in Settled \/ endpoints[k[1]].status = "disabled"

loadContext(w, k) ==
  /\ k \in queue /\ w \notin Busy /\ \A v \in Workers : v < w => v \in Busy
  /\ queue' = queue \ {k}
  /\ workers' = [workers EXCEPT ![w] =
       IF skipped(k) THEN Idle
       ELSE [key |-> k, number |-> deliveries[k].attempts + 1,
             failures |-> endpoints[k[1]].failures,
             secret |-> endpoints[k[1]].secret, previous |-> endpoints[k[1]].previous,
             answer |-> "none"]]
  /\ UNCHANGED <<endpoints, outbox, deliveries, log, faults>>

(***************************************************************************)
(* The post, and classifyResponse: 2xx, a 4xx that repeating will not      *)
(* change, and everything else, a timeout or an unreachable host included. *)
(***************************************************************************)
post(w, answer) ==
  /\ w \in Busy /\ workers[w].answer = "none"
  /\ workers' = [workers EXCEPT ![w].answer = answer]
  /\ UNCHANGED <<endpoints, outbox, deliveries, log, queue, faults>>

(***************************************************************************)
(* liveSecretsFor, and the header of a post: one signature for every live  *)
(* secret its worker read (0 is no secret).  The receiver takes the post   *)
(* when any of them is by a secret it holds; a post is far shorter than    *)
(* the 300 seconds its timestamp may be off.                               *)
(***************************************************************************)
liveSecretsFor(row) == {row.secret, row.previous} \ {0}

buildSignatureHeader(run) == [signedWith : liveSecretsFor(run)]

verifySignature(header, secrets) == \E v1 \in header : v1.signedWith \in secrets

nextAttemptShort(number) == number + 1 < MaxAttempts     \* mutant: one attempt less

nextAttempt(number) == number < MaxAttempts

retries(run) == run.answer = "retryable" /\ nextAttempt(run.number)

opensEarly(before, answer) ==                            \* mutant: off by one
  IF answer = "delivered" THEN [open |-> FALSE, failures |-> 0]
  ELSE [open |-> before + 2 >= CircuitAfter, failures |-> before + 1]

endpointHealthAfter(before, answer) ==
  IF answer = "delivered" THEN [open |-> FALSE, failures |-> 0]
  ELSE [open |-> before + 1 >= CircuitAfter, failures |-> before + 1]

(***************************************************************************)
(* The unique index webhook_attempts_sequence.                             *)
(***************************************************************************)
neverLogged(run) == FALSE                                \* mutant: no unique index

alreadyLogged(run) == run.number \in DOMAIN log[run.key]

(***************************************************************************)
(* The last transaction of runWebhookDelivery.  The endpoint's failures    *)
(* are the ones read before the post, and its circuit opens whatever its   *)
(* status has become.  An attempt of that number already logged raises:    *)
(* nothing is written and the queue tries the job again.                   *)
(***************************************************************************)
logAttempt(w) ==
  LET run == workers[w]
      e   == run.key[1]
      h   == endpointHealthAfter(run.failures, run.answer)
  IN  /\ log' = [log EXCEPT ![run.key] =
           [n \in DOMAIN @ \cup {run.number} |-> IF n = run.number THEN run.answer ELSE @[n]]]
      /\ deliveries' = [deliveries EXCEPT ![run.key] =
           [status |-> IF run.answer = "delivered" THEN "succeeded"
                       ELSE IF retries(run) THEN "failed" ELSE "exhausted",
            attempts |-> run.number]]
      /\ endpoints' = [endpoints EXCEPT
           ![e].failures = h.failures,
           ![e].status   = IF h.open THEN "circuit_open" ELSE @,
           ![e].openedAt = h.open \/ @,
           ![e].inARow   = inARowAfter(endpoints[e], run),
           ![e].overtaken = overtakenAfter(endpoints[e], run)]
      /\ enqueueDeliveries(IF retries(run) THEN {run.key} ELSE {})

runWebhookDelivery(w) ==
  LET run == workers[w]
  IN  /\ w \in Busy /\ run.answer # "none"
      /\ workers' = [workers EXCEPT ![w] = Idle]
      /\ \/ /\ ~alreadyLogged(run)
            /\ logAttempt(w)
         \/ /\ alreadyLogged(run)
            /\ queue' = queue \cup {run.key}
            /\ UNCHANGED <<log, deliveries, endpoints>>
      /\ UNCHANGED <<outbox, faults>>

(***************************************************************************)
(* The job queue: the job of a worker that died is run again, and so is    *)
(* one whose lock expired, although its first worker is still at it.       *)
(***************************************************************************)
redelivered(w, dead) ==
  /\ w \in Busy /\ faults < MaxFaults
  /\ queue' = queue \cup {workers[w].key}
  /\ workers' = IF dead THEN [workers EXCEPT ![w] = Idle] ELSE workers
  /\ faults' = faults + 1
  /\ UNCHANGED <<endpoints, outbox, deliveries, log>>

-----------------------------------------------------------------------------
(* What a customer does *)

createWebhookEndpoint(e) ==
  /\ endpoints[e] = NoEndpoint
  /\ endpoints' = [endpoints EXCEPT ![e].status = "enabled", ![e].secret = 1]
  /\ UNCHANGED <<outbox, deliveries, log, queue, workers, faults>>

Extra == {k \in Keys : k[3] # "outbox" /\ deliveries[k] # NoDelivery}

(***************************************************************************)
(* replayEvent, of an event to an endpoint in whatever status, and         *)
(* sendTestEvent, whose event has no outbox row.                           *)
(***************************************************************************)
openExtra(k) ==
  /\ endpoints[k[1]] # NoEndpoint
  /\ deliveries[k] = NoDelivery /\ Cardinality(Extra) < MaxReplays
  /\ deliveries' = [deliveries EXCEPT ![k] = pendingDelivery]
  /\ enqueueDeliveries({k})
  /\ UNCHANGED <<endpoints, outbox, log, workers, faults>>

replayEvent(e, ev) == outbox[ev] # "none" /\ openExtra(<<e, ev, "replay">>)

sendTestEvent(e) == openExtra(<<e, TEST, "test">>)

rotatedBehind(ep) ==                                     \* mutant: keeps the older secret
  [ep EXCEPT !.secret = @ + 1]

rotated(ep) == [ep EXCEPT !.secret = @ + 1, !.previous = ep.secret]

rotateWebhookSecret(e) ==
  /\ endpoints[e].secret \in 1..MaxRotations
  /\ endpoints' = [endpoints EXCEPT ![e] = rotated(@)]
  /\ UNCHANGED <<outbox, deliveries, log, queue, workers, faults>>

(***************************************************************************)
(* previous_secret_expires_at passes, SECRET_OVERLAP_HOURS after the       *)
(* rotation: far longer than a post signed before it can take.             *)
(***************************************************************************)
overlapEnds(e) ==
  /\ endpoints[e].previous # 0
  /\ \A w \in Busy : workers[w].key[1] = e => workers[w].secret = endpoints[e].secret
  /\ endpoints' = [endpoints EXCEPT ![e].previous = 0]
  /\ UNCHANGED <<outbox, deliveries, log, queue, workers, faults>>

(***************************************************************************)
(* deleteWebhookEndpoint leaves circuit_opened_at as it is: on an endpoint *)
(* whose circuit is open the constraint webhook_circuit_pairing raises.    *)
(***************************************************************************)
deleteWebhookEndpoint(e) ==
  /\ endpoints[e].status \notin {"none", "deleted"} /\ ~endpoints[e].openedAt
  /\ endpoints' = [endpoints EXCEPT ![e].status = "deleted"]
  /\ UNCHANGED <<outbox, deliveries, log, queue, workers, faults>>

reopened(ep) ==
  [ep EXCEPT !.status = "enabled", !.failures = 0, !.openedAt = FALSE,
             !.inARow = 0, !.overtaken = FALSE]

reopenWebhookEndpoint(e) ==
  /\ endpoints[e].status \notin {"none", "enabled", "deleted"}
  /\ endpoints' = [endpoints EXCEPT ![e] = reopened(@)]
  /\ UNCHANGED <<outbox, deliveries, log, queue, workers, faults>>

-----------------------------------------------------------------------------
WebhooksInit ==
  /\ endpoints = [e \in Endpoints |-> NoEndpoint]
  /\ outbox = [ev \in Events |-> "none"]
  /\ deliveries = [k \in Keys |-> NoDelivery]
  /\ log = [k \in Keys |-> << >>]
  /\ queue = {}
  /\ workers = [w \in Workers |-> Idle]
  /\ faults = 0

Delivering ==
  \/ \E rows \in SUBSET Events : drainOutbox(rows)
  \/ \E w \in Workers :
       \/ \E k \in queue : loadContext(w, k)
       \/ \E answer \in Outcomes : post(w, answer)
       \/ runWebhookDelivery(w)

Customer ==
  \E e \in Endpoints :
    \/ createWebhookEndpoint(e)
    \/ \E ev \in CustomerEvents : replayEvent(e, ev)
    \/ sendTestEvent(e)
    \/ rotateWebhookSecret(e)
    \/ overlapEnds(e)
    \/ deleteWebhookEndpoint(e)
    \/ reopenWebhookEndpoint(e)

WebhooksNext ==
  \/ Delivering
  \/ Customer
  \/ \E ev \in Events : event(ev)
  \/ \E w \in Workers, dead \in BOOLEAN : redelivered(w, dead)

(***************************************************************************)
(* The worker drains the outbox and runs due jobs; what it runs ends.      *)
(***************************************************************************)
WebhooksSpec == WebhooksInit /\ [][WebhooksNext]_whVars /\ WF_whVars(Delivering)

-----------------------------------------------------------------------------
(* Properties *)

(***************************************************************************)
(* Types, and the constraint webhook_circuit_pairing: an endpoint carries  *)
(* circuit_opened_at exactly while its circuit is open, so no sequence of  *)
(* deletions, late attempts and re-openings makes a transaction raise that *)
(* the code expects to commit.                                             *)
(***************************************************************************)
WebhooksTypeOK ==
  /\ \A e \in Endpoints :
       /\ endpoints[e].status \in {"none", "enabled", "disabled", "circuit_open", "deleted"}
       /\ endpoints[e].openedAt <=> endpoints[e].status = "circuit_open"
       /\ endpoints[e].failures \in Nat
       /\ endpoints[e].previous \in 0..endpoints[e].secret
  /\ outbox \in [Events -> {"none", "pending", "delivered"}]
  /\ \A k \in Keys :
       /\ deliveries[k].status \in Settled \cup {"none", "pending", "failed"}
       /\ deliveries[k].attempts \in 0..MaxAttempts
  /\ queue \subseteq Keys

(***************************************************************************)
(* The event log a customer reads is the truth about the delivery: the     *)
(* attempts are numbered 1..attempt_count without a gap, only the last one *)
(* was accepted or finally refused, and the delivery succeeded, was given  *)
(* up (on a refusal, or when the schedule of MAX_ATTEMPTS was used up) or  *)
(* is still to be retried exactly as that last answer says.  Crashes and   *)
(* doubly run jobs included.                                               *)
(***************************************************************************)
LogTellsTheDelivery ==
  /\ WebhooksTypeOK
  /\ \A k \in Keys :
    LET d == deliveries[k]
        last == log[k][d.attempts]
    IN  /\ DOMAIN log[k] = 1..d.attempts
        /\ \A n \in 1..(d.attempts - 1) : log[k][n] = "retryable"
        /\ d.attempts = 0 => d.status \in {"none", "pending"}
        /\ d.attempts > 0 =>
             /\ d.status = "succeeded" <=> last = "delivered"
             /\ d.status = "exhausted" <=>
                  last = "rejected" \/ (last = "retryable" /\ d.attempts = MaxAttempts)

(***************************************************************************)
(* A delivery that was recorded as succeeded or exhausted never changes    *)
(* again, and none of its attempts is added or rewritten: a second worker  *)
(* that posted the same attempt does not overwrite the first one's record. *)
(***************************************************************************)
SettledDeliveryIsFinal ==
  [][\A k \in Keys : deliveries[k].status \in Settled =>
       deliveries'[k] = deliveries[k] /\ log'[k] = log[k]]_whVars

failedAttempts(e) ==
  {a \in {k \in Keys : k[1] = e} \X (1..MaxAttempts) :
     a[2] \in DOMAIN log[a[1]] /\ log[a[1]][a[2]] # "delivered"}

(***************************************************************************)
(* An endpoint is taken out of service by exactly the                      *)
(* CIRCUIT_BREAK_AFTER_CONSECUTIVE_FAILURES-th failed attempt in a row     *)
(* since it last took a delivery or was reopened, unless one of those      *)
(* attempts recorded a count that had changed since it was read            *)
(* (endpointHealthAfter, in runWebhookDelivery).  Even then the attempts   *)
(* of one delivery never do it alone: no single poison payload cuts a      *)
(* customer off.  (What is counted are attempts, where delivery.ts:42      *)
(* speaks of deliveries.)                                                  *)
(***************************************************************************)
CircuitOpensInARow ==
  [][\A e \in Endpoints :
       LET ep == endpoints'[e]
       IN  /\ ep.openedAt \/ ep.overtaken \/ ep.inARow < CircuitAfter
           /\ ep.openedAt /\ ~endpoints[e].openedAt =>
                /\ ep.overtaken \/ ep.inARow = CircuitAfter
                /\ \E a, b \in failedAttempts(e)' : a[1] # b[1]]_whVars

(***************************************************************************)
(* A post signed with the secrets its worker read carries a signature a    *)
(* receiver that accepts the endpoint's live secrets verifies when it      *)
(* arrives, though the secret was rotated while it was under way.          *)
(***************************************************************************)
SignedPostVerifies ==
  \A w \in Busy :
    LET run == workers[w]
        ep  == endpoints[run.key[1]]
    IN  run.secret >= ep.secret - 1 =>
          verifySignature(buildSignatureHeader(run), liveSecretsFor(ep))

AllSettled ==
  /\ \A ev \in Events : outbox[ev] # "pending"
  /\ \A k \in Keys : deliveries[k].status \in Settled \cup {"none"}

(***************************************************************************)
(* Nothing is stranded: committed events are fanned out, and every         *)
(* delivery, automatic, replayed or test, is retried until it succeeded or *)
(* was given up, whatever workers died and whatever became of its          *)
(* endpoint. (Customers act finitely often under the bounds, so each of    *)
(* their requests is followed by a state where all is settled.)            *)
(***************************************************************************)
NothingIsStranded == []<>AllSettled
=============================================================================
