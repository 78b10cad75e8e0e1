--------------------------- MODULE WebhooksProofs ---------------------------
(***************************************************************************)
(* The event log, the circuit breaker and the signatures of webhooks, for  *)
(* every number of endpoints, events, workers, crashes and lost locks.     *)
(***************************************************************************)
EXTENDS Webhooks, FiniteSetTheorems, TLAPS

(***************************************************************************)
(* The rows.  An endpoint that was never created is NoEndpoint; any other  *)
(* has a secret, and the previous one, while it lives, is the one before.  *)
(* Its failures are those in a row, and open its circuit, unless attempts  *)
(* overtook each other.                                                    *)
(***************************************************************************)
EndpointRecord ==
  [status : {"none", "enabled", "disabled", "circuit_open", "deleted"}, openedAt : BOOLEAN,
   failures : Nat, secret : Nat, previous : Nat, inARow : Nat, overtaken : BOOLEAN]

EndpointRow(row) ==
  /\ row \in EndpointRecord
  /\ row.openedAt <=> row.status = "circuit_open"
  /\ row.status = "none" => row = NoEndpoint
  /\ row.status # "none" => row.secret >= 1
  /\ row.previous = 0 \/ row.previous = row.secret - 1
  /\ ~row.overtaken => row.failures = row.inARow /\ (row.inARow >= CircuitAfter => row.openedAt)

DeliveryRow(k) ==
  /\ deliveries[k].status \in Settled \cup {"none", "pending", "failed"}
  /\ deliveries[k].attempts \in 0..MaxAttempts
  /\ log[k] \in [1..deliveries[k].attempts -> Outcomes]
  /\ \A n \in 1..(deliveries[k].attempts - 1) : log[k][n] = "retryable"
  /\ deliveries[k].attempts = 0 => deliveries[k].status \in {"none", "pending"}
  /\ deliveries[k].attempts > 0 =>
       /\ deliveries[k].status = "succeeded" <=> log[k][deliveries[k].attempts] = "delivered"
       /\ deliveries[k].status = "exhausted" <=>
            \/ log[k][deliveries[k].attempts] = "rejected"
            \/ /\ log[k][deliveries[k].attempts] = "retryable"
               /\ deliveries[k].attempts = MaxAttempts

(***************************************************************************)
(* What a worker holds: the number of an attempt that is logged already or *)
(* is the next one of a delivery still open; a secret that still verifies, *)
(* and a failure count that so many logged failures stand behind.          *)
(***************************************************************************)
RunIsCurrent(run) ==
  /\ run.key \in Keys
  /\ run.number \in 1..(deliveries[run.key].attempts + 1)
  /\ run.number = deliveries[run.key].attempts + 1 => deliveries[run.key].status \notin Settled
  /\ run.answer \in Outcomes \cup {"none"}
  /\ run.secret \in 1..endpoints[run.key[1]].secret
  /\ run.secret < endpoints[run.key[1]].secret => endpoints[run.key[1]].previous # 0
  /\ run.failures \in Nat
  /\ run.failures <= Cardinality(failedAttempts(run.key[1]))

RunsAreCurrent == \A w \in Busy : RunIsCurrent(workers[w])

(***************************************************************************)
(* The failures an endpoint is charged with were logged.                   *)
(***************************************************************************)
FailuresAreLogged ==
  \A e \in Endpoints :
    /\ IsFiniteSet(failedAttempts(e))
    /\ endpoints[e].failures <= Cardinality(failedAttempts(e))
    /\ endpoints[e].status = "circuit_open" => Cardinality(failedAttempts(e)) >= CircuitAfter

WebhooksIInv ==
  /\ DOMAIN endpoints = Endpoints /\ \A e \in Endpoints : EndpointRow(endpoints[e])
  /\ outbox \in [Events -> {"none", "pending", "delivered"}]
  /\ deliveries \in [Keys -> [status : Settled \cup {"none", "pending", "failed"},
                              attempts : 0..MaxAttempts]]
  /\ \A k \in Keys : DeliveryRow(k)
  /\ DOMAIN log = Keys
  /\ queue \subseteq Keys
  /\ \A k \in queue : endpoints[k[1]].status # "none"
  /\ DOMAIN workers = Workers
  /\ RunsAreCurrent
  /\ FailuresAreLogged

-----------------------------------------------------------------------------
(* What follows from the invariant *)

(***************************************************************************)
(* The first part of a delivery's key is its endpoint.                     *)
(***************************************************************************)
LEMMA KeyFacts == \A k \in Keys : k[1] \in Endpoints
BY DEF Keys

(***************************************************************************)
(* A delivery that is not settled has an attempt left, and its last one,   *)
(* if any, failed in a way that is tried again.                            *)
(***************************************************************************)
LEMMA OpenDeliveryHasAttemptsLeft ==
  ASSUME WebhooksIInv, NEW k \in Keys, deliveries[k].status \notin Settled
  PROVE  /\ deliveries[k].attempts + 1 \in 1..MaxAttempts
         /\ deliveries[k].attempts > 0 => log[k][deliveries[k].attempts] = "retryable"
<1>1. DeliveryRow(k)
  BY DEF WebhooksIInv
<1>2. /\ deliveries[k].attempts \in 0..MaxAttempts
      /\ log[k] \in [1..deliveries[k].attempts -> Outcomes]
  BY <1>1 DEF DeliveryRow
<1>3. MaxAttempts \in Nat \ {0}
  BY WebhooksAssumption
<1>4. CASE deliveries[k].attempts = 0
  BY <1>2, <1>3, <1>4
<1>5. CASE deliveries[k].attempts > 0
  <2>1. log[k][deliveries[k].attempts] \in Outcomes
    BY <1>2, <1>3, <1>5
  <2>2. log[k][deliveries[k].attempts] = "retryable" /\ deliveries[k].attempts # MaxAttempts
    BY <1>1, <1>5, <2>1 DEF DeliveryRow, Settled, Outcomes
  <2> QED
    BY <1>2, <1>3, <2>2
<1> QED
  BY <1>2, <1>4, <1>5

(***************************************************************************)
(* An endpoint's failed attempts depend on the log only.                   *)
(***************************************************************************)
LEMMA SameLogSameFailures ==
  ASSUME UNCHANGED log, NEW e
  PROVE  failedAttempts(e)' = failedAttempts(e)
BY DEF failedAttempts

(***************************************************************************)
(* The invariant says all that the run's invariants say.                   *)
(***************************************************************************)
LEMMA WebhooksIInvImplies ==
  ASSUME WebhooksIInv
  PROVE  LogTellsTheDelivery /\ SignedPostVerifies
<1>1. LogTellsTheDelivery
  <2>1. \A e \in Endpoints :
          /\ endpoints[e].status \in {"none", "enabled", "disabled", "circuit_open", "deleted"}
          /\ endpoints[e].openedAt <=> endpoints[e].status = "circuit_open"
          /\ endpoints[e].failures \in Nat
          /\ endpoints[e].previous \in 0..endpoints[e].secret
    BY DEF WebhooksIInv, EndpointRow, EndpointRecord
  <2>2. WebhooksTypeOK
    BY <2>1 DEF WebhooksIInv, WebhooksTypeOK, DeliveryRow
  <2>3. \A k \in Keys : DOMAIN log[k] = 1..deliveries[k].attempts
    BY DEF WebhooksIInv, DeliveryRow
  <2> QED
    BY <2>2, <2>3 DEF LogTellsTheDelivery, WebhooksIInv, DeliveryRow
<1>3. SignedPostVerifies
  <2> SUFFICES ASSUME NEW w \in Busy,
                      workers[w].secret >= endpoints[workers[w].key[1]].secret - 1
               PROVE  verifySignature(buildSignatureHeader(workers[w]),
                                      liveSecretsFor(endpoints[workers[w].key[1]]))
    BY DEF SignedPostVerifies
  <2> DEFINE run == workers[w]
             ep  == endpoints[run.key[1]]
  <2>1. RunIsCurrent(run) /\ EndpointRow(ep)
    BY KeyFacts DEF WebhooksIInv, RunsAreCurrent, RunIsCurrent
  <2>2. /\ ep.secret \in Nat
        /\ run.secret \in 1..ep.secret
        /\ run.secret < ep.secret => ep.previous = ep.secret - 1
    BY <2>1 DEF RunIsCurrent, EndpointRow, EndpointRecord
  <2>3. run.secret \in {ep.secret, ep.previous} /\ run.secret # 0
    BY <2>2
  <2>4. run.secret \in liveSecretsFor(run) /\ run.secret \in liveSecretsFor(ep)
    BY <2>3 DEF liveSecretsFor
  <2>5. [signedWith |-> run.secret] \in buildSignatureHeader(run)
    BY <2>4 DEF buildSignatureHeader
  <2> QED
    BY <2>4, <2>5 DEF verifySignature
<1> QED
  BY <1>1, <1>3

-----------------------------------------------------------------------------
(* The steps *)

(***************************************************************************)
(* A customer changes an endpoint: its failures and its circuit get no     *)
(* worse, and a worker under way keeps a secret that verifies.             *)
(***************************************************************************)
LEMMA EndpointStepKeepsInv ==
  ASSUME WebhooksIInv, NEW e \in Endpoints, NEW ep,
         endpoints' = [endpoints EXCEPT ![e] = ep],
         EndpointRow(ep), ep.status # "none",
         ep.failures <= endpoints[e].failures,
         ep.status = "circuit_open" => endpoints[e].status = "circuit_open",
         ep.secret >= endpoints[e].secret,
         \A w \in Busy : workers[w].key[1] = e =>
           (workers[w].secret < ep.secret => ep.previous # 0),
         UNCHANGED <<outbox, deliveries, log, queue, workers>>
  PROVE  WebhooksIInv'
<1>1. /\ DOMAIN endpoints' = Endpoints
      /\ \A x \in Endpoints : endpoints'[x] = IF x = e THEN ep ELSE endpoints[x]
  BY DEF WebhooksIInv
<1>2. \A x \in Endpoints : EndpointRow(endpoints[x])'
  <2>1. \A x \in Endpoints : EndpointRow(endpoints'[x])
    BY <1>1 DEF WebhooksIInv
  <2> QED
    BY <2>1 DEF EndpointRow, EndpointRecord
<1>3. \A x : failedAttempts(x)' = failedAttempts(x)
  BY SameLogSameFailures
<1>4. \A k \in Keys : DeliveryRow(k)'
  BY DEF WebhooksIInv, DeliveryRow
<1>5. \A k \in queue' : endpoints'[k[1]].status # "none"
  BY <1>1, KeyFacts DEF WebhooksIInv
<1>6. RunsAreCurrent'
  <2>1. Busy' = Busy
    BY DEF Busy
  <2> SUFFICES ASSUME NEW w \in Busy PROVE RunIsCurrent(workers[w])'
    BY <2>1 DEF RunsAreCurrent
  <2>2. RunIsCurrent(workers[w])
    BY DEF WebhooksIInv, RunsAreCurrent
  <2>3. workers[w].key[1] \in Endpoints
    BY <2>2, KeyFacts DEF RunIsCurrent
  <2>4. endpoints[workers[w].key[1]].secret \in Nat /\ ep.secret \in Nat
    BY <2>3 DEF WebhooksIInv, EndpointRow, EndpointRecord
  <2>5. /\ workers[w].secret \in 1..endpoints'[workers[w].key[1]].secret
        /\ workers[w].secret < endpoints'[workers[w].key[1]].secret =>
             endpoints'[workers[w].key[1]].previous # 0
    BY <1>1, <2>2, <2>3, <2>4 DEF RunIsCurrent
  <2> QED
    BY <1>3, <2>2, <2>5 DEF RunIsCurrent
<1>7. FailuresAreLogged'
  <2> SUFFICES ASSUME NEW x \in Endpoints
               PROVE  /\ IsFiniteSet(failedAttempts(x))
                      /\ endpoints'[x].failures <= Cardinality(failedAttempts(x))
                      /\ endpoints'[x].status = "circuit_open" =>
                           Cardinality(failedAttempts(x)) >= CircuitAfter
    BY <1>3 DEF FailuresAreLogged
  <2>1. /\ IsFiniteSet(failedAttempts(x))
        /\ endpoints[x].failures <= Cardinality(failedAttempts(x))
        /\ endpoints[x].status = "circuit_open" =>
             Cardinality(failedAttempts(x)) >= CircuitAfter
    BY DEF WebhooksIInv, FailuresAreLogged
  <2>2. Cardinality(failedAttempts(x)) \in Nat
    BY <2>1, FS_CardinalityType
  <2>3. endpoints[x].failures \in Nat /\ ep.failures \in Nat
    BY DEF WebhooksIInv, EndpointRow, EndpointRecord
  <2> QED
    BY <1>1, <2>1, <2>2, <2>3
<1> QED
  BY <1>1, <1>2, <1>4, <1>5, <1>6, <1>7 DEF WebhooksIInv

(***************************************************************************)
(* Creating, rotating, deleting and reopening an endpoint: a rotation      *)
(* keeps the previous secret for the posts that were signed with it.       *)
(***************************************************************************)
LEMMA CustomerEndpointKeepsInv ==
  ASSUME WebhooksIInv, NEW e \in Endpoints,
         \/ createWebhookEndpoint(e) \/ rotateWebhookSecret(e) \/ overlapEnds(e)
         \/ deleteWebhookEndpoint(e) \/ reopenWebhookEndpoint(e)
  PROVE  WebhooksIInv'
<1>1. EndpointRow(endpoints[e]) /\ e \in DOMAIN endpoints
  BY DEF WebhooksIInv
<1>2. \A w \in Busy : workers[w].key[1] = e =>
        /\ workers[w].secret \in 1..endpoints[e].secret
        /\ workers[w].secret < endpoints[e].secret => endpoints[e].previous # 0
  BY DEF WebhooksIInv, RunsAreCurrent, RunIsCurrent
<1>3. CASE createWebhookEndpoint(e)
  <2>0. PICK ep : ep = [NoEndpoint EXCEPT !.status = "enabled", !.secret = 1]
    OBVIOUS
  <2>1. endpoints[e] = NoEndpoint /\ UNCHANGED <<outbox, deliveries, log, queue, workers>>
    BY <1>3 DEF createWebhookEndpoint
  <2>2. endpoints' = [endpoints EXCEPT ![e] = ep]
    BY <1>3, <2>0, <2>1 DEF createWebhookEndpoint
  <2>3. ep = [status |-> "enabled", openedAt |-> FALSE, failures |-> 0, secret |-> 1, previous |-> 0,
            inARow |-> 0, overtaken |-> FALSE]
    BY <2>0 DEF NoEndpoint
  <2>4. EndpointRow(ep) /\ ep.status = "enabled" /\ ep.secret >= endpoints[e].secret /\ ep.failures <= endpoints[e].failures
    BY <2>1, <2>3, WebhooksAssumption DEF EndpointRow, EndpointRecord, NoEndpoint
  <2>5. ~\E w \in Busy : workers[w].key[1] = e
    BY <1>2, <2>1 DEF NoEndpoint
  <2>9. /\ ep.failures <= endpoints[e].failures
        /\ ep.status = "circuit_open" => endpoints[e].status = "circuit_open"
        /\ ep.secret >= endpoints[e].secret
        /\ \A w \in Busy : workers[w].key[1] = e =>
             (workers[w].secret < ep.secret => ep.previous # 0)
    BY <1>2, <2>1, <2>2, <2>4, <2>5
  <2> QED
    BY <2>1, <2>2, <2>4, <2>9, EndpointStepKeepsInv
<1>5. CASE rotateWebhookSecret(e)
  <2>0. PICK ep : ep = rotated(endpoints[e])
    OBVIOUS
  <2>1. /\ endpoints[e].secret \in 1..MaxRotations
        /\ endpoints' = [endpoints EXCEPT ![e] = ep]
        /\ UNCHANGED <<outbox, deliveries, log, queue, workers>>
    BY <1>5, <2>0 DEF rotateWebhookSecret
  <2>2a. endpoints[e].secret \in Nat /\ endpoints[e].secret + 1 \in Nat
    BY <1>1 DEF EndpointRow, EndpointRecord
  <2>2b. /\ ep = [[endpoints[e] EXCEPT !.secret = endpoints[e].secret + 1]
                    EXCEPT !.previous = endpoints[e].secret]
        /\ endpoints[e] \in EndpointRecord
    BY <1>1, <2>0 DEF rotated, EndpointRow
  <2>2. /\ ep.status = endpoints[e].status /\ ep.openedAt = endpoints[e].openedAt /\ ep.failures = endpoints[e].failures
        /\ ep.inARow = endpoints[e].inARow /\ ep.overtaken = endpoints[e].overtaken
        /\ ep.secret = endpoints[e].secret + 1 /\ ep.previous = endpoints[e].secret
        /\ ep \in EndpointRecord
    BY <2>2a, <2>2b DEF EndpointRecord
  <2>3. endpoints[e].status # "none" /\ endpoints[e].failures \in Nat /\ endpoints[e].secret \in Nat
    BY <1>1, <2>1 DEF EndpointRow, EndpointRecord, NoEndpoint
  <2>4. EndpointRow(ep)
    BY <1>1, <2>1, <2>2, <2>3 DEF EndpointRow, EndpointRecord
  <2>9. /\ ep.failures <= endpoints[e].failures
        /\ ep.status = "circuit_open" => endpoints[e].status = "circuit_open"
        /\ ep.secret >= endpoints[e].secret
        /\ \A w \in Busy : workers[w].key[1] = e =>
             (workers[w].secret < ep.secret => ep.previous # 0)
    BY <1>2, <2>1, <2>2, <2>3, <2>4
  <2> QED
    BY <2>1, <2>2, <2>3, <2>4, <2>9, EndpointStepKeepsInv
<1>6. CASE overlapEnds(e)
  <2>0. PICK ep : ep = [endpoints[e] EXCEPT !.previous = 0]
    OBVIOUS
  <2>1. /\ endpoints[e].previous # 0
        /\ \A w \in Busy : workers[w].key[1] = e => workers[w].secret = endpoints[e].secret
        /\ endpoints' = [endpoints EXCEPT ![e] = ep]
        /\ UNCHANGED <<outbox, deliveries, log, queue, workers>>
    BY <1>6, <2>0 DEF overlapEnds
  <2>2. /\ ep.status = endpoints[e].status /\ ep.openedAt = endpoints[e].openedAt /\ ep.failures = endpoints[e].failures
        /\ ep.inARow = endpoints[e].inARow /\ ep.overtaken = endpoints[e].overtaken
        /\ ep.secret = endpoints[e].secret /\ ep.previous = 0
        /\ ep \in EndpointRecord
    BY <1>1, <2>0 DEF EndpointRow, EndpointRecord
  <2>3. endpoints[e].status # "none" /\ endpoints[e].failures \in Nat /\ endpoints[e].secret \in Nat
    BY <1>1, <2>1 DEF EndpointRow, EndpointRecord, NoEndpoint
  <2>4. EndpointRow(ep)
    BY <1>1, <2>1, <2>2, <2>3 DEF EndpointRow, EndpointRecord
  <2>5. \A w \in Busy : workers[w].key[1] = e => ~(workers[w].secret < ep.secret)
    BY <2>1, <2>2, <2>3
  <2>9. /\ ep.failures <= endpoints[e].failures
        /\ ep.status = "circuit_open" => endpoints[e].status = "circuit_open"
        /\ ep.secret >= endpoints[e].secret
        /\ \A w \in Busy : workers[w].key[1] = e =>
             (workers[w].secret < ep.secret => ep.previous # 0)
    BY <1>2, <2>1, <2>2, <2>3, <2>4, <2>5
  <2> QED
    BY <2>1, <2>2, <2>3, <2>4, <2>9, EndpointStepKeepsInv
<1>7. CASE deleteWebhookEndpoint(e)
  <2>0. PICK ep : ep = [endpoints[e] EXCEPT !.status = "deleted"]
    OBVIOUS
  <2>1. /\ endpoints[e].status \notin {"none", "deleted"} /\ ~endpoints[e].openedAt
        /\ endpoints' = [endpoints EXCEPT ![e] = ep]
        /\ UNCHANGED <<outbox, deliveries, log, queue, workers>>
    BY <1>7, <2>0 DEF deleteWebhookEndpoint
  <2>2. /\ ep.status = "deleted" /\ ep.openedAt = endpoints[e].openedAt /\ ep.failures = endpoints[e].failures
        /\ ep.inARow = endpoints[e].inARow /\ ep.overtaken = endpoints[e].overtaken
        /\ ep.secret = endpoints[e].secret /\ ep.previous = endpoints[e].previous
        /\ ep \in EndpointRecord
    BY <1>1, <2>0 DEF EndpointRow, EndpointRecord
  <2>3. endpoints[e].failures \in Nat /\ endpoints[e].secret \in Nat
    BY <1>1 DEF EndpointRow, EndpointRecord
  <2>4. EndpointRow(ep)
    BY <1>1, <2>1, <2>2, <2>3 DEF EndpointRow, EndpointRecord
  <2>9. /\ ep.failures <= endpoints[e].failures
        /\ ep.status = "circuit_open" => endpoints[e].status = "circuit_open"
        /\ ep.secret >= endpoints[e].secret
        /\ \A w \in Busy : workers[w].key[1] = e =>
             (workers[w].secret < ep.secret => ep.previous # 0)
    BY <1>2, <2>1, <2>2, <2>3, <2>4
  <2> QED
    BY <2>1, <2>2, <2>3, <2>4, <2>9, EndpointStepKeepsInv
<1>8. CASE reopenWebhookEndpoint(e)
  <2>0. PICK ep : ep = reopened(endpoints[e])
    OBVIOUS
  <2>1. /\ endpoints[e].status \notin {"none", "enabled", "deleted"}
        /\ endpoints' = [endpoints EXCEPT ![e] = ep]
        /\ UNCHANGED <<outbox, deliveries, log, queue, workers>>
    BY <1>8, <2>0 DEF reopenWebhookEndpoint
  <2>2. /\ ep.status = "enabled" /\ ep.openedAt = FALSE /\ ep.failures = 0 /\ ep.inARow = 0
        /\ ep.secret = endpoints[e].secret /\ ep.previous = endpoints[e].previous
        /\ ep \in EndpointRecord
    BY <1>1, <2>0 DEF EndpointRow, EndpointRecord, reopened
  <2>3. endpoints[e].failures \in Nat /\ endpoints[e].secret \in Nat
    BY <1>1 DEF EndpointRow, EndpointRecord
  <2>4. EndpointRow(ep)
    BY <1>1, <2>1, <2>2, <2>3, WebhooksAssumption DEF EndpointRow, EndpointRecord
  <2>9. /\ ep.failures <= endpoints[e].failures
        /\ ep.status = "circuit_open" => endpoints[e].status = "circuit_open"
        /\ ep.secret >= endpoints[e].secret
        /\ \A w \in Busy : workers[w].key[1] = e =>
             (workers[w].secret < ep.secret => ep.previous # 0)
    BY <1>2, <2>1, <2>2, <2>3, <2>4
  <2> QED
    BY <2>1, <2>2, <2>3, <2>4, <2>9, EndpointStepKeepsInv
<1> QED
  BY <1>3, <1>5, <1>6, <1>7, <1>8

(***************************************************************************)
(* Deliveries are opened, by the fan-out or by a replay or a test: they    *)
(* start with no attempt and an empty log.                                 *)
(***************************************************************************)
LEMMA NewDeliveriesKeepInv ==
  ASSUME WebhooksIInv, NEW new \in SUBSET Keys,
         \A k \in new : deliveries[k] = NoDelivery /\ endpoints[k[1]].status # "none",
         deliveries' = [k \in Keys |-> IF k \in new THEN pendingDelivery ELSE deliveries[k]],
         queue' = queue \cup new,
         outbox' \in [Events -> {"none", "pending", "delivered"}],
         UNCHANGED <<endpoints, log, workers>>
  PROVE  WebhooksIInv'
<1>1. \A k \in Keys : deliveries'[k] = IF k \in new THEN pendingDelivery ELSE deliveries[k]
  OBVIOUS
<1>2. \A k \in Keys : /\ deliveries'[k].attempts = deliveries[k].attempts
                      /\ deliveries[k].status \notin Settled => deliveries'[k].status \notin Settled
  BY <1>1 DEF pendingDelivery, NoDelivery, Settled
<1>3. MaxAttempts \in Nat \ {0}
  BY WebhooksAssumption
<1>4. deliveries' \in [Keys -> [status : Settled \cup {"none", "pending", "failed"},
                                attempts : 0..MaxAttempts]]
  <2>1. pendingDelivery \in [status : Settled \cup {"none", "pending", "failed"},
                             attempts : 0..MaxAttempts]
    BY <1>3 DEF pendingDelivery
  <2> QED
    BY <2>1 DEF WebhooksIInv
<1>5. \A k \in Keys : DeliveryRow(k)'
  <2> TAKE k \in Keys
  <2>1. DeliveryRow(k)
    BY DEF WebhooksIInv
  <2>2. CASE k \in new
    <3>1. /\ deliveries[k].attempts = 0 /\ deliveries'[k].attempts = 0
          /\ deliveries'[k].status = "pending"
      BY <1>1, <2>2 DEF NoDelivery, pendingDelivery
    <3> QED
      BY <1>3, <2>1, <3>1 DEF DeliveryRow
  <2>3. CASE k \notin new
    <3>1. deliveries'[k] = deliveries[k]
      BY <1>1, <2>3
    <3> QED
      BY <2>1, <3>1 DEF DeliveryRow
  <2> QED
    BY <2>2, <2>3
<1>6. \A k \in queue' : endpoints'[k[1]].status # "none"
  BY DEF WebhooksIInv
<1>7. \A e : failedAttempts(e)' = failedAttempts(e)
  BY SameLogSameFailures
<1>8. RunsAreCurrent'
  <2>1. Busy' = Busy
    BY DEF Busy
  <2> SUFFICES ASSUME NEW w \in Busy PROVE RunIsCurrent(workers[w])'
    BY <2>1 DEF RunsAreCurrent
  <2>2. RunIsCurrent(workers[w]) /\ workers[w].key \in Keys
    BY DEF WebhooksIInv, RunsAreCurrent, RunIsCurrent
  <2> QED
    BY <1>2, <1>7, <2>2 DEF RunIsCurrent
<1>9. FailuresAreLogged'
  BY <1>7 DEF WebhooksIInv, FailuresAreLogged
<1>10. queue' \subseteq Keys
  BY DEF WebhooksIInv
<1> QED
  BY <1>4, <1>5, <1>6, <1>8, <1>9, <1>10 DEF WebhooksIInv, EndpointRow

(***************************************************************************)
(* The drain opens deliveries that did not exist.                          *)
(***************************************************************************)
LEMMA drainOutboxKeepsInv ==
  ASSUME WebhooksIInv, NEW rows \in SUBSET Events, drainOutbox(rows)
  PROVE  WebhooksIInv'
<1> DEFINE fanOut == {<<e, ev, "outbox">> :
                        e \in {x \in Endpoints : endpoints[x].status = "enabled"},
                        ev \in {y \in rows : isCustomerEventType(y)}}
           opened == {k \in fanOut : endpointWantsEvent(k[1], k[2]) /\ deliveries[k] = NoDelivery}
<1> HIDE DEF fanOut, opened
<1>0. PICK new : new = opened
  OBVIOUS
<1>1. new \in SUBSET Keys
  BY <1>0 DEF opened, fanOut, isCustomerEventType, Keys
<1>2. \A k \in new : deliveries[k] = NoDelivery /\ endpoints[k[1]].status # "none"
  BY <1>0 DEF opened, fanOut
<1>3. /\ deliveries' = [k \in Keys |-> IF k \in new THEN pendingDelivery ELSE deliveries[k]]
      /\ queue' = queue \cup new
      /\ outbox' = [ev \in Events |-> IF ev \in rows THEN "delivered" ELSE outbox[ev]]
      /\ UNCHANGED <<endpoints, log, workers>>
  BY <1>0 DEF opened, fanOut, drainOutbox, enqueueDeliveries
<1>4. outbox' \in [Events -> {"none", "pending", "delivered"}]
  BY <1>3 DEF WebhooksIInv
<1> QED
  BY <1>1, <1>2, <1>3, <1>4, NewDeliveriesKeepInv

(***************************************************************************)
(* replayEvent and sendTestEvent.                                          *)
(***************************************************************************)
LEMMA openExtraKeepsInv ==
  ASSUME WebhooksIInv, NEW k \in Keys, openExtra(k)
  PROVE  WebhooksIInv'
<1>0. PICK new : new = {k}
  OBVIOUS
<1>1. k[1] \in Endpoints /\ EndpointRow(endpoints[k[1]])
  BY KeyFacts DEF WebhooksIInv
<1>2. endpoints[k[1]] # NoEndpoint /\ deliveries[k] = NoDelivery
  BY DEF openExtra
<1>3. new \in SUBSET Keys
  BY <1>0
<1>4. \A x \in new : deliveries[x] = NoDelivery /\ endpoints[x[1]].status # "none"
  BY <1>0, <1>1, <1>2 DEF EndpointRow, EndpointRecord
<1>5. /\ deliveries' = [x \in Keys |-> IF x \in new THEN pendingDelivery ELSE deliveries[x]]
      /\ queue' = queue \cup new
      /\ UNCHANGED <<endpoints, log, workers>>
  BY <1>0 DEF openExtra, enqueueDeliveries, WebhooksIInv
<1>6. outbox' \in [Events -> {"none", "pending", "delivered"}]
  BY DEF openExtra, WebhooksIInv
<1> QED
  BY <1>3, <1>4, <1>5, <1>6, NewDeliveriesKeepInv

(***************************************************************************)
(* A replay and a test event open a delivery of their own.                 *)
(***************************************************************************)
LEMMA ExtraKeepsInv ==
  ASSUME WebhooksIInv, NEW e \in Endpoints,
         sendTestEvent(e) \/ \E ev \in CustomerEvents : replayEvent(e, ev)
  PROVE  WebhooksIInv'
<1>1. CASE sendTestEvent(e)
  <2>0. PICK k : k = <<e, TEST, "test">>
    OBVIOUS
  <2>1. k \in Keys /\ openExtra(k)
    BY <1>1, <2>0 DEF Keys, sendTestEvent
  <2> QED
    BY <2>1, openExtraKeepsInv
<1>2. ASSUME NEW ev \in CustomerEvents, replayEvent(e, ev) PROVE WebhooksIInv'
  <2>0. PICK k : k = <<e, ev, "replay">>
    OBVIOUS
  <2>1. k \in Keys /\ openExtra(k)
    BY <1>2, <2>0 DEF Keys, replayEvent
  <2> QED
    BY <2>1, openExtraKeepsInv
<1> QED
  BY <1>1, <1>2

(***************************************************************************)
(* A worker takes a job, is answered, dies or loses its lock: what it      *)
(* holds is current, and its key goes back to the queue at most.           *)
(***************************************************************************)
LEMMA WorkerStepKeepsInv ==
  ASSUME WebhooksIInv,
         queue' \subseteq Keys, \A k \in queue' : endpoints[k[1]].status # "none",
         DOMAIN workers' = Workers,
         \A w \in Workers : workers'[w] # Idle => RunIsCurrent(workers'[w]),
         UNCHANGED <<endpoints, outbox, deliveries, log>>
  PROVE  WebhooksIInv'
<1>1. \A k \in Keys : DeliveryRow(k)'
  BY DEF WebhooksIInv, DeliveryRow
<1>2. \A e : failedAttempts(e)' = failedAttempts(e)
  BY SameLogSameFailures
<1>3. RunsAreCurrent'
  BY <1>2 DEF RunsAreCurrent, Busy, RunIsCurrent
<1>4. FailuresAreLogged'
  BY <1>2 DEF WebhooksIInv, FailuresAreLogged
<1> QED
  BY <1>1, <1>3, <1>4 DEF WebhooksIInv, EndpointRow

(***************************************************************************)
(* A worker takes up the next attempt of an open delivery, with the        *)
(* endpoint's secret and failure count of that moment.                     *)
(***************************************************************************)
LEMMA loadContextKeepsInv ==
  ASSUME WebhooksIInv, NEW w \in Workers, NEW k \in queue, loadContext(w, k)
  PROVE  WebhooksIInv'
<1>1. k \in Keys /\ k[1] \in Endpoints /\ endpoints[k[1]].status # "none"
  BY KeyFacts DEF WebhooksIInv
<1>2. PICK run : run = [key |-> k, number |-> deliveries[k].attempts + 1,
                        failures |-> endpoints[k[1]].failures,
                        secret |-> endpoints[k[1]].secret, previous |-> endpoints[k[1]].previous,
                        answer |-> "none"]
  OBVIOUS
<1>3. workers' = [workers EXCEPT ![w] = IF skipped(k) THEN Idle ELSE run]
  BY <1>2 DEF loadContext
<1>4. ASSUME ~skipped(k) PROVE RunIsCurrent(run)
  <2>1. deliveries[k].status \notin Settled /\ deliveries[k].attempts \in Nat
    BY <1>1, <1>4, WebhooksAssumption DEF skipped, WebhooksIInv, DeliveryRow
  <2>2. endpoints[k[1]].secret \in Nat /\ endpoints[k[1]].secret >= 1
    BY <1>1 DEF WebhooksIInv, EndpointRow, EndpointRecord
  <2>3. /\ endpoints[k[1]].failures \in Nat
        /\ endpoints[k[1]].failures <= Cardinality(failedAttempts(k[1]))
    BY <1>1 DEF WebhooksIInv, EndpointRow, EndpointRecord, FailuresAreLogged
  <2>4. /\ run.key = k /\ run.number = deliveries[k].attempts + 1 /\ run.answer = "none"
        /\ run.secret = endpoints[k[1]].secret /\ run.failures = endpoints[k[1]].failures
    BY <1>2
  <2> QED
    BY <1>1, <2>1, <2>2, <2>3, <2>4 DEF RunIsCurrent
<1>5. \A v \in Workers : workers'[v] # Idle => RunIsCurrent(workers'[v])
  BY <1>3, <1>4 DEF WebhooksIInv, RunsAreCurrent, Busy
<1>6. /\ queue' \subseteq Keys /\ \A x \in queue' : endpoints[x[1]].status # "none"
      /\ DOMAIN workers' = Workers
      /\ UNCHANGED <<endpoints, outbox, deliveries, log>>
  BY <1>3 DEF loadContext, WebhooksIInv
<1> QED
  BY <1>5, <1>6, WorkerStepKeepsInv

(***************************************************************************)
(* What every worker under way holds, from the invariant.                  *)
(***************************************************************************)
LEMMA BusyRun ==
  ASSUME WebhooksIInv, NEW w \in Busy
  PROVE  /\ w \in Workers /\ RunIsCurrent(workers[w])
         /\ workers[w].key \in Keys /\ workers[w].key[1] \in Endpoints
         /\ endpoints[workers[w].key[1]].status # "none"
<1>1. w \in Workers /\ RunIsCurrent(workers[w]) /\ workers[w].key \in Keys
  BY DEF WebhooksIInv, RunsAreCurrent, Busy, RunIsCurrent
<1>2. workers[w].key[1] \in Endpoints
  BY <1>1, KeyFacts
<1>3. EndpointRow(endpoints[workers[w].key[1]])
  BY <1>2 DEF WebhooksIInv
<1>4. workers[w].secret \in 1..endpoints[workers[w].key[1]].secret
  BY <1>1 DEF RunIsCurrent
<1>5. endpoints[workers[w].key[1]] # NoEndpoint
  BY <1>4 DEF NoEndpoint
<1> QED
  BY <1>1, <1>2, <1>3, <1>5 DEF EndpointRow, EndpointRecord

(***************************************************************************)
(* The answer of the customer's server changes only what the worker holds. *)
(***************************************************************************)
LEMMA postKeepsInv ==
  ASSUME WebhooksIInv, NEW w \in Workers, NEW answer \in Outcomes, post(w, answer)
  PROVE  WebhooksIInv'
<1>1. w \in Busy /\ RunIsCurrent(workers[w])
  BY BusyRun DEF post
<1>2. workers' = [workers EXCEPT ![w] = [workers[w] EXCEPT !.answer = answer]]
  BY DEF post
<1>3. PICK run : run = [workers[w] EXCEPT !.answer = answer]
  OBVIOUS
<1>4. /\ run.key = workers[w].key /\ run.number = workers[w].number
      /\ run.secret = workers[w].secret /\ run.failures = workers[w].failures
      /\ run.answer \in Outcomes \cup {"none"}
  BY <1>3
<1>5. RunIsCurrent(run)
  BY <1>1, <1>4 DEF RunIsCurrent
<1>6. \A v \in Workers : workers'[v] # Idle => RunIsCurrent(workers'[v])
  BY <1>2, <1>3, <1>5 DEF WebhooksIInv, RunsAreCurrent, Busy
<1>7. /\ queue' \subseteq Keys /\ \A x \in queue' : endpoints[x[1]].status # "none"
      /\ DOMAIN workers' = Workers
      /\ UNCHANGED <<endpoints, outbox, deliveries, log>>
  BY <1>2 DEF post, WebhooksIInv
<1> QED
  BY <1>6, <1>7, WorkerStepKeepsInv

(***************************************************************************)
(* A job given to another worker while the first still runs.               *)
(***************************************************************************)
LEMMA redeliveredKeepsInv ==
  ASSUME WebhooksIInv, NEW w \in Workers, NEW dead \in BOOLEAN, redelivered(w, dead)
  PROVE  WebhooksIInv'
<1>1. /\ w \in Busy /\ queue' = queue \cup {workers[w].key}
      /\ workers' = workers \/ workers' = [workers EXCEPT ![w] = Idle]
      /\ UNCHANGED <<endpoints, outbox, deliveries, log>>
  BY DEF redelivered
<1>2. workers[w].key \in Keys /\ endpoints[workers[w].key[1]].status # "none"
  BY <1>1, BusyRun
<1>3. \A v \in Workers : workers'[v] # Idle => RunIsCurrent(workers'[v])
  BY <1>1 DEF WebhooksIInv, RunsAreCurrent, Busy
<1>4. /\ queue' \subseteq Keys /\ \A x \in queue' : endpoints[x[1]].status # "none"
      /\ DOMAIN workers' = Workers
  BY <1>1, <1>2 DEF WebhooksIInv
<1> QED
  BY <1>1, <1>3, <1>4, WorkerStepKeepsInv

(***************************************************************************)
(* The attempt of a worker that is not logged yet is the next of an open   *)
(* delivery: the unique index lets no other through.                       *)
(***************************************************************************)
LEMMA UnloggedIsNext ==
  ASSUME WebhooksIInv, NEW w \in Busy, ~alreadyLogged(workers[w])
  PROVE  /\ workers[w].number = deliveries[workers[w].key].attempts + 1
         /\ deliveries[workers[w].key].status \notin Settled
         /\ workers[w].number \in 1..MaxAttempts
         /\ DOMAIN log[workers[w].key] = 1..(workers[w].number - 1)
         /\ log[workers[w].key] \in [1..(workers[w].number - 1) -> {"retryable"}]
<1>0. PICK run : run = workers[w]
  OBVIOUS
<1>1. RunIsCurrent(run) /\ run.key \in Keys
  BY <1>0, BusyRun
<1>2. DeliveryRow(run.key)
  BY <1>1 DEF WebhooksIInv
<1>3. /\ deliveries[run.key].attempts \in Nat
      /\ DOMAIN log[run.key] = 1..deliveries[run.key].attempts
  BY <1>2, WebhooksAssumption DEF DeliveryRow
<1>4. run.number \notin DOMAIN log[run.key]
  BY <1>0 DEF alreadyLogged
<1>5. run.number = deliveries[run.key].attempts + 1
  BY <1>1, <1>3, <1>4 DEF RunIsCurrent
<1>6. deliveries[run.key].status \notin Settled
  BY <1>1, <1>5 DEF RunIsCurrent
<1>7. /\ deliveries[run.key].attempts + 1 \in 1..MaxAttempts
      /\ deliveries[run.key].attempts > 0 => log[run.key][deliveries[run.key].attempts] = "retryable"
  BY <1>1, <1>6, OpenDeliveryHasAttemptsLeft
<1>8. deliveries[run.key].attempts = run.number - 1
  BY <1>3, <1>5
<1>9. \A n \in 1..(run.number - 1) : log[run.key][n] = "retryable"
  <2> TAKE n \in 1..(run.number - 1)
  <2>1. n = deliveries[run.key].attempts \/ n \in 1..(deliveries[run.key].attempts - 1)
    BY <1>3, <1>8
  <2> QED
    BY <1>2, <1>3, <1>7, <2>1 DEF DeliveryRow
<1>10. log[run.key] \in [1..(run.number - 1) -> {"retryable"}]
  BY <1>2, <1>8, <1>9 DEF DeliveryRow
<1> QED
  BY <1>0, <1>3, <1>5, <1>6, <1>7, <1>8, <1>10

(***************************************************************************)
(* What logging an attempt does to the failures of the endpoints.          *)
(***************************************************************************)
LEMMA FailuresAfter ==
  ASSUME WebhooksIInv, NEW k \in Keys, NEW number \in 1..MaxAttempts, NEW answer \in Outcomes,
         number \notin DOMAIN log[k],
         log' = [log EXCEPT ![k] =
           [n \in DOMAIN log[k] \cup {number} |-> IF n = number THEN answer ELSE log[k][n]]]
  PROVE  /\ \A e \in Endpoints :
              /\ IsFiniteSet(failedAttempts(e)')
              /\ Cardinality(failedAttempts(e)) \in Nat
              /\ Cardinality(failedAttempts(e)') \in Nat
              /\ Cardinality(failedAttempts(e)') >= Cardinality(failedAttempts(e))
         /\ answer # "delivered" =>
              Cardinality(failedAttempts(k[1])') = Cardinality(failedAttempts(k[1])) + 1
<1>1. /\ \A x \in Keys : x # k => log'[x] = log[x]
      /\ DOMAIN log'[k] = DOMAIN log[k] \cup {number}
      /\ log'[k][number] = answer
      /\ \A n \in DOMAIN log[k] : log'[k][n] = log[k][n]
  BY DEF WebhooksIInv
<1>2. \A e \in Endpoints : IsFiniteSet(failedAttempts(e))
  BY DEF WebhooksIInv, FailuresAreLogged
<1>3. PICK a : a = <<k, number>>
  OBVIOUS
<1>4. a \notin failedAttempts(k[1])
  BY <1>3 DEF failedAttempts
<1>5. \A e \in Endpoints : failedAttempts(e)' =
        IF e = k[1] /\ answer # "delivered" THEN failedAttempts(e) \cup {a} ELSE failedAttempts(e)
  <2> TAKE e \in Endpoints
  <2>1. ASSUME NEW x \in Keys, NEW n \in 1..MaxAttempts
        PROVE  (n \in DOMAIN log'[x] /\ log'[x][n] # "delivered") <=>
                 \/ n \in DOMAIN log[x] /\ log[x][n] # "delivered"
                 \/ x = k /\ n = number /\ answer # "delivered"
    BY <1>1
  <2>2. \A b \in {x \in Keys : x[1] = e} \X (1..MaxAttempts) :
          b \in failedAttempts(e)' <=>
            b \in failedAttempts(e) \/ (b = a /\ answer # "delivered")
    BY <1>3, <2>1 DEF failedAttempts
  <2>3. /\ failedAttempts(e) \subseteq {x \in Keys : x[1] = e} \X (1..MaxAttempts)
        /\ failedAttempts(e)' \subseteq {x \in Keys : x[1] = e} \X (1..MaxAttempts)
    BY DEF failedAttempts
  <2>4. a \in {x \in Keys : x[1] = e} \X (1..MaxAttempts) <=> e = k[1]
    BY <1>3
  <2> QED
    BY <2>2, <2>3, <2>4
<1>6. k[1] \in Endpoints
  BY KeyFacts
<1>7. /\ IsFiniteSet(failedAttempts(k[1]) \cup {a})
      /\ Cardinality(failedAttempts(k[1]) \cup {a}) = Cardinality(failedAttempts(k[1])) + 1
  BY <1>2, <1>4, <1>6, FS_AddElement
<1>8. \A e \in Endpoints : Cardinality(failedAttempts(e)) \in Nat
  BY <1>2, FS_CardinalityType
<1>9. Cardinality(failedAttempts(k[1]) \cup {a}) \in Nat
  BY <1>6, <1>7, <1>8
<1> QED
  BY <1>2, <1>5, <1>6, <1>7, <1>8, <1>9

(***************************************************************************)
(* The transaction that records an attempt.                                *)
(***************************************************************************)
LEMMA logAttemptKeepsInv ==
  ASSUME WebhooksIInv, NEW w \in Busy, workers[w].answer # "none",
         ~alreadyLogged(workers[w]), logAttempt(w),
         workers' = [workers EXCEPT ![w] = Idle], UNCHANGED outbox
  PROVE  WebhooksIInv'
<1>0. PICK run : run = workers[w]
  OBVIOUS
<1>1. PICK e : e = run.key[1]
  OBVIOUS
<1>2. /\ w \in Workers /\ RunIsCurrent(run) /\ run.key \in Keys /\ e \in Endpoints
      /\ endpoints[e].status # "none" /\ EndpointRow(endpoints[e])
  BY <1>0, <1>1, BusyRun DEF WebhooksIInv
<1>3. /\ run.number = deliveries[run.key].attempts + 1
      /\ run.number \in 1..MaxAttempts
      /\ DOMAIN log[run.key] = 1..(run.number - 1)
      /\ log[run.key] \in [1..(run.number - 1) -> {"retryable"}]
  BY <1>0, UnloggedIsNext
<1>4. run.answer \in Outcomes /\ run.failures \in Nat
  BY <1>0, <1>2 DEF RunIsCurrent
<1>5. PICK h : h = endpointHealthAfter(run.failures, run.answer)
  OBVIOUS
<1>6. PICK status : status = IF run.answer = "delivered" THEN "succeeded"
                             ELSE IF retries(run) THEN "failed" ELSE "exhausted"
  OBVIOUS
<1>7. /\ log' = [log EXCEPT ![run.key] =
           [n \in DOMAIN log[run.key] \cup {run.number} |->
              IF n = run.number THEN run.answer ELSE log[run.key][n]]]
      /\ deliveries' = [deliveries EXCEPT ![run.key] = [status |-> status, attempts |-> run.number]]
      /\ queue' = queue \/ queue' = queue \cup {run.key}
  BY <1>0, <1>6 DEF logAttempt, enqueueDeliveries
<1>8. endpoints' = [endpoints EXCEPT
           ![e].failures = h.failures,
           ![e].status   = IF h.open THEN "circuit_open" ELSE @,
           ![e].openedAt = h.open \/ @,
           ![e].inARow   = inARowAfter(endpoints[e], run),
           ![e].overtaken = overtakenAfter(endpoints[e], run)]
  BY <1>0, <1>1, <1>5 DEF logAttempt
<1>9. run.number \in Nat /\ MaxAttempts \in Nat \ {0} /\ CircuitAfter \in Nat \ {0}
  BY <1>3, WebhooksAssumption
<1>10. /\ status \in Settled \cup {"none", "pending", "failed"}
       /\ status = "succeeded" <=> run.answer = "delivered"
       /\ status = "exhausted" <=>
            \/ run.answer = "rejected"
            \/ run.answer = "retryable" /\ run.number = MaxAttempts
  BY <1>3, <1>4, <1>6, <1>9 DEF retries, nextAttempt, Outcomes, Settled
<1>11. /\ DOMAIN log' = Keys
       /\ log'[run.key] \in [1..run.number -> Outcomes]
       /\ log'[run.key][run.number] = run.answer
       /\ \A n \in 1..(run.number - 1) : log'[run.key][n] = "retryable"
       /\ \A k \in Keys : k # run.key => log'[k] = log[k]
  <2>1. log'[run.key] = [n \in DOMAIN log[run.key] \cup {run.number} |->
                           IF n = run.number THEN run.answer ELSE log[run.key][n]]
    BY <1>2, <1>7 DEF WebhooksIInv
  <2>2. DOMAIN log[run.key] \cup {run.number} = 1..run.number
    BY <1>3, <1>9
  <2>3. \A n \in 1..(run.number - 1) : n # run.number /\ log[run.key][n] = "retryable"
    BY <1>3, <1>9
  <2>4. \A n \in 1..run.number : n = run.number \/ n \in 1..(run.number - 1)
    BY <1>9
  <2>5. "retryable" \in Outcomes
    BY DEF Outcomes
  <2>6. log'[run.key] = [n \in 1..run.number |->
                           IF n = run.number THEN run.answer ELSE log[run.key][n]]
    BY <2>1, <2>2
  <2>7. \A n \in 1..run.number :
          (IF n = run.number THEN run.answer ELSE log[run.key][n]) \in Outcomes
    BY <1>4, <2>3, <2>4, <2>5
  <2>8. log'[run.key] \in [1..run.number -> Outcomes]
    BY <2>6, <2>7
  <2>9. run.number \in 1..run.number /\ \A n \in 1..(run.number - 1) : n \in 1..run.number
    BY <1>3, <1>9
  <2>10. /\ log'[run.key][run.number] = run.answer
         /\ \A n \in 1..(run.number - 1) : log'[run.key][n] = "retryable"
    BY <2>3, <2>6, <2>9
  <2> QED
    BY <1>7, <2>8, <2>10 DEF WebhooksIInv
<1>12. /\ deliveries'[run.key] = [status |-> status, attempts |-> run.number]
       /\ \A k \in Keys : k # run.key => deliveries'[k] = deliveries[k]
       /\ deliveries' \in [Keys -> [status : Settled \cup {"none", "pending", "failed"},
                                    attempts : 0..MaxAttempts]]
  <2>1. [status |-> status, attempts |-> run.number]
          \in [status : Settled \cup {"none", "pending", "failed"}, attempts : 0..MaxAttempts]
    BY <1>3, <1>9, <1>10
  <2> QED
    BY <1>2, <1>7, <2>1 DEF WebhooksIInv
<1>13. \A k \in Keys : DeliveryRow(k)'
  <2> TAKE k \in Keys
  <2>1. CASE k = run.key
    <3>1. deliveries'[k].status = status /\ deliveries'[k].attempts = run.number
      BY <1>12, <2>1
    <3>2. run.number > 0 /\ run.number \in 0..MaxAttempts
      BY <1>3, <1>9
    <3> QED
      BY <1>10, <1>11, <2>1, <3>1, <3>2 DEF DeliveryRow
  <2>2. CASE k # run.key
    <3>1. DeliveryRow(k)
      BY DEF WebhooksIInv
    <3>2. log'[k] = log[k] /\ deliveries'[k] = deliveries[k]
      BY <1>11, <1>12, <2>2
    <3> QED
      BY <3>1, <3>2 DEF DeliveryRow
  <2> QED
    BY <2>1, <2>2
<1>14. /\ \A x \in Endpoints :
            /\ IsFiniteSet(failedAttempts(x)')
            /\ Cardinality(failedAttempts(x)) \in Nat
            /\ Cardinality(failedAttempts(x)') \in Nat
            /\ Cardinality(failedAttempts(x)') >= Cardinality(failedAttempts(x))
       /\ run.answer # "delivered" =>
            Cardinality(failedAttempts(e)') = Cardinality(failedAttempts(e)) + 1
  <2>1. PICK k \in Keys : k = run.key
    BY <1>2
  <2>2. PICK number \in 1..MaxAttempts : number = run.number
    BY <1>3
  <2>3. PICK answer \in Outcomes : answer = run.answer
    BY <1>4
  <2>4. number \notin DOMAIN log[k]
    BY <1>3, <1>9, <2>1, <2>2
  <2>5. log' = [log EXCEPT ![k] =
          [n \in DOMAIN log[k] \cup {number} |-> IF n = number THEN answer ELSE log[k][n]]]
    BY <1>7, <2>1, <2>2, <2>3
  <2>6. /\ \A x \in Endpoints :
             /\ IsFiniteSet(failedAttempts(x)')
             /\ Cardinality(failedAttempts(x)) \in Nat
             /\ Cardinality(failedAttempts(x)') \in Nat
             /\ Cardinality(failedAttempts(x)') >= Cardinality(failedAttempts(x))
        /\ answer # "delivered" =>
             Cardinality(failedAttempts(k[1])') = Cardinality(failedAttempts(k[1])) + 1
    BY <2>4, <2>5, FailuresAfter
  <2>7. k[1] = e
    BY <1>1, <2>1
  <2> QED
    BY <2>3, <2>6, <2>7
<1>15. /\ h.failures \in Nat /\ h.open \in BOOLEAN
       /\ h.failures <= Cardinality(failedAttempts(e)')
       /\ h.open => Cardinality(failedAttempts(e)') >= CircuitAfter
  <2>1. run.failures <= Cardinality(failedAttempts(e))
    BY <1>1, <1>2 DEF RunIsCurrent
  <2>2. CASE run.answer = "delivered"
    BY <1>2, <1>5, <1>14, <2>2 DEF endpointHealthAfter
  <2>3. CASE run.answer # "delivered"
    <3>1. h = [open |-> run.failures + 1 >= CircuitAfter, failures |-> run.failures + 1]
      BY <1>5, <2>3 DEF endpointHealthAfter
    <3>2. h.failures = run.failures + 1 /\ (h.open <=> run.failures + 1 >= CircuitAfter)
      BY <3>1
    <3>3. h.open \in BOOLEAN
      BY <3>1
    <3> QED
      BY <1>2, <1>4, <1>9, <1>14, <2>1, <2>3, <3>2, <3>3
  <2> QED
    BY <2>2, <2>3
<1>16. PICK ep : ep = [endpoints[e] EXCEPT
           !.failures = h.failures,
           !.status   = IF h.open THEN "circuit_open" ELSE endpoints[e].status,
           !.openedAt = h.open \/ endpoints[e].openedAt,
           !.inARow   = inARowAfter(endpoints[e], run),
           !.overtaken = overtakenAfter(endpoints[e], run)]
  OBVIOUS
<1>17. /\ DOMAIN endpoints' = Endpoints
       /\ \A x \in Endpoints : endpoints'[x] = IF x = e THEN ep ELSE endpoints[x]
  BY <1>2, <1>8, <1>16 DEF WebhooksIInv
<1>18. endpoints[e] \in EndpointRecord
  BY <1>2 DEF EndpointRow, EndpointRecord
<1>19. ep = [status |-> IF h.open THEN "circuit_open" ELSE endpoints[e].status,
             openedAt |-> h.open \/ endpoints[e].openedAt, failures |-> h.failures,
             secret |-> endpoints[e].secret, previous |-> endpoints[e].previous,
             inARow |-> inARowAfter(endpoints[e], run),
             overtaken |-> overtakenAfter(endpoints[e], run)]
  BY <1>16, <1>18 DEF EndpointRecord
<1>20. /\ ep.status = IF h.open THEN "circuit_open" ELSE endpoints[e].status
       /\ ep.failures = h.failures
       /\ ep.secret = endpoints[e].secret /\ ep.previous = endpoints[e].previous
  BY <1>19
<1>21. EndpointRow(ep)
  <2>1. ep.openedAt <=> (h.open \/ endpoints[e].openedAt)
    BY <1>19
  <2>2. ep.openedAt <=> ep.status = "circuit_open"
    BY <1>2, <1>20, <2>1 DEF EndpointRow, EndpointRecord
  <2>3. (h.open \/ endpoints[e].openedAt) \in BOOLEAN
    OBVIOUS
  <2>7. inARowAfter(endpoints[e], run) \in Nat /\ overtakenAfter(endpoints[e], run) \in BOOLEAN
    BY <1>18 DEF inARowAfter, overtakenAfter, EndpointRecord
  <2>4. ep \in EndpointRecord
    BY <1>15, <1>18, <1>19, <2>3, <2>7 DEF EndpointRecord
  <2>5. ep.status # "none"
    BY <1>2, <1>20
  <2>6. ASSUME ~ep.overtaken
        PROVE  ep.failures = ep.inARow /\ (ep.inARow >= CircuitAfter => ep.openedAt)
    <3>1. CASE run.answer = "delivered"
      BY <1>5, <1>9, <1>19, <3>1 DEF endpointHealthAfter, inARowAfter
    <3>2. CASE run.answer # "delivered"
      <4>1. ~endpoints[e].overtaken /\ run.failures = endpoints[e].failures
        BY <1>19, <2>6, <3>2 DEF overtakenAfter
      <4>2. endpoints[e].failures = endpoints[e].inARow
        BY <1>2, <4>1 DEF EndpointRow
      <4>3. ep.inARow = endpoints[e].inARow + 1
        BY <1>19, <3>2 DEF inARowAfter
      <4>4. h = [open |-> run.failures + 1 >= CircuitAfter, failures |-> run.failures + 1]
        BY <1>5, <3>2 DEF endpointHealthAfter
      <4>5. ep.failures = ep.inARow /\ (ep.inARow >= CircuitAfter => h.open)
        BY <1>20, <4>1, <4>2, <4>3, <4>4
      <4> QED
        BY <1>19, <4>5
    <3> QED
      BY <3>1, <3>2
  <2> QED
    BY <1>2, <1>20, <2>2, <2>4, <2>5, <2>6 DEF EndpointRow
<1>22. \A x \in Endpoints : EndpointRow(endpoints[x])'
  <2>1. \A x \in Endpoints : EndpointRow(endpoints'[x])
    BY <1>17, <1>21 DEF WebhooksIInv
  <2> QED
    BY <2>1 DEF EndpointRow, EndpointRecord
<1>23. /\ queue' \subseteq Keys
       /\ \A k \in queue' : endpoints'[k[1]].status # "none"
  <2>1. queue' \subseteq Keys /\ \A k \in queue' : endpoints[k[1]].status # "none"
    BY <1>1, <1>2, <1>7 DEF WebhooksIInv
  <2> QED
    BY <1>2, <1>17, <1>20, <2>1, KeyFacts
<1>24. RunsAreCurrent'
  <2>0. \A v \in Workers : v \in Busy' => v \in Busy /\ workers'[v] = workers[v]
    BY <1>2 DEF Busy, WebhooksIInv
  <2> SUFFICES ASSUME NEW v \in Workers, v \in Busy' PROVE RunIsCurrent(workers[v])'
    BY DEF RunsAreCurrent, Busy
  <2>1. v \in Busy /\ workers'[v] = workers[v]
    BY <2>0
  <2>2. PICK r : r = workers[v]
    OBVIOUS
  <2>3. RunIsCurrent(r) /\ r.key \in Keys /\ r.key[1] \in Endpoints
    BY <2>1, <2>2, BusyRun
  <2>4. /\ deliveries[r.key].attempts \in Nat
        /\ Cardinality(failedAttempts(r.key[1])) \in Nat
        /\ Cardinality(failedAttempts(r.key[1])') \in Nat
        /\ Cardinality(failedAttempts(r.key[1])') >= Cardinality(failedAttempts(r.key[1]))
    BY <1>14, <2>3, WebhooksAssumption DEF WebhooksIInv, DeliveryRow
  <2>5. /\ r.number \in 1..(deliveries'[r.key].attempts + 1)
        /\ r.number = deliveries'[r.key].attempts + 1 => deliveries'[r.key].status \notin Settled
    <3>1. CASE r.key = run.key
      <4>1. deliveries'[r.key].attempts = deliveries[r.key].attempts + 1
        BY <1>3, <1>12, <3>1
      <4>2. r.number \in 1..(deliveries[r.key].attempts + 1)
        BY <2>3 DEF RunIsCurrent
      <4> QED
        BY <2>4, <4>1, <4>2
    <3>2. CASE r.key # run.key
      BY <1>12, <2>3, <3>2 DEF RunIsCurrent
    <3> QED
      BY <3>1, <3>2
  <2>6. /\ endpoints'[r.key[1]].secret = endpoints[r.key[1]].secret
        /\ endpoints'[r.key[1]].previous = endpoints[r.key[1]].previous
    BY <1>17, <1>20, <2>3
  <2>7. r.failures \in Nat /\ r.failures <= Cardinality(failedAttempts(r.key[1])')
    BY <2>3, <2>4 DEF RunIsCurrent
  <2>8. /\ r.key \in Keys /\ r.answer \in Outcomes \cup {"none"}
        /\ r.secret \in 1..endpoints'[r.key[1]].secret
        /\ r.secret < endpoints'[r.key[1]].secret => endpoints'[r.key[1]].previous # 0
    BY <2>3, <2>6 DEF RunIsCurrent
  <2>9. failedAttempts(workers[v].key[1])' = failedAttempts(r.key[1])'
    BY <2>1, <2>2 DEF failedAttempts
  <2>10. workers'[v] = r
    BY <2>1, <2>2
  <2> QED
    BY <2>5, <2>7, <2>8, <2>9, <2>10 DEF RunIsCurrent
<1>25. FailuresAreLogged'
  <2> SUFFICES ASSUME NEW x \in Endpoints
               PROVE  /\ IsFiniteSet(failedAttempts(x)')
                      /\ endpoints'[x].failures <= Cardinality(failedAttempts(x)')
                      /\ endpoints'[x].status = "circuit_open" =>
                           Cardinality(failedAttempts(x)') >= CircuitAfter
    BY DEF FailuresAreLogged
  <2>1. /\ endpoints[x].failures \in Nat
        /\ endpoints[x].failures <= Cardinality(failedAttempts(x))
        /\ endpoints[x].status = "circuit_open" =>
             Cardinality(failedAttempts(x)) >= CircuitAfter
    BY DEF WebhooksIInv, FailuresAreLogged, EndpointRow, EndpointRecord
  <2> QED
    BY <1>9, <1>14, <1>15, <1>17, <1>20, <2>1
<1>26. DOMAIN workers' = Workers /\ outbox' \in [Events -> {"none", "pending", "delivered"}]
  BY DEF WebhooksIInv
<1> QED
  BY <1>11, <1>12, <1>13, <1>17, <1>22, <1>23, <1>24, <1>25, <1>26 DEF WebhooksIInv

(***************************************************************************)
(* The whole job: it ends without a trace or records an attempt.           *)
(***************************************************************************)
LEMMA runWebhookDeliveryKeepsInv ==
  ASSUME WebhooksIInv, NEW w \in Workers, runWebhookDelivery(w)
  PROVE  WebhooksIInv'
<1>1. /\ w \in Busy /\ workers[w].answer # "none"
      /\ workers' = [workers EXCEPT ![w] = Idle] /\ UNCHANGED outbox
  BY DEF runWebhookDelivery
<1>2. CASE ~alreadyLogged(workers[w])
  <2>1. logAttempt(w)
    BY <1>2 DEF runWebhookDelivery
  <2> QED
    BY <1>1, <1>2, <2>1, logAttemptKeepsInv
<1>3. CASE alreadyLogged(workers[w])
  <2>1. queue' = queue \cup {workers[w].key} /\ UNCHANGED <<endpoints, outbox, deliveries, log>>
    BY <1>1, <1>3 DEF runWebhookDelivery
  <2>2. workers[w].key \in Keys /\ endpoints[workers[w].key[1]].status # "none"
    BY <1>1, BusyRun
  <2>3. \A v \in Workers : workers'[v] # Idle => RunIsCurrent(workers'[v])
    BY <1>1 DEF WebhooksIInv, RunsAreCurrent, Busy
  <2>4. /\ queue' \subseteq Keys /\ \A x \in queue' : endpoints[x[1]].status # "none"
        /\ DOMAIN workers' = Workers
    BY <1>1, <2>1, <2>2 DEF WebhooksIInv
  <2> QED
    BY <2>1, <2>3, <2>4, WorkerStepKeepsInv
<1> QED
  BY <1>2, <1>3

(***************************************************************************)
(* An event written to the outbox.                                         *)
(***************************************************************************)
LEMMA eventKeepsInv ==
  ASSUME WebhooksIInv, NEW ev \in Events, event(ev)
  PROVE  WebhooksIInv'
<1>1. PICK new \in SUBSET Keys : new = {}
  OBVIOUS
<1>2. \A k \in new : deliveries[k] = NoDelivery /\ endpoints[k[1]].status # "none"
  BY <1>1
<1>3. /\ deliveries' = [k \in Keys |-> IF k \in new THEN pendingDelivery ELSE deliveries[k]]
      /\ queue' = queue \cup new
      /\ outbox' \in [Events -> {"none", "pending", "delivered"}]
      /\ UNCHANGED <<endpoints, log, workers>>
  BY <1>1 DEF event, WebhooksIInv
<1> QED
  BY <1>2, <1>3, NewDeliveriesKeepInv

(***************************************************************************)
(* Without endpoints, events and jobs the invariant holds.                 *)
(***************************************************************************)
LEMMA WebhooksInitEstablishesInv ==
  ASSUME WebhooksInit
  PROVE  WebhooksIInv
<1>1. \A e \in Endpoints : endpoints[e] = NoEndpoint /\ EndpointRow(endpoints[e])
  BY WebhooksAssumption DEF WebhooksInit, EndpointRow, EndpointRecord, NoEndpoint
<1>2. MaxAttempts \in Nat \ {0}
  BY WebhooksAssumption
<1>3. \A k \in Keys : deliveries[k] = NoDelivery /\ log[k] = << >>
  BY DEF WebhooksInit
<1>4. \A k \in Keys : DeliveryRow(k)
  <2> TAKE k \in Keys
  <2>1. deliveries[k].attempts = 0 /\ deliveries[k].status = "none"
    BY <1>3 DEF NoDelivery
  <2>2. log[k] \in [1..0 -> Outcomes]
    <3>1. 1..0 = {}
      OBVIOUS
    <3>2. << >> \in [{} -> Outcomes]
      OBVIOUS
    <3> QED
      BY <1>3, <3>1, <3>2
  <2> QED
    BY <1>2, <2>1, <2>2 DEF DeliveryRow
<1>5. \A e : failedAttempts(e) = {}
  BY <1>3 DEF failedAttempts
<1>6. FailuresAreLogged
  <2>1. IsFiniteSet({}) /\ Cardinality({}) = 0
    BY FS_EmptySet
  <2> QED
    BY <1>1, <1>5, <2>1 DEF FailuresAreLogged, NoEndpoint
<1>7. RunsAreCurrent
  BY DEF WebhooksInit, RunsAreCurrent, Busy
<1>8. deliveries \in [Keys -> [status : Settled \cup {"none", "pending", "failed"},
                               attempts : 0..MaxAttempts]]
  BY <1>2 DEF WebhooksInit, NoDelivery
<1> QED
  BY <1>1, <1>4, <1>6, <1>7, <1>8 DEF WebhooksInit, WebhooksIInv

(***************************************************************************)
(* Every step keeps the invariant.                                         *)
(***************************************************************************)
LEMMA WebhooksNextKeepsInv ==
  ASSUME WebhooksIInv, [WebhooksNext]_whVars
  PROVE  WebhooksIInv'
<1>1. ASSUME Delivering PROVE WebhooksIInv'
  BY <1>1, drainOutboxKeepsInv, loadContextKeepsInv, postKeepsInv, runWebhookDeliveryKeepsInv
     DEF Delivering
<1>2. ASSUME Customer PROVE WebhooksIInv'
  BY <1>2, CustomerEndpointKeepsInv, ExtraKeepsInv DEF Customer
<1>3. ASSUME NEW ev \in Events, event(ev) PROVE WebhooksIInv'
  BY <1>3, eventKeepsInv
<1>4. ASSUME NEW w \in Workers, NEW dead \in BOOLEAN, redelivered(w, dead) PROVE WebhooksIInv'
  BY <1>4, redeliveredKeepsInv
<1>5. ASSUME UNCHANGED whVars PROVE WebhooksIInv'
  <2>1. /\ queue' \subseteq Keys /\ \A x \in queue' : endpoints[x[1]].status # "none"
        /\ DOMAIN workers' = Workers
        /\ UNCHANGED <<endpoints, outbox, deliveries, log>>
    BY <1>5 DEF whVars, WebhooksIInv
  <2>2. \A v \in Workers : workers'[v] # Idle => RunIsCurrent(workers'[v])
    BY <1>5 DEF whVars, WebhooksIInv, RunsAreCurrent, Busy
  <2> QED
    BY <2>1, <2>2, WorkerStepKeepsInv
<1> QED
  BY <1>1, <1>2, <1>3, <1>4, <1>5 DEF WebhooksNext

-----------------------------------------------------------------------------
(* The theorems *)

(***************************************************************************)
(* The inductive invariant holds throughout: rows, log, queue, what the    *)
(* workers hold and the failures charged agree.                            *)
(***************************************************************************)
THEOREM WebhooksInvariant == WebhooksSpec => []WebhooksIInv
<1>1. WebhooksInit => WebhooksIInv
  BY WebhooksInitEstablishesInv
<1>2. WebhooksIInv /\ [WebhooksNext]_whVars => WebhooksIInv'
  BY WebhooksNextKeepsInv
<1> QED
  BY <1>1, <1>2, PTL DEF WebhooksSpec

(***************************************************************************)
(* The event log is the truth about each delivery: attempts numbered       *)
(* without a gap, the status the one the last answer says, whatever jobs   *)
(* are run twice and whichever workers die (runWebhookDelivery).           *)
(***************************************************************************)
THEOREM EventLogIsTrue == WebhooksSpec => []LogTellsTheDelivery
<1>1. WebhooksIInv => LogTellsTheDelivery
  BY WebhooksIInvImplies
<1> QED
  BY <1>1, WebhooksInvariant, PTL

(***************************************************************************)
(* More failed attempts than one delivery may have are attempts of two.    *)
(***************************************************************************)
LEMMA MoreThanOneDelivery ==
  ASSUME NEW e, NEW F, F \subseteq {k \in Keys : k[1] = e} \X (1..MaxAttempts),
         IsFiniteSet(F), Cardinality(F) >= CircuitAfter
  PROVE  \E a, b \in F : a[1] # b[1]
<1>1. MaxAttempts \in Nat \ {0} /\ CircuitAfter \in Nat /\ MaxAttempts < CircuitAfter
  BY WebhooksAssumption
<1> SUFFICES ASSUME \A a, b \in F : a[1] = b[1]
             PROVE  FALSE
  OBVIOUS
<1>2. F # {}
  BY <1>1, FS_EmptySet
<1>3. PICK c : c \in F
  BY <1>2
<1>4. F \subseteq {c[1]} \X (1..MaxAttempts)
  BY <1>3
<1>5. IsFiniteSet({c[1]}) /\ Cardinality({c[1]}) = 1
  BY FS_Singleton
<1>6. IsFiniteSet(1..MaxAttempts) /\ Cardinality(1..MaxAttempts) = MaxAttempts
  BY <1>1, FS_Interval
<1>7. /\ IsFiniteSet({c[1]} \X (1..MaxAttempts))
      /\ Cardinality({c[1]} \X (1..MaxAttempts)) = MaxAttempts
  <2>1. /\ IsFiniteSet({c[1]} \X (1..MaxAttempts))
        /\ Cardinality({c[1]} \X (1..MaxAttempts))
             = Cardinality({c[1]}) * Cardinality(1..MaxAttempts)
    BY <1>5, <1>6, FS_Product, Zenon
  <2> QED
    BY <1>1, <1>5, <1>6, <2>1
<1>8. Cardinality(F) <= MaxAttempts
  BY <1>4, <1>7, FS_Subset
<1>9. Cardinality(F) \in Nat
  BY FS_CardinalityType
<1> QED
  BY <1>1, <1>8, <1>9

(***************************************************************************)
(* Only the record of a failed attempt opens a circuit.                    *)
(***************************************************************************)
LEMMA OnlyFailuresOpen ==
  ASSUME WebhooksIInv, [WebhooksNext]_whVars, NEW e \in Endpoints,
         endpoints'[e].openedAt, ~endpoints[e].openedAt
  PROVE  \E w \in Busy : workers[w].key[1] = e /\ logAttempt(w)
<1>1. ASSUME UNCHANGED endpoints PROVE FALSE
  BY <1>1
<1>2. ASSUME NEW w \in Workers, runWebhookDelivery(w)
      PROVE  w \in Busy /\ workers[w].key[1] = e /\ logAttempt(w)
  <2>1. w \in Busy /\ logAttempt(w)
    BY <1>1, <1>2 DEF runWebhookDelivery
  <2>2. workers[w].key[1] = e
    BY <2>1 DEF logAttempt, WebhooksIInv
  <2> QED
    BY <2>1, <2>2
<1>3. ASSUME NEW x \in Endpoints,
             \/ createWebhookEndpoint(x) \/ rotateWebhookSecret(x) \/ overlapEnds(x)
             \/ deleteWebhookEndpoint(x) \/ reopenWebhookEndpoint(x)
      PROVE  FALSE
  <2>1. DOMAIN endpoints = Endpoints /\ endpoints[x] \in EndpointRecord
    BY DEF WebhooksIInv, EndpointRow
  <2>2. PICK ep : endpoints' = [endpoints EXCEPT ![x] = ep] /\ (ep.openedAt => endpoints[x].openedAt)
    <3>1. CASE createWebhookEndpoint(x)
      BY <2>1, <3>1 DEF createWebhookEndpoint, EndpointRecord
    <3>2. CASE rotateWebhookSecret(x)
      BY <2>1, <3>2 DEF rotateWebhookSecret, rotated, EndpointRecord
    <3>3. CASE overlapEnds(x)
      BY <2>1, <3>3 DEF overlapEnds, EndpointRecord
    <3>4. CASE deleteWebhookEndpoint(x)
      BY <2>1, <3>4 DEF deleteWebhookEndpoint, EndpointRecord
    <3>5. CASE reopenWebhookEndpoint(x)
      BY <2>1, <3>5 DEF reopenWebhookEndpoint, reopened, EndpointRecord
    <3> QED
      BY <1>3, <3>1, <3>2, <3>3, <3>4, <3>5
  <2> QED
    BY <2>1, <2>2
<1>4. ASSUME Delivering PROVE \E w \in Busy : workers[w].key[1] = e /\ logAttempt(w)
  <2>1. ASSUME NEW rows \in SUBSET Events, drainOutbox(rows) PROVE FALSE
    BY <1>1, <2>1 DEF drainOutbox
  <2>2. ASSUME NEW w \in Workers, NEW k \in queue, loadContext(w, k) PROVE FALSE
    BY <1>1, <2>2 DEF loadContext
  <2>3. ASSUME NEW w \in Workers, NEW answer \in Outcomes, post(w, answer) PROVE FALSE
    BY <1>1, <2>3 DEF post
  <2> QED
    BY <1>2, <1>4, <2>1, <2>2, <2>3 DEF Delivering
<1>5. ASSUME Customer PROVE FALSE
  <2>1. ASSUME NEW k, openExtra(k) PROVE FALSE
    BY <1>1, <2>1 DEF openExtra
  <2> QED
    BY <1>3, <1>5, <2>1 DEF Customer, replayEvent, sendTestEvent
<1>6. ASSUME NEW ev \in Events, event(ev) PROVE FALSE
  BY <1>1, <1>6 DEF event
<1>7. ASSUME NEW w \in Workers, NEW dead \in BOOLEAN, redelivered(w, dead) PROVE FALSE
  BY <1>1, <1>7 DEF redelivered
<1>8. CASE UNCHANGED whVars
  BY <1>1, <1>8 DEF whVars
<1> QED
  BY <1>4, <1>5, <1>6, <1>7, <1>8 DEF WebhooksNext

(***************************************************************************)
(* A circuit opens at the CIRCUIT_BREAK_AFTER_CONSECUTIVE_FAILURES-th      *)
(* failed attempt in a row, unless attempts overtook each other between    *)
(* the read of the count and its write, and never on the attempts of one   *)
(* delivery alone (endpointHealthAfter).                                   *)
(***************************************************************************)
THEOREM CircuitBreaksOnFailures == WebhooksSpec => CircuitOpensInARow
<1> DEFINE OpensInARow ==
      \A e \in Endpoints :
        LET ep == endpoints'[e]
        IN  /\ ep.openedAt \/ ep.overtaken \/ ep.inARow < CircuitAfter
            /\ ep.openedAt /\ ~endpoints[e].openedAt =>
                 /\ ep.overtaken \/ ep.inARow = CircuitAfter
                 /\ \E a, b \in failedAttempts(e)' : a[1] # b[1]
<1>1. ASSUME WebhooksIInv, WebhooksIInv', [WebhooksNext]_whVars, NEW e \in Endpoints
      PROVE  /\ endpoints'[e].openedAt \/ endpoints'[e].overtaken \/ endpoints'[e].inARow < CircuitAfter
             /\ endpoints'[e].openedAt /\ ~endpoints[e].openedAt =>
                  /\ endpoints'[e].overtaken \/ endpoints'[e].inARow = CircuitAfter
                  /\ \E a, b \in failedAttempts(e)' : a[1] # b[1]
  <2>1. /\ endpoints[e] \in EndpointRecord /\ endpoints'[e] \in EndpointRecord
        /\ ~endpoints[e].overtaken =>
             (endpoints[e].inARow >= CircuitAfter => endpoints[e].openedAt)
        /\ ~endpoints'[e].overtaken =>
             /\ endpoints'[e].failures = endpoints'[e].inARow
             /\ endpoints'[e].inARow >= CircuitAfter => endpoints'[e].openedAt
        /\ endpoints'[e].openedAt => endpoints'[e].status = "circuit_open"
    BY <1>1 DEF WebhooksIInv, EndpointRow, EndpointRecord
  <2>2. /\ CircuitAfter \in Nat
        /\ endpoints[e].inARow \in Nat /\ endpoints'[e].inARow \in Nat
    BY <2>1, WebhooksAssumption DEF EndpointRecord
  <2>3. ASSUME endpoints'[e].openedAt, ~endpoints[e].openedAt, ~endpoints'[e].overtaken
        PROVE  endpoints'[e].inARow = CircuitAfter
    <3>1. PICK w \in Busy : workers[w].key[1] = e /\ logAttempt(w)
      BY <1>1, <2>3, OnlyFailuresOpen
    <3>2. PICK run : run = workers[w]
      OBVIOUS
    <3>3. PICK h : h = endpointHealthAfter(run.failures, run.answer)
      OBVIOUS
    <3>4. /\ endpoints'[e].openedAt = (h.open \/ endpoints[e].openedAt)
          /\ endpoints'[e].failures = h.failures
          /\ endpoints'[e].inARow = inARowAfter(endpoints[e], run)
          /\ endpoints'[e].overtaken = overtakenAfter(endpoints[e], run)
      <4>1. endpoints' = [endpoints EXCEPT
               ![e].failures = h.failures,
               ![e].status   = IF h.open THEN "circuit_open" ELSE @,
               ![e].openedAt = h.open \/ @,
               ![e].inARow   = inARowAfter(endpoints[e], run),
               ![e].overtaken = overtakenAfter(endpoints[e], run)]
        BY <3>1, <3>2, <3>3 DEF logAttempt
      <4>2. endpoints'[e] = [endpoints[e] EXCEPT
               !.failures = h.failures,
               !.status   = IF h.open THEN "circuit_open" ELSE endpoints[e].status,
               !.openedAt = h.open \/ endpoints[e].openedAt,
               !.inARow   = inARowAfter(endpoints[e], run),
               !.overtaken = overtakenAfter(endpoints[e], run)]
        BY <1>1, <4>1 DEF WebhooksIInv
      <4> QED
        BY <2>1, <4>2 DEF EndpointRecord
    <3>5. h.open
      BY <2>3, <3>4
    <3>6. run.answer # "delivered"
      BY <3>3, <3>5 DEF endpointHealthAfter
    <3>7. h = [open |-> run.failures + 1 >= CircuitAfter, failures |-> run.failures + 1]
      BY <3>3, <3>6 DEF endpointHealthAfter
    <3>8. h.failures >= CircuitAfter
      BY <3>5, <3>7
    <3>9. endpoints'[e].inARow >= CircuitAfter
      BY <2>1, <2>3, <3>4, <3>8
    <3>10. ~endpoints[e].overtaken
      BY <2>3, <3>4, <3>6 DEF overtakenAfter
    <3>11. endpoints'[e].inARow = endpoints[e].inARow + 1
      BY <3>4, <3>6 DEF inARowAfter
    <3> QED
      BY <2>1, <2>2, <2>3, <3>9, <3>10, <3>11
  <2>4. ASSUME endpoints'[e].openedAt
        PROVE  \E a, b \in failedAttempts(e)' : a[1] # b[1]
    <3>1. IsFiniteSet(failedAttempts(e)') /\ Cardinality(failedAttempts(e)') >= CircuitAfter
      BY <1>1, <2>1, <2>4 DEF WebhooksIInv, FailuresAreLogged
    <3>2. failedAttempts(e)' \subseteq {k \in Keys : k[1] = e} \X (1..MaxAttempts)
      BY DEF failedAttempts
    <3> QED
      BY <3>1, <3>2, MoreThanOneDelivery
  <2> QED
    BY <2>1, <2>2, <2>3, <2>4
<1>2. WebhooksIInv /\ WebhooksIInv' /\ [WebhooksNext]_whVars => [OpensInARow]_whVars
  BY <1>1
<1> QED
  BY <1>2, WebhooksInvariant, PTL DEF WebhooksSpec, CircuitOpensInARow

(***************************************************************************)
(* A post signed before a rotation still verifies after it                 *)
(* (rotateWebhookSecret, liveSecretsFor).                                  *)
(***************************************************************************)
THEOREM RotationKeepsSignatures == WebhooksSpec => []SignedPostVerifies
<1>1. WebhooksIInv => SignedPostVerifies
  BY WebhooksIInvImplies
<1> QED
  BY <1>1, WebhooksInvariant, PTL

(***************************************************************************)
(* No step changes a delivery that succeeded or was given up, or its log:  *)
(* the unique index on the attempt number keeps a late second worker out,  *)
(* because the invariant makes an unlogged number the next of an open one. *)
(***************************************************************************)
THEOREM SettledStaysSettled == WebhooksSpec => SettledDeliveryIsFinal
<1>1. ASSUME WebhooksIInv, [WebhooksNext]_whVars, NEW k \in Keys, deliveries[k].status \in Settled
      PROVE  deliveries'[k] = deliveries[k] /\ log'[k] = log[k]
  <2>1. deliveries[k] # NoDelivery
    BY <1>1 DEF NoDelivery, Settled
  <2>2. ASSUME NEW rows \in SUBSET Events, drainOutbox(rows)
        PROVE  deliveries'[k] = deliveries[k] /\ log'[k] = log[k]
    BY <2>1, <2>2 DEF drainOutbox
  <2>3. ASSUME NEW x, openExtra(x)
        PROVE  deliveries'[k] = deliveries[k] /\ log'[k] = log[k]
    BY <1>1, <2>1, <2>3 DEF openExtra, WebhooksIInv
  <2>4. ASSUME NEW w \in Workers, runWebhookDelivery(w)
        PROVE  deliveries'[k] = deliveries[k] /\ log'[k] = log[k]
    <3>1. CASE alreadyLogged(workers[w])
      BY <2>4, <3>1 DEF runWebhookDelivery
    <3>2. CASE ~alreadyLogged(workers[w])
      <4>1. w \in Busy /\ logAttempt(w)
        BY <2>4, <3>2 DEF runWebhookDelivery
      <4>2. deliveries[workers[w].key].status \notin Settled
        BY <1>1, <3>2, <4>1, UnloggedIsNext
      <4>3. k # workers[w].key
        BY <1>1, <4>2
      <4> QED
        BY <1>1, <4>1, <4>3 DEF logAttempt, WebhooksIInv
    <3> QED
      BY <3>1, <3>2
  <2>5. ASSUME UNCHANGED <<deliveries, log>>
        PROVE  deliveries'[k] = deliveries[k] /\ log'[k] = log[k]
    BY <2>5
  <2>6. ASSUME Delivering PROVE deliveries'[k] = deliveries[k] /\ log'[k] = log[k]
    <3>1. ASSUME NEW w \in Workers, NEW x \in queue, loadContext(w, x)
          PROVE  UNCHANGED <<deliveries, log>>
      BY <3>1 DEF loadContext
    <3>2. ASSUME NEW w \in Workers, NEW answer \in Outcomes, post(w, answer)
          PROVE  UNCHANGED <<deliveries, log>>
      BY <3>2 DEF post
    <3> QED
      BY <2>2, <2>4, <2>5, <2>6, <3>1, <3>2 DEF Delivering
  <2>7. ASSUME Customer PROVE deliveries'[k] = deliveries[k] /\ log'[k] = log[k]
    BY <2>3, <2>5, <2>7 DEF Customer, replayEvent, sendTestEvent, createWebhookEndpoint,
       rotateWebhookSecret, overlapEnds, deleteWebhookEndpoint, reopenWebhookEndpoint
  <2>8. ASSUME NEW ev \in Events, event(ev) PROVE UNCHANGED <<deliveries, log>>
    BY <2>8 DEF event
  <2>9. ASSUME NEW w \in Workers, NEW dead \in BOOLEAN, redelivered(w, dead)
        PROVE  UNCHANGED <<deliveries, log>>
    BY <2>9 DEF redelivered
  <2>10. CASE UNCHANGED whVars
    BY <2>10 DEF whVars
  <2> QED
    BY <1>1, <2>5, <2>6, <2>7, <2>8, <2>9, <2>10 DEF WebhooksNext
<1>2. WebhooksIInv /\ [WebhooksNext]_whVars =>
        [\A k \in Keys : deliveries[k].status \in Settled =>
           deliveries'[k] = deliveries[k] /\ log'[k] = log[k]]_whVars
  BY <1>1
<1> QED
  BY <1>2, WebhooksInvariant, PTL DEF WebhooksSpec, SettledDeliveryIsFinal
=============================================================================
