------------------------------ MODULE Finality ------------------------------
(***************************************************************************)
(* From the dispatched payout to the printed receipt of one settlement:    *)
(* reconciliation (R01-R07), the finality evaluator (F1-F6, X1, X2), the   *)
(* receipt that T20 announces and the worker that prints it                *)
(* (packages/app/src/reconciliation.service.ts, finality.service.ts,       *)
(* receipt.service.ts, migration 0009).                                    *)
(*                                                                         *)
(* A service call is one transaction and one step.  A call that is refused *)
(* after it has written something commits what it wrote: withTenant rolls  *)
(* back on an exception only.  The payout leg is cut down to the outcomes  *)
(* of attempts (module Payout has the rest).  Printing runs outside any    *)
(* transaction, so its steps interleave and a worker may die between them. *)
(***************************************************************************)
EXTENDS SettlementMachine, Integers

CONSTANTS
  MaxAttempts,    \* bound: payout attempts of the settlement
  Composites,     \* bound: ids of the composites a customer exports
  Workers,        \* processes running receipt.generate
  Expected        \* the amount the settlement promised, in minor units

ASSUME FinalityAssumption ==
  /\ MaxAttempts \in Nat \ {0}
  /\ "receipt" \notin Composites
  /\ {"NONE", "EMPTY"} \cap Workers = {}   \* a store entry names its writer, or one of these
  /\ Expected \in Nat \ {0}

VARIABLES
  settlement,      \* the settlements row
  attempts,        \* payout_attempts of the settlement, by attempt number
  facilityStatus,  \* liquidity_facilities.status of the facility drawn on
  currentVersion,  \* the destination's current version; version 1 was authorized
  reconciliation,  \* the reconciliations row
  evaluation,      \* the last finality_evaluations row: what was missing
  artifacts,       \* financial_artifacts
  jobs,            \* queued receipt.generate jobs, one per artifact (the job key)
  store,           \* the object under each artifact's key
  printing         \* what each worker is in the middle of

finalityVars == <<settlement, attempts, facilityStatus, currentVersion,
                  reconciliation, evaluation, artifacts, jobs, store, printing>>

payoutVars  == <<settlement, attempts>>
printVars   == <<artifacts, jobs, store, printing>>

AttemptNumbers == 1..MaxAttempts
ArtifactIds == {"receipt"} \cup Composites

Pointer == 1   \* settlements.payout_attempt_id: set by the dispatch, by nothing else

applyTransition(trigger, answers) ==
  IF Refused(settlement, trigger, answers)
    THEN UNCHANGED settlement
    ELSE \E t \in Permitted(settlement, trigger, answers) :
           /\ settlement' = Applied(settlement, t)
           /\ ProtectSettlementRow(settlement, settlement')

-----------------------------------------------------------------------------
(* What the payout leg, operators and customers do meanwhile *)

UnusedAttempt == [status |-> "NONE", version |-> 0]

IsLatest(n) == /\ attempts[n].status # "NONE"
               /\ \A k \in AttemptNumbers : k > n => attempts[k].status = "NONE"

(***************************************************************************)
(* applyPayoutOutcome and sweepPayoutSla: the latest attempt takes the     *)
(* outcome, the settlement takes T16, T17 or T18 unless that is refused.   *)
(***************************************************************************)
payoutOutcome(n, from, to, trigger, answers) ==
  /\ IsLatest(n)
  /\ attempts[n].status \in from
  /\ attempts' = [attempts EXCEPT ![n].status = to]
  /\ applyTransition(trigger, answers)
  /\ UNCHANGED <<facilityStatus, currentVersion, reconciliation, evaluation>>
  /\ UNCHANGED printVars

credited(n) == payoutOutcome(n, {"SUBMITTED", "UNKNOWN"}, "CREDITED", "payout_credited",
                             {"trusted_provider_event", "utr_present_and_well_formed"})
rejected(n) == payoutOutcome(n, {"SUBMITTED", "UNKNOWN"}, "REJECTED", "payout_rejected",
                             {"trusted_provider_event"})
timedOut(n) == payoutOutcome(n, {"SUBMITTED"}, "UNKNOWN", "payout_timeout",
                             {"rail_sla_elapsed"})

returned(n) ==
  /\ IsLatest(n)
  /\ attempts[n].status = "CREDITED"
  /\ attempts' = [attempts EXCEPT ![n].status = "RETURNED"]
  /\ UNCHANGED <<settlement, facilityStatus, currentVersion, reconciliation, evaluation>>
  /\ UNCHANGED printVars

retryPayout(n) ==
  /\ n + 1 \in AttemptNumbers
  /\ IsLatest(n)
  /\ attempts[n].status = "REJECTED"
  /\ attempts' = [attempts EXCEPT ![n + 1] = [status |-> "SUBMITTED",
                                              version |-> attempts[n].version]]
  /\ UNCHANGED <<settlement, facilityStatus, currentVersion, reconciliation, evaluation>>
  /\ UNCHANGED printVars

resolveResume ==
  /\ settlement.status = "EXCEPTION"
  /\ applyTransition("resolve_resume", {"resolution_attributed"})
  /\ UNCHANGED <<attempts, facilityStatus, currentVersion, reconciliation, evaluation>>
  /\ UNCHANGED printVars

setFacilityStatus(status) ==
  /\ facilityStatus # status
  /\ facilityStatus' = status
  /\ UNCHANGED <<payoutVars, currentVersion, reconciliation, evaluation>>
  /\ UNCHANGED printVars

changeDestination ==
  /\ currentVersion = 1
  /\ currentVersion' = 2
  /\ UNCHANGED <<payoutVars, facilityStatus, reconciliation, evaluation>>
  /\ UNCHANGED printVars

-----------------------------------------------------------------------------
(* Reconciliation *)

Amounts == 0..(Expected + 1)
NoAmount == -1   \* observed_minor IS NULL

ReconciliationTransitions ==
  {[trigger |-> "begin",                from |-> "NONE",          to |-> "PENDING"],        \* R01
   [trigger |-> "observed_matching",    from |-> "PENDING",       to |-> "MATCHED"],        \* R02
   [trigger |-> "observed_differing",   from |-> "PENDING",       to |-> "MISMATCH"],       \* R03
   [trigger |-> "observation_overdue",  from |-> "PENDING",       to |-> "MANUAL_REVIEW"],  \* R04
   [trigger |-> "escalate",             from |-> "MISMATCH",      to |-> "MANUAL_REVIEW"],  \* R05
   [trigger |-> "resolve_matched",      from |-> "MANUAL_REVIEW", to |-> "MATCHED"],        \* R06
   [trigger |-> "resolve_unresolvable", from |-> "MANUAL_REVIEW", to |-> "MISMATCH"]}       \* R07

Reconciled(from, trigger) ==
  {t.to : t \in {u \in ReconciliationTransitions : u.from = from /\ u.trigger = trigger}}

NoReconciliation ==
  [status |-> "NONE", observed |-> NoAmount, delta |-> 0, operator |-> FALSE, early |-> FALSE]

(***************************************************************************)
(* CHECK: a MATCHED row has an observation and a zero delta.               *)
(***************************************************************************)
ReconciliationChecks(row) == row.status = "MATCHED" => row.observed # NoAmount /\ row.delta = 0

(***************************************************************************)
(* T19 and R01.  The row is inserted before T19 is asked for: called for a *)
(* settlement that is not PAYOUT_CONFIRMED (early), it commits a row that  *)
(* makes every later call answer idempotently, without T19.                *)
(***************************************************************************)
beginReconciliation ==
  /\ settlement.status \notin TerminalStatuses
  /\ \E to \in Reconciled(reconciliation.status, "begin") :
       reconciliation' = [NoReconciliation EXCEPT
         !.status = to, !.early = Refused(settlement, "begin_reconciliation", {})]
  /\ applyTransition("begin_reconciliation", {})
  /\ UNCHANGED <<attempts, facilityStatus, currentVersion, evaluation>>
  /\ UNCHANGED printVars

(***************************************************************************)
(* Currency and amount of the observation against what was promised.       *)
(* Without an amount, or in another currency, there is no difference to    *)
(* state: the delta of such a mismatch is zero.                            *)
(***************************************************************************)
compareByDelta(amount, sameCurrency) ==   \* mutant: only the delta is looked at
  LET delta == IF amount = NoAmount \/ ~sameCurrency THEN 0 ELSE amount - Expected
  IN  [trigger |-> IF delta = 0 THEN "observed_matching" ELSE "observed_differing",
       delta |-> delta]

compareObservation(amount, sameCurrency) ==
  IF amount = NoAmount \/ ~sameCurrency
    THEN [trigger |-> "observed_differing", delta |-> 0]
    ELSE [trigger |-> IF amount = Expected THEN "observed_matching" ELSE "observed_differing",
          delta   |-> amount - Expected]

(***************************************************************************)
(* R02, or R03 and R05 with T21 in one transaction.  An observation after  *)
(* the question was answered changes nothing.                              *)
(***************************************************************************)
applyObservation(amount, sameCurrency) ==
  LET verdict == compareObservation(amount, sameCurrency)
      answer(status) == [reconciliation EXCEPT
        !.status = status, !.observed = amount, !.delta = verdict.delta]
  IN  /\ \E to \in Reconciled(reconciliation.status, verdict.trigger) :
           IF verdict.trigger = "observed_matching"
             THEN /\ reconciliation' = answer(to)
                  /\ UNCHANGED settlement
             ELSE /\ \E review \in Reconciled(to, "escalate") : reconciliation' = answer(review)
                  /\ applyTransition("reconciled_mismatch", {"non_zero_delta"})
      /\ ReconciliationChecks(reconciliation')
      /\ UNCHANGED <<attempts, facilityStatus, currentVersion, evaluation>>
      /\ UNCHANGED printVars

sweepReconciliationSla ==
  /\ \E to \in Reconciled(reconciliation.status, "observation_overdue") :
       reconciliation' = [reconciliation EXCEPT !.status = to]
  /\ applyTransition("reconciliation_stalled", {"reconciliation_sla_elapsed"})
  /\ UNCHANGED <<attempts, facilityStatus, currentVersion, evaluation>>
  /\ UNCHANGED printVars

(***************************************************************************)
(* R06 writes what the operator asserts, the expected amount; R07 keeps    *)
(* the figures.  The settlement is not touched.                            *)
(***************************************************************************)
resolveReconciliation(trigger) ==
  /\ trigger \in {"resolve_matched", "resolve_unresolvable"}
  /\ \E to \in Reconciled(reconciliation.status, trigger) :
       reconciliation' = IF to = "MATCHED"
         THEN [reconciliation EXCEPT !.status = to, !.operator = TRUE,
                                     !.observed = Expected, !.delta = 0]
         ELSE [reconciliation EXCEPT !.status = to, !.operator = TRUE]
  /\ ReconciliationChecks(reconciliation')
  /\ UNCHANGED <<payoutVars, facilityStatus, currentVersion, evaluation>>
  /\ UNCHANGED printVars

-----------------------------------------------------------------------------
(* Finality *)

(***************************************************************************)
(* gatherEvidence and toEvidence: one snapshot under the settlement's row  *)
(* lock.  The payout evidence is that of the attempt settlements names.    *)
(* F1, X1 and the UTR are settled before this model starts: T08 audits the *)
(* authorizer, the frozen terms do not change, and T16 takes a credit only *)
(* with a well-formed UTR.                                                 *)
(***************************************************************************)
gatherEvidence ==
  [facility |-> facilityStatus,
   attempt  |-> attempts[Pointer].status,
   paid     |-> attempts[Pointer].version,
   recon    |-> reconciliation.status,
   delta    |-> reconciliation.delta,
   open     |-> settlement.status = "EXCEPTION"]

F2(e) == e.facility = "ACTIVE"
F3CreditedOnly(e) == e.attempt = "CREDITED"   \* mutant: a later return undoes the credit

F3(e) == e.attempt \in {"CREDITED", "RETURNED"}
F4(e) == e.attempt \in {"CREDITED", "RETURNED"}   \* credited_minor and utr are written together
F5(e) == e.recon = "MATCHED" /\ e.delta = 0
F6(e) == ~e.open
X2(e) == e.paid = 1

FINALITY_CONDITIONS == {"F2", "F3", "F4", "F5", "F6"}   \* F1 is settled by T08
DRIFT_CHECKS == {"X2"}                                   \* X1 by the row trigger

evaluateFinality(e) ==
  {c \in FINALITY_CONDITIONS \cup DRIFT_CHECKS :
     CASE c = "F2" -> ~F2(e) [] c = "F3" -> ~F3(e) [] c = "F4" -> ~F4(e)
       [] c = "F5" -> ~F5(e) [] c = "F6" -> ~F6(e) [] c = "X2" -> ~X2(e)}

(***************************************************************************)
(* persistArtifact: the record and its receipt.generate job in one         *)
(* transaction.  Content is what the document says, its hash with it.      *)
(***************************************************************************)
persistWithoutJob(id, content) ==   \* mutant: nothing asks for the PDF
  /\ artifacts' = artifacts \cup {[id |-> id, content |-> content]}
  /\ UNCHANGED <<jobs, store, printing>>

enqueueReceiptGeneration(id) == jobs' = jobs \cup {id}   \* one job per key

persistArtifact(id, content) ==
  /\ artifacts' = artifacts \cup {[id |-> id, content |-> content]}
  /\ enqueueReceiptGeneration(id)
  /\ UNCHANGED <<store, printing>>

readArtifact(id) == {a \in artifacts : a.id = id}

(***************************************************************************)
(* readReceiptSource: the destination version frozen at authorization and  *)
(* the attempt the settlement names.                                       *)
(***************************************************************************)
readReceiptSource ==
  [version |-> 1, attempt |-> Pointer, recon |-> reconciliation.status]

issueReceipt ==
  IF readArtifact("receipt") # {}
    THEN UNCHANGED printVars
    ELSE persistArtifact("receipt", readReceiptSource)

(***************************************************************************)
(* T20.  The evaluation is recorded whatever the answer; the receipt is    *)
(* cut before the transition is asked for, and stays if that is refused.   *)
(***************************************************************************)
evaluateAndSettle ==
  /\ reconciliation.status # "NONE"
  /\ evaluation' = evaluateFinality(gatherEvidence)
  /\ IF settlement.status = "SETTLED" \/ evaluation' # {}
       THEN UNCHANGED <<settlement, printVars>>
       ELSE /\ issueReceipt
            /\ applyTransition("reconciled_matched", {"finality_conditions_met"})
  /\ UNCHANGED <<attempts, facilityStatus, currentVersion, reconciliation>>

-----------------------------------------------------------------------------
(* Artifacts and their PDFs *)

compositeDocument(receipt) == receipt.content   \* the composite embeds its source

exportComposite(k) ==
  /\ readArtifact(k) = {}
  /\ \E r \in readArtifact("receipt") : persistArtifact(k, compositeDocument(r))
  /\ UNCHANGED <<payoutVars, facilityStatus, currentVersion, reconciliation, evaluation>>

(***************************************************************************)
(* runReceiptGenerate: look for the object, render, then putIfAbsent,      *)
(* which creates the file exclusively (one winner) and then writes it.     *)
(***************************************************************************)
Idle == [id |-> "NONE", at |-> "IDLE"]

startGenerate(w) ==
  /\ printing[w] = Idle
  /\ \E id \in jobs :
       IF store[id] # "NONE"
         THEN /\ jobs' = jobs \ {id}
              /\ UNCHANGED printing
         ELSE /\ printing' = [printing EXCEPT ![w] = [id |-> id, at |-> "RENDERING"]]
              /\ UNCHANGED jobs
  /\ UNCHANGED <<artifacts, store>>
  /\ UNCHANGED <<payoutVars, facilityStatus, currentVersion, reconciliation, evaluation>>

putAnyway(w) ==   \* mutant: the store is written without create-exclusive
  /\ printing[w].at = "RENDERING"
  /\ store' = [store EXCEPT ![printing[w].id] = "EMPTY"]
  /\ printing' = [printing EXCEPT ![w].at = "WRITING"]
  /\ UNCHANGED <<artifacts, jobs>>
  /\ UNCHANGED <<payoutVars, facilityStatus, currentVersion, reconciliation, evaluation>>

putIfAbsent(w) ==
  /\ printing[w].at = "RENDERING"
  /\ IF store[printing[w].id] = "NONE"
       THEN /\ store' = [store EXCEPT ![printing[w].id] = "EMPTY"]
            /\ printing' = [printing EXCEPT ![w].at = "WRITING"]
            /\ UNCHANGED jobs
       ELSE /\ jobs' = jobs \ {printing[w].id}
            /\ printing' = [printing EXCEPT ![w] = Idle]
            /\ UNCHANGED store
  /\ UNCHANGED artifacts
  /\ UNCHANGED <<payoutVars, facilityStatus, currentVersion, reconciliation, evaluation>>

writeBytes(w) ==
  /\ printing[w].at = "WRITING"
  /\ store' = [store EXCEPT ![printing[w].id] = w]
  /\ jobs' = jobs \ {printing[w].id}
  /\ printing' = [printing EXCEPT ![w] = Idle]
  /\ UNCHANGED artifacts
  /\ UNCHANGED <<payoutVars, facilityStatus, currentVersion, reconciliation, evaluation>>

(***************************************************************************)
(* A worker dies, or the queue hands its job to another one as well; the   *)
(* job stays queued.                                                       *)
(***************************************************************************)
crashWorker(w) ==
  /\ printing[w] # Idle
  /\ printing' = [printing EXCEPT ![w] = Idle]
  /\ UNCHANGED <<artifacts, jobs, store>>
  /\ UNCHANGED <<payoutVars, facilityStatus, currentVersion, reconciliation, evaluation>>

(***************************************************************************)
(* A customer asks for the PDF: the read queues the job again while there  *)
(* is no object, and never renders.                                        *)
(***************************************************************************)
artifactPdfUrl ==
  /\ \E a \in artifacts : /\ store[a.id] = "NONE"
                          /\ enqueueReceiptGeneration(a.id)
  /\ UNCHANGED <<artifacts, store, printing>>
  /\ UNCHANGED <<payoutVars, facilityStatus, currentVersion, reconciliation, evaluation>>

-----------------------------------------------------------------------------
(***************************************************************************)
(* dispatchPayout has committed: attempt 1 pays the authorized version.    *)
(***************************************************************************)
FinalityInit ==
  /\ settlement = [status |-> "PAYOUT_SUBMITTED", enteredFrom |-> "NONE",
                   cancelRequested |-> FALSE, pastPonr |-> TRUE]
  /\ attempts = [n \in AttemptNumbers |->
                   IF n = 1 THEN [status |-> "SUBMITTED", version |-> 1] ELSE UnusedAttempt]
  /\ facilityStatus = "ACTIVE"
  /\ currentVersion = 1
  /\ reconciliation = NoReconciliation
  /\ evaluation = {}
  /\ artifacts = {}
  /\ jobs = {}
  /\ store = [id \in ArtifactIds |-> "NONE"]
  /\ printing = [w \in Workers |-> Idle]

FinalityNext ==
  \/ \E n \in AttemptNumbers : credited(n)
  \/ \E n \in AttemptNumbers : rejected(n)
  \/ \E n \in AttemptNumbers : timedOut(n)
  \/ \E n \in AttemptNumbers : returned(n)
  \/ \E n \in AttemptNumbers : retryPayout(n)
  \/ resolveResume
  \/ \E status \in {"ACTIVE", "SUSPENDED"} : setFacilityStatus(status)
  \/ changeDestination
  \/ beginReconciliation
  \/ \E amount \in Amounts \cup {NoAmount}, same \in BOOLEAN : applyObservation(amount, same)
  \/ sweepReconciliationSla
  \/ \E trigger \in {"resolve_matched", "resolve_unresolvable"} : resolveReconciliation(trigger)
  \/ evaluateAndSettle
  \/ \E k \in Composites : exportComposite(k)
  \/ \E w \in Workers : startGenerate(w)
  \/ \E w \in Workers : putIfAbsent(w)
  \/ \E w \in Workers : writeBytes(w)
  \/ \E w \in Workers : crashWorker(w)
  \/ artifactPdfUrl

(***************************************************************************)
(* The finality job and the receipt.generate workers keep running, and a   *)
(* worker does not die every single time it tries (the queue retries).     *)
(***************************************************************************)
FinalityFairness ==
  /\ WF_finalityVars(evaluateAndSettle)
  /\ WF_finalityVars(\E w \in Workers : startGenerate(w))
  /\ SF_finalityVars(\E w \in Workers : putIfAbsent(w))
  /\ WF_finalityVars(\E w \in Workers : writeBytes(w))

FinalitySpec == FinalityInit /\ [][FinalityNext]_finalityVars /\ FinalityFairness

-----------------------------------------------------------------------------
(* Properties *)

Receipts == [version : {1, 2}, attempt : AttemptNumbers,
             recon : {"NONE", "PENDING", "MATCHED", "MISMATCH", "MANUAL_REVIEW"}]

(***************************************************************************)
(* Every row keeps to its columns; in particular no two artifacts share an *)
(* id, and a MATCHED reconciliation has an observation and a zero delta    *)
(* (the CHECKs and unique indexes of migration 0009).                      *)
(***************************************************************************)
FinalityTypeOK ==
  /\ settlement \in Rows
  /\ attempts \in [AttemptNumbers ->
       [status : {"NONE", "SUBMITTED", "CREDITED", "REJECTED", "UNKNOWN", "RETURNED"},
        version : 0..1]]
  /\ facilityStatus \in {"ACTIVE", "SUSPENDED"}
  /\ currentVersion \in {1, 2}
  /\ reconciliation \in
       [status : {"NONE", "PENDING", "MATCHED", "MISMATCH", "MANUAL_REVIEW"},
        observed : Int, delta : Int, operator : BOOLEAN, early : BOOLEAN]
  /\ ReconciliationChecks(reconciliation)
  /\ evaluation \subseteq {"F2", "F3", "F4", "F5", "F6", "X2"}
  /\ \A a \in artifacts : a.id \in ArtifactIds /\ a.content \in Receipts
  /\ \A a, b \in artifacts : a.id = b.id => a = b
  /\ jobs \subseteq ArtifactIds
  /\ store \in [ArtifactIds -> {"NONE", "EMPTY"} \cup Workers]
  /\ printing \in [Workers -> [id : ArtifactIds \cup {"NONE"},
                               at : {"IDLE", "RENDERING", "WRITING"}]]

(***************************************************************************)
(* Finality rests on evidence, whatever order credits, timeouts, retries,  *)
(* observations and operator decisions came in: a SETTLED settlement was   *)
(* reconciled to the unit (or an operator said so), and the attempt it     *)
(* names was credited to the authorized destination                        *)
(* (evaluateAndSettle, evaluateFinality).                                  *)
(***************************************************************************)
SettledOnEvidence ==
  settlement.status = "SETTLED" =>
    /\ reconciliation.status = "MATCHED"
    /\ reconciliation.observed = Expected
    /\ attempts[Pointer].status \in {"CREDITED", "RETURNED"}
    /\ attempts[Pointer].version = 1

(***************************************************************************)
(* A receipt says "final status SETTLED": it exists exactly when the       *)
(* settlement is SETTLED, and tells the destination version and the        *)
(* attempt that were paid.  The exception is a reconciliation opened       *)
(* before the payout was confirmed, whose receipt is cut and whose T20 is  *)
(* then refused (beginReconciliation, evaluateAndSettle, issueReceipt).    *)
(***************************************************************************)
ReceiptTellsTheSettlement ==
  /\ settlement.status = "SETTLED" => readArtifact("receipt") # {}
  /\ \A r \in readArtifact("receipt") :
       /\ r.content = [version |-> attempts[Pointer].version, attempt |-> Pointer,
                       recon |-> "MATCHED"]
       /\ settlement.status = "SETTLED" \/ reconciliation.early

(***************************************************************************)
(* INV-48: an artifact is never changed or removed, and a PDF that was     *)
(* written in full is never written again, although the queue may run one  *)
(* job in two workers (persistArtifact, putIfAbsent).                      *)
(***************************************************************************)
ArtifactsAreWriteOnce ==
  [][/\ artifacts \subseteq artifacts'
     /\ \A id \in ArtifactIds : store[id] \in Workers => store'[id] = store[id]]_finalityVars

(***************************************************************************)
(* A reconciled settlement whose named attempt was credited becomes        *)
(* SETTLED, unless the facility is suspended, which F2 holds against it    *)
(* (evaluateAndSettle).                                                    *)
(***************************************************************************)
MatchedSettles ==
  (/\ settlement.status = "RECONCILING"
   /\ reconciliation.status = "MATCHED"
   /\ attempts[Pointer].status \in {"CREDITED", "RETURNED"})
  ~> (settlement.status = "SETTLED" \/ facilityStatus = "SUSPENDED")

(***************************************************************************)
(* Every artifact gets its object, through crashes of the worker and       *)
(* duplicated jobs (persistArtifact enqueues in the issuing transaction,   *)
(* runReceiptGenerate).                                                    *)
(***************************************************************************)
EveryArtifactIsStored ==
  \A id \in ArtifactIds : readArtifact(id) # {} ~> store[id] # "NONE"

(***************************************************************************)
(* A settlement that is final has the evidence and the receipt of its      *)
(* finality (evaluateAndSettle).                                           *)
(***************************************************************************)
FinalityIsBacked ==
  /\ FinalityTypeOK
  /\ SettledOnEvidence
  /\ ReceiptTellsTheSettlement
=============================================================================
